SPECIFICATION Spec
CONSTANTS
    Cmd = {c1, c2, c3}
    NoCmd = none
    Backlog = 2
INVARIANT TypeOK
PROPERTIES ChannelSpec Executes
