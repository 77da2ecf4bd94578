SPECIFICATION Spec
CONSTANTS
    Client = client
    Server = server
    Message <- Messages
    PeekSize = 70
INVARIANTS TypeOK NeverAPart WholeIsNamed
PROPERTY LaterLooksKeep
