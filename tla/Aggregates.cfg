SPECIFICATION Spec
CONSTANTS
    Hour = {1, 2}
    MaxTotal = 3
    MaxReports = 2
    MaxDeletes = 1
INVARIANTS TypeOK OneRowAnHour
PROPERTY NothingForgotten
