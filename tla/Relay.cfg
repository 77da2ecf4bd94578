SPECIFICATION FairSpec
CONSTANTS
    MaxBytes = 3
    Room = 2
INVARIANTS TypeOK StreamIntact HalfClose
PROPERTY Delivered
