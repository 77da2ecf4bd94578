SPECIFICATION RelaySpec
CONSTANTS
    MaxBytes = 2
    Room = 1
PROPERTY IdleKilled
