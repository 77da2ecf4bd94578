SPECIFICATION Spec
CONSTANTS
    Thread = {t1, t2}
    Main = main
    Link = link
    Free = free
    MaxFd = 2
    Room = 2
INVARIANTS TypeOK NoCrosstalk
PROPERTIES Reconnects ReportsEnd
