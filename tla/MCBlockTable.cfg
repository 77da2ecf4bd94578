SPECIFICATION FairSpec
CONSTANTS
    c1 = c1
    apex = apex
    sub = sub
    Ip <- MCIp
    Name <- MCName
    Below <- MCBelow
    Delay = {5}
    MaxTs = 3
    MaxDur = 1
    MaxEntries = 2
INVARIANT TypeOK
PROPERTIES PolicySpec LapsedLeave
