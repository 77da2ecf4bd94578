SPECIFICATION RulesSpec
CONSTANTS
    c1 = c1
    n1 = n1
    Ip <- NoIp
    Name <- MCName
    Below <- MCBelow
    RuleValue <- OneGlobal
    MaxChanges = 2
    MaxCrashes = 0
INVARIANT ResyncLeavesNoOrphan
