SPECIFICATION RulesFairSpec
CONSTANTS
    c1 = c1
    n1 = n1
    Ip <- MCIp
    Name <- MCName
    Below <- MCBelow
    RuleValue <- FourRules
    MaxChanges = 2
    MaxCrashes = 2
INVARIANTS RulesTypeOK CaughtUp
PROPERTIES Converges SelfHeals
