---- MODULE MCRuleSync ----
(* One client and one name; rules that meet on the same entries. *)
EXTENDS RuleSync, TLC

CONSTANTS c1, n1

MCIp == {c1}
MCName == {n1}
MCBelow == (n1 :> {})

GlobalBlock == [id |-> "a", scope |-> "global", target |-> "none", domain |-> Exact(n1),
                action |-> "block", timed |-> FALSE]
ClientBlock == [GlobalBlock EXCEPT !.scope = "ip", !.target = c1, !.timed = TRUE]
ClientLimit == [ClientBlock EXCEPT !.id = "b", !.action = "block_after_minutes", !.timed = FALSE]

OneGlobal == {GlobalBlock}
GlobalThrottle == [GlobalBlock EXCEPT !.domain = Wild(n1), !.action = "throttle"]
FourRules == {GlobalBlock, GlobalThrottle, ClientBlock, ClientLimit}
NoIp == {}
====
