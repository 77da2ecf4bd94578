----------------------------- MODULE BlockPolicy -----------------------------
(***************************************************************************)
(* What the enforcement tables promise, without lazy expiry: the blocks    *)
(* and throttles in force are exactly those granted, not revoked and not   *)
(* yet lapsed, and a connection is refused exactly when one of the blocks  *)
(* in force covers it.  Only commands, time and a restart change them.     *)
(***************************************************************************)
EXTENDS TableKeys

VARIABLES
    blocks,      \* the blocks in force: a table of [until_ts]
    throttles,   \* the throttles in force: a table of [delay_ms, until_ts]
    now,         \* seconds
    answer,      \* the last decision a connection was given
    actor        \* who took the last step

vars == <<blocks, throttles, now, answer, actor>>

Init ==
    /\ blocks = NoTable
    /\ throttles = NoTable
    /\ now = 1
    /\ answer = [blocked |-> FALSE, delay_ms |-> 0]
    /\ actor = "system"

\* Key k gets a new entry of any length; one that is already past is not in
\* force, but the entry it replaced is gone all the same.
Granted(old, new, k) ==
    /\ DOMAIN new \subseteq DOMAIN old \cup {k}
    /\ Drop(new, {k}) = Drop(old, {k})

GrantBlock(k) ==
    /\ actor' = "command"
    /\ UNCHANGED <<now, answer, throttles>>
    /\ Granted(blocks, blocks', k)

GrantThrottle(k) ==
    /\ actor' = "command"
    /\ UNCHANGED <<now, answer, blocks>>
    /\ Granted(throttles, throttles', k)

\* "*.x" revokes every spelling that ends with ".x"; a name revokes itself.
Revoked(o, p) ==
    {k \in Key : k.owner = o /\ IF p.wild THEN EndsUnder(k.dom, p.name) ELSE k.dom = p}

\* Whether a block on x goes with "*.x" is left open: the code and the comment
\* on its test differ.
Apex(o, p) == IF p.wild THEN {KeyOf(o, Exact(p.name))} ELSE {}

RevokeBlocks(o, p) ==
    /\ actor' = "command"
    /\ UNCHANGED <<now, answer, throttles>>
    /\ \E apex \in {{}, Apex(o, p)} : blocks' = Drop(blocks, Revoked(o, p) \cup apex)

RevokeThrottles(o, p) ==
    /\ actor' = "command"
    /\ UNCHANGED <<now, answer, blocks>>
    /\ throttles' = Drop(throttles, Revoked(o, p))

Ask(ip, d) ==
    /\ actor' = "connection"
    /\ answer' = [answer EXCEPT !.blocked = \E k \in DOMAIN blocks : Covers(k, ip, d)]
    /\ UNCHANGED <<blocks, throttles, now>>

\* The delay is that of the client's own throttle on that very name.
AskDelay(ip, d) ==
    /\ actor' = "connection"
    /\ LET k == KeyOf(ip, Exact(d))
       IN  answer' = [answer EXCEPT !.delay_ms =
                        IF k \in DOMAIN throttles THEN throttles[k].delay_ms ELSE 0]
    /\ UNCHANGED <<blocks, throttles, now>>

Pass ==
    /\ actor' = "system"
    /\ now' = now + 1
    /\ blocks' = LivePart(blocks, now')
    /\ throttles' = LivePart(throttles, now')
    /\ UNCHANGED answer

\* The tables live only in the sniffer's memory.
Forget ==
    /\ actor' = "system"
    /\ blocks' = NoTable
    /\ throttles' = NoTable
    /\ UNCHANGED <<now, answer>>

\* The maintenance thread changes nothing that is in force.
Tidy ==
    /\ actor' = "maintenance"
    /\ UNCHANGED <<blocks, throttles, now, answer>>

Next ==
    \/ \E k \in Key : GrantBlock(k) \/ GrantThrottle(k)
    \/ \E o \in Owner, p \in Pattern : RevokeBlocks(o, p) \/ RevokeThrottles(o, p)
    \/ \E ip \in Ip, d \in Name : Ask(ip, d) \/ AskDelay(ip, d)
    \/ Tidy
    \/ Pass
    \/ Forget

Spec == Init /\ [][Next]_vars
=============================================================================
