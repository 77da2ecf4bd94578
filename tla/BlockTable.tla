------------------------------ MODULE BlockTable ------------------------------
(***************************************************************************)
(* The block and throttle tables of the C++ sniffer: the command thread    *)
(* writes them, every connection reads them (and erases what it finds      *)
(* lapsed), the maintenance thread sweeps them, one table after the other. *)
(* Each operation holds the table's mutex throughout, so each is a step.   *)
(***************************************************************************)
EXTENDS TableKeys, FiniteSets

CONSTANTS
    Delay,       \* delays a throttle command may carry
    MaxTs,       \* bound: the clock stops here
    MaxDur,      \* bound: the longest duration_seconds sent
    MaxEntries   \* bound: no command is sent while this many entries are stored

ASSUME TableAssumption ==
    /\ Delay \subseteq Nat
    /\ MaxTs \in Nat \ {0}
    /\ MaxDur \in Nat
    /\ MaxEntries \in Nat

VARIABLES
    g_block_table,
    g_throttle_table,
    now_ts,          \* the system clock, taken to move forward only
    maintenance,     \* the table the maintenance thread sweeps next
    answer,          \* what the last reader was told
    actor            \* history: who took the last step

vars == <<g_block_table, g_throttle_table, now_ts, maintenance, answer, actor>>

Init ==
    /\ g_block_table = NoTable
    /\ g_throttle_table = NoTable
    /\ now_ts = 1
    /\ maintenance = "blocks"
    /\ answer = [blocked |-> FALSE, delay_ms |-> 0]
    /\ actor = "system"

-----------------------------------------------------------------------------
(* The command thread.                                                     *)

Room == Cardinality(DOMAIN g_block_table) + Cardinality(DOMAIN g_throttle_table) < MaxEntries

\* duration_seconds takes precedence over an absolute until
UntilOf(until, dur) == IF dur > 0 THEN now_ts + dur ELSE until

add_block(ip, p, until) ==
    g_block_table' = Put(g_block_table, KeyOf(ip, p), [until_ts |-> until])

\* A slip: the two fields the wrong way round.  No specification uses it, nor
\* the other slips below.
SwappedThrottle(ip, p, delay_ms, until) ==
    g_throttle_table' =
        Put(g_throttle_table, KeyOf(ip, p), [delay_ms |-> until, until_ts |-> delay_ms])

add_throttle(ip, p, delay_ms, until) ==
    g_throttle_table' =
        Put(g_throttle_table, KeyOf(ip, p), [delay_ms |-> delay_ms, until_ts |-> until])

\* The stored keys that a removal of domain p for owner ip erases.
ToErase(t, ip, p) ==
    IF p.wild
    THEN {k \in DOMAIN t : k.owner = ip /\ EndsUnder(k.dom, p.name)}
    ELSE {KeyOf(ip, p)}

remove_block(ip, p) ==
    g_block_table' = Drop(g_block_table, ToErase(g_block_table, ip, p))

remove_throttle(ip, p) ==
    g_throttle_table' = Drop(g_throttle_table, ToErase(g_throttle_table, ip, p))

CmdBlock(ip, p, until, dur) ==
    /\ actor' = "command"
    /\ Room
    /\ add_block(ip, p, UntilOf(until, dur))
    /\ UNCHANGED <<g_throttle_table, now_ts, maintenance, answer>>

CmdUnblock(ip, p) ==
    /\ actor' = "command"
    /\ remove_block(ip, p)
    /\ UNCHANGED <<g_throttle_table, now_ts, maintenance, answer>>

CmdThrottle(ip, p, delay_ms, dur) ==
    /\ actor' = "command"
    /\ Room
    /\ add_throttle(ip, p, delay_ms, UntilOf(0, dur))
    /\ UNCHANGED <<g_block_table, now_ts, maintenance, answer>>

CmdUnthrottle(ip, p) ==
    /\ actor' = "command"
    /\ remove_throttle(ip, p)
    /\ UNCHANGED <<g_block_table, now_ts, maintenance, answer>>

-----------------------------------------------------------------------------
(* The readers.                                                            *)

Hit(k)    == k \in DOMAIN g_block_table /\ Live(g_block_table[k], now_ts)
Lapsed(k) == k \in DOMAIN g_block_table /\ ~Live(g_block_table[k], now_ts)

\* A wildcard entry of the client or of "global" that stands for d and lives.
WildcardHit(ip, d) ==
    \E k \in DOMAIN g_block_table :
        /\ k.owner \in {ip, "global"}
        /\ k.dom.wild
        /\ WildMatches(k.dom.name, d)
        /\ Live(g_block_table[k], now_ts)

\* The exact keys are looked up first, the client's before the global one, and
\* a lapsed entry met on the way is erased; wildcard entries are only scanned.
is_blocked(ip, d) ==
    LET own    == KeyOf(ip, Exact(d))
        global == KeyOf("global", Exact(d))
        met    == IF Hit(own) THEN {own} ELSE {own, global}
    IN  /\ answer' = [answer EXCEPT !.blocked = Hit(own) \/ Hit(global) \/ WildcardHit(ip, d)]
        /\ g_block_table' = Drop(g_block_table, {k \in met : Lapsed(k)})
        /\ actor' = "connection"
        /\ UNCHANGED <<g_throttle_table, now_ts, maintenance>>

\* Only the client's own entry for that very name: neither "global" nor wildcards.
get_throttle_ms(ip, d) ==
    LET k    == KeyOf(ip, Exact(d))
        t    == g_throttle_table
        live == k \in DOMAIN t /\ Live(t[k], now_ts)
    IN  /\ answer' = [answer EXCEPT !.delay_ms = IF live THEN t[k].delay_ms ELSE 0]
        /\ g_throttle_table' = IF live THEN t ELSE Drop(t, {k})
        /\ actor' = "connection"
        /\ UNCHANGED <<g_block_table, now_ts, maintenance>>

-----------------------------------------------------------------------------
(* The maintenance thread, the clock, and the end of the process.          *)

\* Slips: a sweep that takes "no end" for an end long past, and a second loop
\* copied from the first that still goes over the blocks.
SweepsPermanent ==
    /\ actor' = "maintenance"
    /\ maintenance = "blocks"
    /\ g_block_table' = Restrict(g_block_table,
                          {k \in DOMAIN g_block_table : now_ts < g_block_table[k].until_ts})
    /\ maintenance' = "throttles"
    /\ UNCHANGED <<g_throttle_table, now_ts, answer>>

SweepsBlocksAgain ==
    /\ actor' = "maintenance"
    /\ maintenance = "throttles"
    /\ g_block_table' = LivePart(g_block_table, now_ts)
    /\ maintenance' = "blocks"
    /\ UNCHANGED <<g_throttle_table, now_ts, answer>>

\* cleanup_expired releases g_block_mu before it takes g_throttle_mu.
CleanupBlocks ==
    /\ actor' = "maintenance"
    /\ maintenance = "blocks"
    /\ g_block_table' = LivePart(g_block_table, now_ts)
    /\ maintenance' = "throttles"
    /\ UNCHANGED <<g_throttle_table, now_ts, answer>>

CleanupThrottles ==
    /\ actor' = "maintenance"
    /\ maintenance = "throttles"
    /\ g_throttle_table' = LivePart(g_throttle_table, now_ts)
    /\ maintenance' = "blocks"
    /\ UNCHANGED <<g_block_table, now_ts, answer>>

Tick ==
    /\ actor' = "system"
    /\ now_ts < MaxTs
    /\ now_ts' = now_ts + 1
    /\ UNCHANGED <<g_block_table, g_throttle_table, maintenance, answer>>

\* The process ends and is started again: its memory is gone.
Restart ==
    /\ actor' = "system"
    /\ g_block_table' = NoTable
    /\ g_throttle_table' = NoTable
    /\ maintenance' = "blocks"
    /\ UNCHANGED <<now_ts, answer>>

Commands ==
    \E ip \in Owner, p \in Pattern :
        \/ \E until \in 0..MaxTs : CmdBlock(ip, p, until, 0)
        \/ \E dur \in 1..MaxDur : CmdBlock(ip, p, 0, dur)
        \/ CmdUnblock(ip, p)
        \/ \E m \in Delay, dur \in 0..MaxDur : CmdThrottle(ip, p, m, dur)
        \/ CmdUnthrottle(ip, p)

Readers == \E ip \in Ip, d \in Name : is_blocked(ip, d) \/ get_throttle_ms(ip, d)

Next ==
    \/ Commands
    \/ Readers
    \/ CleanupBlocks
    \/ CleanupThrottles
    \/ Tick
    \/ Restart

Spec == Init /\ [][Next]_vars

\* The maintenance thread sleeps a bounded time between two sweeps.
FairSpec == Spec /\ WF_vars(CleanupBlocks) /\ WF_vars(CleanupThrottles)

-----------------------------------------------------------------------------
(* Properties.                                                             *)

Until == 0..(MaxTs + MaxDur)
BlockEntry == [until_ts : Until]
ThrottleEntry == [delay_ms : Delay, until_ts : Until]
IsTable(t, Entry) == DOMAIN t \subseteq Key /\ t \in [DOMAIN t -> Entry]

\* Both tables hold entries of their own kind under well-formed keys, and the
\* last decision is a decision.
TypeOK ==
    /\ IsTable(g_block_table, BlockEntry)
    /\ IsTable(g_throttle_table, ThrottleEntry)
    /\ now_ts \in 1..MaxTs
    /\ maintenance \in {"blocks", "throttles"}
    /\ answer \in [blocked : BOOLEAN, delay_ms : Delay \cup {0}]
    /\ actor \in {"command", "connection", "maintenance", "system"}

\* The tables seen through the clock: an entry past its second is not there.
Policy == INSTANCE BlockPolicy WITH
    blocks    <- LivePart(g_block_table, now_ts),
    throttles <- LivePart(g_throttle_table, now_ts),
    now       <- now_ts

\* Lazy expiry is invisible: whatever readers and sweeps erase and in which
\* order, every connection is answered as by tables whose entries vanish at
\* their very second, and only commands and restarts change what is in force.
PolicySpec == Policy!Spec

LapsedIn(t, k) == k \in DOMAIN t /\ ~Live(t[k], now_ts)

\* No entry, wildcard entries included (no reader erases those), stays in a
\* table for ever after its second: the sweep or a reader removes it, or a
\* command renews it.
LapsedLeave ==
    \A k \in Key :
        /\ LapsedIn(g_block_table, k) ~> ~LapsedIn(g_block_table, k)
        /\ LapsedIn(g_throttle_table, k) ~> ~LapsedIn(g_throttle_table, k)
=============================================================================
