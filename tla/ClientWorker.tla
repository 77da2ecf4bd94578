----------------------------- MODULE ClientWorker -----------------------------
(***************************************************************************)
(* One client's ClientWorker: it adds up the time spent on each name from  *)
(* the events it is sent, blocks a name whose total has reached the limit, *)
(* and reports to the aggregator at intervals.  Events carry the second    *)
(* they were observed in and may arrive late and out of order: each proxy  *)
(* connection sends its own, a throttled one after sleeping.  A block      *)
(* command carries a duration, which the sniffer adds to the second it     *)
(* reads the command in, after any time in the bridge and the backlog.     *)
(***************************************************************************)
EXTENDS Integers, FiniteSets, Sequences

CONSTANTS
    Name,          \* the names the client uses
    Limited,       \* those under a block_after_minutes rule
    Limit,         \* its limit in seconds
    SessionGap,    \* @session_gap_s
    FlushInterval, \* @flush_interval_ms
    IdleTimeout,   \* @idle_timeout_ms
    Day,           \* the seconds of a day
    MaxLate,       \* bound: how late an event may arrive
    MaxSent,       \* bound: block commands on their way to the sniffer
    MaxTs          \* bound: the clock stops here

ASSUME WorkerAssumption ==
    /\ Limited \subseteq Name
    /\ "none" \notin Limited
    /\ Limit \in Nat /\ SessionGap \in Nat /\ MaxLate \in Nat /\ MaxSent \in Nat
    /\ MaxTs \in Nat \ {0} /\ Day \in Nat \ {0}
    /\ FlushInterval \in Nat /\ IdleTimeout \in Nat
    /\ FlushInterval < IdleTimeout

VARIABLES
    now,
    running,    \* whether the registry has the client's worker
    domains,    \* its statistics, by name
    flush_at,   \* when its next :flush message is due
    idle_at,    \* when its GenServer timeout would fire
    sent,       \* the block commands on their way to the sniffer
    blocks,     \* the sniffer's entries: by name, the end it was given, and when the
                \* command was sent and read
    counted     \* history: by name, the seconds the total stands for

vars == <<now, running, domains, flush_at, idle_at, sent, blocks, counted>>

NoStats == [d \in {} |-> [total_seconds |-> 0, session_start_ts |-> 0, last_event_ts |-> 0]]

Init ==
    /\ now = 1
    /\ running = FALSE /\ domains = NoStats
    /\ flush_at = 0 /\ idle_at = 0
    /\ sent = <<>> /\ blocks = [d \in {} |-> [until_ts |-> 0, sent |-> 0, read |-> 0]]
    /\ counted = [d \in Name |-> {}]

-----------------------------------------------------------------------------
(* Time on a name.                                                         *)

NewStats(ts) == [total_seconds |-> 0, session_start_ts |-> ts, last_event_ts |-> ts]
StatsOf(d, ts) == IF d \in DOMAIN domains THEN domains[d] ELSE NewStats(ts)

\* A gap counts if it is neither negative (a late event) nor a pause.
GapCounts(gap) == gap \in 0..SessionGap

\* Slips: a late event turns the clock of the name back; min for max.  No
\* specification uses them, nor the slips below.
LatestEventWins(e, ts) ==
    LET gap == ts - e.last_event_ts
    IN  [total_seconds    |-> e.total_seconds + (IF GapCounts(gap) THEN gap ELSE 0),
         session_start_ts |-> IF GapCounts(gap) THEN e.session_start_ts ELSE ts,
         last_event_ts    |-> ts]

EarliestEventKept(e, ts) ==
    LET gap == ts - e.last_event_ts
    IN  [total_seconds    |-> e.total_seconds + (IF GapCounts(gap) THEN gap ELSE 0),
         session_start_ts |-> IF GapCounts(gap) THEN e.session_start_ts ELSE ts,
         last_event_ts    |-> IF gap > 0 THEN e.last_event_ts ELSE ts]

update_domain_stats(e, ts) ==
    LET gap == ts - e.last_event_ts
    IN  [total_seconds    |-> e.total_seconds + (IF GapCounts(gap) THEN gap ELSE 0),
         session_start_ts |-> IF GapCounts(gap) THEN e.session_start_ts ELSE ts,
         last_event_ts    |-> IF gap > 0 THEN ts ELSE e.last_event_ts]

\* A slip that is right on every second of the day but the first.
SecondsLeftModulo == (Day - now) % Day

seconds_until_midnight == Day - (now % Day)

-----------------------------------------------------------------------------
(* What the worker does with a message.                                    *)

\* Every handler returns the timeout anew.
Touched == idle_at' = now + IdleTimeout

\* An event of name d observed at ts; a worker is started if there is none.
Event(d, ts) ==
    LET before == IF running THEN StatsOf(d, ts) ELSE NewStats(ts)
        stats  == update_domain_stats(before, ts)
        gap    == ts - before.last_event_ts
    IN  /\ running' = TRUE
        /\ flush_at' = IF running THEN flush_at ELSE now + FlushInterval
        /\ domains' = [n \in (IF running THEN DOMAIN domains ELSE {}) \cup {d} |->
                         IF n = d THEN stats ELSE domains[n]]
        /\ IF d \in Limited /\ stats.total_seconds >= Limit
           THEN /\ Len(sent) < MaxSent
                /\ sent' = Append(sent, [name |-> d, duration |-> seconds_until_midnight,
                                         at |-> now])
           ELSE sent' = sent
        /\ counted' = [n \in Name |->
                         IF n = d /\ running /\ GapCounts(gap)
                         THEN counted[n] \cup (before.last_event_ts + 1 .. ts)
                         ELSE IF running THEN counted[n] ELSE {}]
        /\ Touched
        /\ UNCHANGED <<now, blocks>>

\* A slip: the next report is not scheduled.
FlushOnce ==
    /\ running /\ flush_at <= now
    /\ flush_at' = MaxTs + 1
    /\ Touched
    /\ UNCHANGED <<now, running, domains, sent, blocks, counted>>

\* The report is sent and the next one scheduled.
Flush ==
    /\ running /\ flush_at <= now
    /\ flush_at' = now + FlushInterval
    /\ Touched
    /\ UNCHANGED <<now, running, domains, sent, blocks, counted>>

\* A call to CppBridge timed out; restart: :temporary.  This is the one way a
\* worker ends: handle_info(:timeout) would stop an idle one, see FlushFirst.
Crash ==
    /\ running
    /\ running' = FALSE /\ domains' = NoStats
    /\ UNCHANGED <<now, flush_at, idle_at, sent, blocks, counted>>

Tick ==
    /\ now < MaxTs
    /\ now' = now + 1
    /\ UNCHANGED <<running, domains, flush_at, idle_at, sent, blocks, counted>>

\* The sniffer's end of the next command; a duration of 0 would be no end.
EndOf(c) == IF c.duration > 0 THEN now + c.duration ELSE 0

\* The sniffer reads the next command, however long that was on its way.
handle_command ==
    /\ sent # <<>>
    /\ sent' = Tail(sent)
    /\ LET c == Head(sent)
       IN  blocks' = [d \in DOMAIN blocks \cup {c.name} |->
                        IF d = c.name
                        THEN [until_ts |-> EndOf(c), sent |-> c.at, read |-> now]
                        ELSE blocks[d]]
    /\ UNCHANGED <<now, running, domains, flush_at, idle_at, counted>>

\* Or it is lost, with its connection or for want of one.
CommandLost ==
    /\ sent # <<>>
    /\ sent' = Tail(sent)
    /\ UNCHANGED <<now, running, domains, flush_at, idle_at, blocks, counted>>

ObservedAt == {ts \in 1..MaxTs : ts <= now /\ now <= ts + MaxLate}

Next ==
    \/ \E d \in Name, ts \in ObservedAt : Event(d, ts)
    \/ Flush
    \/ Crash
    \/ Tick
    \/ handle_command
    \/ CommandLost

Spec == Init /\ [][Next]_vars

-----------------------------------------------------------------------------
(* Properties.                                                             *)

Seconds == 1..MaxTs

WellFormed(e) ==
    /\ e.total_seconds \in Nat
    /\ e.session_start_ts \in Seconds /\ e.last_event_ts \in Seconds
    /\ e.session_start_ts <= e.last_event_ts

Sent == [name : Limited, duration : Nat, at : Seconds]

\* Statistics are kept while there is a worker, and a session starts no later
\* than the last event.
TypeOK ==
    /\ now \in Seconds
    /\ running \in BOOLEAN
    /\ DOMAIN domains \subseteq Name
    /\ ~running => DOMAIN domains = {}
    /\ \A d \in DOMAIN domains : WellFormed(domains[d])
    /\ flush_at \in Nat /\ idle_at \in Nat
    /\ sent \in Seq(Sent) /\ Len(sent) <= MaxSent
    /\ DOMAIN blocks \subseteq Limited
    /\ \A d \in DOMAIN blocks : blocks[d] \in [until_ts : Nat, sent : Seconds, read : Seconds]
    /\ counted \in [Name -> SUBSET Seconds]

\* A name's total is the number of different seconds it was in use: however
\* late and in whatever order its events arrive, no second is counted twice,
\* and none after the last event.
EachSecondOnce ==
    \A d \in DOMAIN domains :
        /\ domains[d].total_seconds = Cardinality(counted[d])
        /\ \A t \in counted[d] : t <= domains[d].last_event_ts

Midnight(ts) == (ts \div Day + 1) * Day

\* The block of a limit reached on some day has an end, the midnight that ends
\* that day put off by the time its command was on its way, be that a second
\* or past midnight: it neither ends early nor goes on for good.
BlockedUntilMidnight ==
    \A d \in DOMAIN blocks :
        LET b == blocks[d]
        IN  /\ b.sent <= b.read
            /\ b.until_ts = Midnight(b.sent) + (b.read - b.sent)

\* The next report is always due before the idle timeout, and each report starts
\* the timeout anew: an idle worker is never stopped, so a client once seen stays
\* registered, with its totals, until its worker crashes.
FlushFirst == running => flush_at < idle_at
=============================================================================
