-------------------------- MODULE ClientWorkerProofs --------------------------
(***************************************************************************)
(* The accounting of ClientWorker for any names, gaps, intervals, lateness *)
(* and length of day.                                                      *)
(***************************************************************************)
EXTENDS ClientWorker, FiniteSetTheorems, TLAPS

\* New statistics, and updated ones, are well formed.
LEMMA NewIsWellFormed ==
    ASSUME NEW ts \in Seconds
    PROVE  WellFormed(NewStats(ts))
  BY WorkerAssumption DEF WellFormed, NewStats, Seconds

LEMMA UpdateIsWellFormed ==
    ASSUME NEW e, WellFormed(e), NEW ts \in Seconds
    PROVE  WellFormed(update_domain_stats(e, ts))
  BY WorkerAssumption DEF WellFormed, update_domain_stats, GapCounts, Seconds

\* What is left of a day is at least a second and at most a day.
LEMMA SecondsLeft ==
    ASSUME now \in Nat
    PROVE  seconds_until_midnight \in 1..Day
<1>1. Day \in Nat /\ Day > 0
  BY WorkerAssumption
<1>2. now % Day \in 0..(Day - 1)
  BY <1>1
<1> QED
  BY <1>1, <1>2 DEF seconds_until_midnight

\* Adding an interval that begins after every counted second counts each of
\* its seconds.
LEMMA CountInterval ==
    ASSUME NEW S \in SUBSET Seconds, NEW last \in Seconds, NEW ts \in Seconds,
           \A t \in S : t <= last, last <= ts
    PROVE  Cardinality(S \cup (last + 1 .. ts)) = Cardinality(S) + (ts - last)
<1>1. last \in Nat /\ ts \in Nat /\ MaxTs \in Nat
  BY WorkerAssumption DEF Seconds
<1>2. IsFiniteSet(S)
  <2>1. IsFiniteSet(Seconds)
    <3>1. 1 \in Int /\ MaxTs \in Int
      BY <1>1
    <3>2. IsFiniteSet(1..MaxTs)
      BY ONLY <3>1, FS_Interval
    <3> QED
      BY <3>2 DEF Seconds
  <2> QED
    BY ONLY <2>1, S \in SUBSET Seconds, FS_Subset
<1> DEFINE T == last + 1 .. ts
<1>3. IsFiniteSet(T) /\ Cardinality(T) = ts - last
  <2>1. last + 1 \in Int /\ ts \in Int
    BY <1>1
  <2>2. /\ IsFiniteSet(T)
        /\ Cardinality(T) = IF last + 1 > ts THEN 0 ELSE ts - (last + 1) + 1
    BY ONLY <2>1, FS_Interval
  <2> QED
    BY <1>1, <2>2
<1>4. S \cap T = {}
  BY <1>1 DEF Seconds
<1>5. Cardinality({}) = 0
  BY FS_EmptySet
<1>6. Cardinality(S) \in Nat
  BY <1>2, FS_CardinalityType
<1> HIDE DEF T
<1>7. Cardinality(S \cup T) = Cardinality(S) + Cardinality(T) - Cardinality(S \cap T)
  BY ONLY <1>2, <1>3, FS_Union
<1>8. Cardinality(S \cup T) = Cardinality(S) + (ts - last)
  BY <1>1, <1>3, <1>4, <1>5, <1>6, <1>7
<1> QED
  BY <1>8 DEF T

-----------------------------------------------------------------------------

\* The worker's state is well formed, whatever comes and however late.
THEOREM TypeCorrect == Spec => []TypeOK
<1>1. Init => TypeOK
  <2> SUFFICES ASSUME Init PROVE TypeOK
    OBVIOUS
  <2>1. now \in Seconds /\ flush_at \in Nat /\ idle_at \in Nat /\ running = FALSE
    BY WorkerAssumption DEF Init, Seconds
  <2>2. DOMAIN domains = {}
    BY DEF Init, NoStats
  <2>3. sent \in Seq(Sent) /\ Len(sent) <= MaxSent /\ DOMAIN blocks = {}
    BY WorkerAssumption DEF Init
  <2>4. counted \in [Name -> SUBSET Seconds]
    BY DEF Init
  <2> QED
    BY <2>1, <2>2, <2>3, <2>4 DEF TypeOK
<1>2. TypeOK /\ [Next]_vars => TypeOK'
  <2> SUFFICES ASSUME TypeOK, [Next]_vars
               PROVE  TypeOK'
    OBVIOUS
  <2>a. now \in Nat /\ FlushInterval \in Nat /\ IdleTimeout \in Nat /\ Day \in Nat
    BY WorkerAssumption DEF TypeOK, Seconds
  <2>1. ASSUME NEW d \in Name, NEW ts \in ObservedAt, Event(d, ts)
        PROVE  TypeOK'
    <3>1. ts \in Seconds
      BY DEF ObservedAt, Seconds
    <3> DEFINE before == IF running THEN StatsOf(d, ts) ELSE NewStats(ts)
               kept   == IF running THEN DOMAIN domains ELSE {}
    <3>2. WellFormed(before)
      BY <3>1, NewIsWellFormed DEF TypeOK, StatsOf
    <3>3. WellFormed(update_domain_stats(before, ts))
      BY <3>1, <3>2, UpdateIsWellFormed
    <3>4. domains' = [n \in kept \cup {d} |->
                        IF n = d THEN update_domain_stats(before, ts) ELSE domains[n]]
      BY <2>1 DEF Event
    <3>5. DOMAIN domains' \subseteq Name
      BY <3>4 DEF TypeOK
    <3>6. \A n \in DOMAIN domains' : WellFormed(domains'[n])
      BY <3>3, <3>4 DEF TypeOK
    <3>7. sent' \in Seq(Sent) /\ Len(sent') <= MaxSent
      <4>1. CASE sent' = sent
        BY <4>1 DEF TypeOK
      <4>2. CASE sent' # sent
        <5>1. /\ d \in Limited /\ Len(sent) < MaxSent
              /\ sent' = Append(sent, [name |-> d, duration |-> seconds_until_midnight,
                                       at |-> now])
          BY <2>1, <4>2 DEF Event
        <5>2. [name |-> d, duration |-> seconds_until_midnight, at |-> now] \in Sent
          BY <2>a, <5>1, SecondsLeft DEF TypeOK, Sent
        <5> QED
          BY <5>1, <5>2, WorkerAssumption DEF TypeOK
      <4> QED
        BY <4>1, <4>2
    <3>8. counted' \in [Name -> SUBSET Seconds]
      <4>1. before.last_event_ts \in Seconds
        BY <3>2 DEF WellFormed
      <4>2. (before.last_event_ts + 1 .. ts) \subseteq Seconds
        BY <3>1, <4>1, WorkerAssumption DEF Seconds
      <4> QED
        BY <2>1, <4>2 DEF Event, TypeOK
    <3>9. now' = now /\ blocks' = blocks /\ running' = TRUE /\ flush_at' \in Nat /\ idle_at' \in Nat
      BY <2>1, <2>a DEF Event, Touched, TypeOK
    <3> HIDE DEF before, kept
    <3> QED
      BY <3>5, <3>6, <3>7, <3>8, <3>9 DEF TypeOK, WellFormed
  <2>2. CASE Flush
    BY <2>2, <2>a DEF Flush, Touched, TypeOK, WellFormed
  <2>3. CASE Crash
    BY <2>3 DEF Crash, NoStats, TypeOK, WellFormed
  <2>4. CASE Tick
    BY <2>4, <2>a, WorkerAssumption DEF Tick, TypeOK, WellFormed, Seconds
  <2>5. ASSUME sent # <<>>, sent' = Tail(sent),
               UNCHANGED <<now, running, domains, flush_at, idle_at, counted>>
        PROVE  /\ TypeOK' <=> \A d \in DOMAIN blocks' :
                                 /\ d \in Limited
                                 /\ blocks'[d] \in [until_ts : Nat, sent : Seconds, read : Seconds]
               /\ Head(sent) \in Sent
    <3>1. sent' \in Seq(Sent) /\ Len(sent') <= MaxSent /\ Head(sent) \in Sent
      BY <2>5, WorkerAssumption DEF TypeOK
    <3> QED
      BY <2>5, <3>1 DEF TypeOK, WellFormed
  <2>6. CASE handle_command
    <3> DEFINE c == Head(sent)
    <3>1. /\ sent # <<>> /\ sent' = Tail(sent)
          /\ UNCHANGED <<now, running, domains, flush_at, idle_at, counted>>
          /\ blocks' = [d \in DOMAIN blocks \cup {c.name} |->
                          IF d = c.name
                          THEN [until_ts |-> EndOf(c), sent |-> c.at, read |-> now]
                          ELSE blocks[d]]
      BY <2>6 DEF handle_command
    <3>2. c.name \in Limited /\ c.at \in Seconds /\ c.duration \in Nat
      BY <2>5, <3>1 DEF Sent
    <3>3. EndOf(c) \in Nat /\ now \in Seconds
      BY <2>a, <3>2 DEF EndOf, TypeOK
    <3> HIDE DEF c
    <3>4. \A d \in DOMAIN blocks' :
             /\ d \in Limited
             /\ blocks'[d] \in [until_ts : Nat, sent : Seconds, read : Seconds]
      BY <3>1, <3>2, <3>3 DEF TypeOK
    <3> QED
      BY <2>5, <3>1, <3>4
  <2>7. CASE CommandLost
    BY <2>5, <2>7 DEF CommandLost, TypeOK
  <2>8. CASE UNCHANGED vars
    BY <2>8 DEF vars, TypeOK, WellFormed
  <2> QED
    BY <2>1, <2>2, <2>3, <2>4, <2>6, <2>7, <2>8 DEF Next
<1> QED
  BY <1>1, <1>2, PTL DEF Spec

-----------------------------------------------------------------------------
(* EachSecondOnce says nothing of the names without statistics; that       *)
(* nothing is counted for them makes it inductive.                         *)

NothingElseCounted ==
    running => \A d \in Name \ DOMAIN domains : counted[d] = {}

\* A name's total is the number of different seconds of its use, for any order
\* and lateness of its events.
THEOREM TotalsAreExact == Spec => []EachSecondOnce
<1> DEFINE IInv == EachSecondOnce /\ NothingElseCounted
<1>1. Init => IInv
  BY DEF Init, EachSecondOnce, NothingElseCounted, NoStats
<1>2. TypeOK /\ IInv /\ [Next]_vars => IInv'
  <2> SUFFICES ASSUME TypeOK, EachSecondOnce, NothingElseCounted, [Next]_vars
               PROVE  EachSecondOnce' /\ NothingElseCounted'
    OBVIOUS
  <2>1. ASSUME NEW d \in Name, NEW ts \in ObservedAt, Event(d, ts)
        PROVE  EachSecondOnce' /\ NothingElseCounted'
    <3>1. ts \in Seconds
      BY DEF ObservedAt, Seconds
    <3> DEFINE before == IF running THEN StatsOf(d, ts) ELSE NewStats(ts)
               kept   == IF running THEN DOMAIN domains ELSE {}
               gap    == ts - before.last_event_ts
    <3>2. domains' = [n \in kept \cup {d} |->
                        IF n = d THEN update_domain_stats(before, ts) ELSE domains[n]]
      BY <2>1 DEF Event
    <3>3. counted' = [n \in Name |->
                        IF n = d /\ running /\ GapCounts(gap)
                        THEN counted[n] \cup (before.last_event_ts + 1 .. ts)
                        ELSE IF running THEN counted[n] ELSE {}]
      BY <2>1 DEF Event
    <3>4. WellFormed(before)
      BY <3>1, NewIsWellFormed DEF TypeOK, StatsOf
    <3> DEFINE old == IF running THEN counted[d] ELSE {}
    <3>5. /\ before.total_seconds = Cardinality(old)
          /\ \A t \in old : t <= before.last_event_ts
      <4>1. CASE running /\ d \in DOMAIN domains
        BY <4>1 DEF EachSecondOnce, StatsOf
      <4>2. CASE ~(running /\ d \in DOMAIN domains)
        <5>1. old = {} /\ before = NewStats(ts)
          BY <4>2 DEF NothingElseCounted, StatsOf
        <5> QED
          BY <5>1, FS_EmptySet DEF NewStats
      <4> QED
        BY <4>1, <4>2
    <3>6. old \in SUBSET Seconds /\ before.last_event_ts \in Seconds
      BY <3>4 DEF TypeOK, WellFormed
    <3>7. /\ domains'[d].total_seconds = Cardinality(counted'[d])
          /\ \A t \in counted'[d] : t <= domains'[d].last_event_ts
      <4>1. domains'[d] = update_domain_stats(before, ts)
        BY <3>2
      <4>2. MaxTs \in Nat /\ SessionGap \in Nat
        BY WorkerAssumption
      <4>3. CASE running /\ GapCounts(gap)
        <5>1. counted'[d] = old \cup (before.last_event_ts + 1 .. ts)
          BY <3>3, <4>3
        <5>2. before.last_event_ts <= ts
          BY <3>1, <3>6, <4>2, <4>3 DEF GapCounts, Seconds
        <5>3. Cardinality(counted'[d]) = Cardinality(old) + gap
          BY <3>1, <3>5, <3>6, <5>1, <5>2, CountInterval
        <5>4. domains'[d].total_seconds = before.total_seconds + gap
          BY <4>1, <4>3 DEF update_domain_stats
        <5>5. domains'[d].last_event_ts = ts
          BY <3>1, <3>6, <4>1, <4>2, <5>2 DEF update_domain_stats, Seconds
        <5>6. \A t \in counted'[d] : t <= ts
          BY <3>1, <3>5, <3>6, <4>2, <5>1, <5>2 DEF Seconds
        <5> QED
          BY <3>5, <5>3, <5>4, <5>5, <5>6
      <4>4. CASE ~(running /\ GapCounts(gap))
        <5>1. counted'[d] = old
          BY <3>3, <4>4
        <5>2. domains'[d].total_seconds = before.total_seconds
          <6>1. CASE running
            BY <3>4, <4>1, <4>4, <6>1 DEF update_domain_stats, WellFormed
          <6>2. CASE ~running
            <7>1. gap = 0 /\ before.total_seconds = 0
              BY <3>1, <6>2, <4>2 DEF NewStats, Seconds
            <7> HIDE DEF before, gap
            <7> QED
              BY <4>1, <7>1 DEF update_domain_stats, gap
          <6> QED
            BY <6>1, <6>2
        <5>3. before.last_event_ts <= domains'[d].last_event_ts
          BY <3>1, <3>6, <4>1, <4>2 DEF update_domain_stats, Seconds
        <5>4. domains'[d].last_event_ts \in Seconds
          BY <3>1, <3>6, <4>1 DEF update_domain_stats
        <5> HIDE DEF before, old
        <5> QED
          BY <3>5, <3>6, <4>2, <5>1, <5>2, <5>3, <5>4 DEF Seconds
      <4> QED
        BY <4>3, <4>4
    <3>8. \A n \in DOMAIN domains' \ {d} :
             n \in Name /\ running /\ domains'[n] = domains[n] /\ counted'[n] = counted[n]
                        /\ n \in DOMAIN domains
      BY <3>2, <3>3 DEF TypeOK
    <3>9. EachSecondOnce'
      BY <3>7, <3>8 DEF EachSecondOnce
    <3>10. NothingElseCounted'
      BY <3>2, <3>3 DEF NothingElseCounted
    <3> QED
      BY <3>9, <3>10
  <2>2. CASE Crash
    BY <2>2 DEF Crash, NoStats, EachSecondOnce, NothingElseCounted
  <2>3. CASE UNCHANGED <<running, domains, counted>>
    BY <2>3 DEF EachSecondOnce, NothingElseCounted
  <2> QED
    BY <2>1, <2>2, <2>3 DEF Next, Flush, Tick, handle_command, CommandLost, vars
<1> QED
  BY <1>1, <1>2, TypeCorrect, PTL DEF Spec

-----------------------------------------------------------------------------

(* FlushFirst speaks of the time now once the idle timeout is set anew, so  *)
(* it needs the report to be due within an interval of now.                *)

DueInTime == running => flush_at <= now + FlushInterval

\* The idle timeout never comes first, for every pair of intervals of which the
\* report's is the shorter.
THEOREM ReportsComeFirst == Spec => []FlushFirst
<1> DEFINE IInv == FlushFirst /\ DueInTime
<1>1. Init => IInv
  BY DEF Init, FlushFirst, DueInTime
<1>2. TypeOK /\ IInv /\ [Next]_vars => IInv'
  <2> SUFFICES ASSUME TypeOK, FlushFirst, DueInTime, [Next]_vars
               PROVE  FlushFirst' /\ DueInTime'
    OBVIOUS
  <2>a. /\ now \in Nat /\ flush_at \in Nat /\ idle_at \in Nat
        /\ FlushInterval \in Nat /\ IdleTimeout \in Nat /\ FlushInterval < IdleTimeout
    BY WorkerAssumption DEF TypeOK, Seconds
  <2>1. ASSUME NEW d \in Name, NEW ts \in ObservedAt, Event(d, ts)
        PROVE  FlushFirst' /\ DueInTime'
    <3>1. /\ now' = now /\ idle_at' = now + IdleTimeout
          /\ flush_at' = IF running THEN flush_at ELSE now + FlushInterval
      BY <2>1 DEF Event, Touched
    <3> QED
      BY <2>a, <3>1 DEF FlushFirst, DueInTime
  <2>2. CASE Flush
    BY <2>2, <2>a DEF Flush, Touched, FlushFirst, DueInTime
  <2>3. CASE Crash
    BY <2>3 DEF Crash, FlushFirst, DueInTime
  <2>4. CASE Tick
    BY <2>4, <2>a DEF Tick, FlushFirst, DueInTime
  <2>5. CASE UNCHANGED <<now, running, flush_at, idle_at>>
    BY <2>5 DEF FlushFirst, DueInTime
  <2> QED
    BY <2>1, <2>2, <2>3, <2>4, <2>5 DEF Next, handle_command, CommandLost, vars
<1> QED
  BY <1>1, <1>2, TypeCorrect, PTL DEF Spec

-----------------------------------------------------------------------------

\* What is left of the day from any second of it is more than nothing, and ends
\* at midnight.
LEMMA EndsWithTheDay ==
    ASSUME NEW at \in Nat
    PROVE  /\ Day - (at % Day) > 0
           /\ at + (Day - (at % Day)) = Midnight(at)
<1> DEFINE day == at \div Day
<1>1. Day \in Nat /\ Day > 0
  BY WorkerAssumption
<1>2. day \in Nat /\ at % Day \in 0..(Day - 1)
  BY <1>1
<1>3. at % Day = at - Day * day
  BY <1>1
<1>4. (day + 1) * Day = Day * day + Day /\ Day * day \in Nat
  BY <1>1, <1>2
<1> QED
  <2> HIDE DEF day
  <2> QED
    BY <1>1, <1>2, <1>3, <1>4 DEF Midnight, day

(* BlockedUntilMidnight speaks of commands that were read; those still on  *)
(* their way last to the midnight after they were sent.                    *)

ToMidnight ==
    \A k \in 1..Len(sent) :
        sent[k].at <= now /\ sent[k].duration = Day - (sent[k].at % Day)

\* The block of a limit has an end, the midnight of the day its command was sent
\* on put off by what the command took to be read: for days of any length, the
\* first second of one and the last, and any number of commands on their way.
THEOREM BlocksOutlastByTransit == Spec => []BlockedUntilMidnight
<1> DEFINE IInv == BlockedUntilMidnight /\ ToMidnight
<1>1. Init => IInv
  BY DEF Init, BlockedUntilMidnight, ToMidnight
<1>2. TypeOK /\ IInv /\ [Next]_vars => IInv'
  <2> SUFFICES ASSUME TypeOK, BlockedUntilMidnight, ToMidnight, [Next]_vars
               PROVE  BlockedUntilMidnight' /\ ToMidnight'
    OBVIOUS
  <2>a. now \in Nat /\ sent \in Seq(Sent) /\ Day \in Nat
    BY WorkerAssumption DEF TypeOK, Seconds
  <2>b. \A k \in 1..Len(sent) : sent[k].at \in Nat
    <3>1. \A k \in 1..Len(sent) : sent[k] \in Sent
      BY <2>a
    <3>2. \A c \in Sent : c.at \in Nat
      BY WorkerAssumption DEF Sent, Seconds
    <3> QED
      BY <3>1, <3>2
  <2>1. ASSUME NEW d \in Name, NEW ts \in ObservedAt, Event(d, ts)
        PROVE  BlockedUntilMidnight' /\ ToMidnight'
    <3>1. now' = now /\ blocks' = blocks
      BY <2>1 DEF Event
    <3>2. CASE sent' = sent
      BY <3>1, <3>2 DEF BlockedUntilMidnight, ToMidnight, Midnight
    <3>3. CASE sent' # sent
      <4> DEFINE c == [name |-> d, duration |-> seconds_until_midnight, at |-> now]
      <4>1. sent' = Append(sent, c)
        BY <2>1, <3>3 DEF Event
      <4>2. c.at = now /\ c.duration = Day - (c.at % Day)
        BY DEF seconds_until_midnight
      <4> HIDE DEF c
      <4>3. Len(sent') = Len(sent) + 1 /\ sent'[Len(sent) + 1] = c
            /\ \A k \in 1..Len(sent) : sent'[k] = sent[k]
        BY <2>a, <4>1
      <4>4. \A k \in 1..Len(sent') : k \in 1..Len(sent) \/ k = Len(sent) + 1
        BY <2>a, <4>3
      <4>5. ToMidnight'
        BY <2>a, <3>1, <4>2, <4>3, <4>4 DEF ToMidnight
      <4> QED
        BY <3>1, <4>5 DEF BlockedUntilMidnight, Midnight
    <3> QED
      BY <3>2, <3>3
  <2>2. ASSUME sent # <<>>, sent' = Tail(sent), now' = now
        PROVE  ToMidnight'
    <3>1. \A k \in 1..Len(sent') : k + 1 \in 1..Len(sent) /\ sent'[k] = sent[k + 1]
      BY <2>a, <2>2
    <3> QED
      BY <2>2, <3>1 DEF ToMidnight
  <2>3. CASE handle_command
    <3> DEFINE c == Head(sent)
    <3>1. /\ sent # <<>> /\ sent' = Tail(sent) /\ now' = now
          /\ blocks' = [d \in DOMAIN blocks \cup {c.name} |->
                          IF d = c.name
                          THEN [until_ts |-> EndOf(c), sent |-> c.at, read |-> now]
                          ELSE blocks[d]]
      BY <2>3 DEF handle_command
    <3>2. c = sent[1] /\ 1 \in 1..Len(sent)
      BY <2>a, <3>1
    <3>3. c.at \in Nat /\ c.at <= now /\ c.duration = Day - (c.at % Day)
      BY <2>b, <3>2 DEF ToMidnight
    <3> HIDE DEF c
    <3>4. c.duration > 0 /\ c.at + c.duration = Midnight(c.at)
      BY <3>3, EndsWithTheDay
    <3>5. Midnight(c.at) \in Nat /\ c.duration \in Int
      <4>1. c.at % Day \in Int
        BY <3>3, WorkerAssumption
      <4>2. c.at \div Day \in Nat
        BY <3>3, WorkerAssumption
      <4> QED
        BY <2>a, <3>3, <4>1, <4>2 DEF Midnight
    <3>6. EndOf(c) = Midnight(c.at) + (now - c.at)
      BY <2>a, <3>3, <3>4, <3>5 DEF EndOf
    <3>7. BlockedUntilMidnight'
      BY <3>1, <3>3, <3>6 DEF BlockedUntilMidnight, Midnight
    <3> QED
      BY <2>2, <3>1, <3>7
  <2>4. CASE CommandLost
    BY <2>2, <2>4 DEF CommandLost, BlockedUntilMidnight, Midnight
  <2>5. CASE Tick
    BY <2>a, <2>b, <2>5 DEF Tick, BlockedUntilMidnight, ToMidnight, Midnight
  <2>6. CASE UNCHANGED <<now, sent, blocks>>
    BY <2>6 DEF BlockedUntilMidnight, ToMidnight, Midnight
  <2> QED
    BY <2>1, <2>3, <2>4, <2>5, <2>6 DEF Next, Flush, Crash, vars
<1> QED
  BY <1>1, <1>2, TypeCorrect, PTL DEF Spec
=============================================================================
