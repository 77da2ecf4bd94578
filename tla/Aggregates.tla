------------------------------ MODULE Aggregates ------------------------------
(***************************************************************************)
(* From a ClientWorker's totals to the rows the administrator sees.  The   *)
(* worker reports its total of a name every few seconds; a report may be   *)
(* lost or come late; the aggregator answers at once and adds the report   *)
(* to the hour's row in two steps nobody waits for, a query and a write.   *)
(* One client and one name: others have rows of their own.  No             *)
(* specification uses the slips.                                           *)
(***************************************************************************)
EXTENDS Naturals, FiniteSetsExt

CONSTANTS
    Hour,          \* the hours there are, 1 up to the last
    MaxTotal,      \* bound: more seconds than that are not told apart
    MaxReports,    \* bound: reports and upserts under way
    MaxDeletes     \* bound: times the administrator deletes the rows

ASSUME AggregateAssumption ==
    /\ IsFiniteSet(Hour) /\ 1 \in Hour
    /\ MaxTotal \in Nat /\ MaxReports \in Nat /\ MaxDeletes \in Nat

VARIABLES
    used,          \* history: the seconds the client has used the name for
    total,         \* total_seconds of the worker
    hour,          \* bucketTs of the last event of any of its names
    reports,       \* reports on their way
    upserts,       \* upserts under way
    events,        \* the table's rows
    deletes,
    overlapped     \* history: an upsert looked for a row another was about to write

vars == <<used, total, hour, reports, upserts, events, deletes, overlapped>>
worker == <<used, total, hour>>

Total  == 0..MaxTotal
Plus(a, b) == IF a + b > MaxTotal THEN MaxTotal ELSE a + b
Ids    == 1..(2 * MaxReports * (Cardinality(Hour) + 1))
Report == [id : Ids, hour : Hour, total : Total]
\* step: what comes next; row and found: what the query saw
Upsert == [id : Ids, hour : Hour, total : Total, step : {"query", "insert", "update"},
           row : Ids \cup {0}, found : Total]

\* Names for the records: reports and upserts that are alike are still two.
Fresh(S) == Min(Ids \ {r.id : r \in S})
Seconds  == MapThenSumSet(LAMBDA r : r.total, events)

Init ==
    /\ used = 0 /\ total = 0 /\ hour = 1
    /\ reports = {} /\ upserts = {} /\ events = {}
    /\ deletes = 0 /\ overlapped = FALSE

Use ==
    /\ used < MaxTotal
    /\ used' = used + 1 /\ total' = total + 1
    /\ hour' \in {h \in Hour : h >= hour}
    /\ UNCHANGED <<reports, upserts, events, deletes, overlapped>>

\* The client uses other names: the report's time is that of the last use of any.
UseOther ==
    /\ hour' \in {h \in Hour : h > hour}
    /\ UNCHANGED <<used, total, reports, upserts, events, deletes, overlapped>>

Post ==
    /\ Cardinality(reports) + Cardinality(upserts) < MaxReports
    /\ reports' = reports \cup {[id |-> Fresh(reports), hour |-> hour, total |-> total]}

\* A slip: what has been reported is not reported again.
ReportsOnce == Post /\ total' = 0 /\ UNCHANGED <<used, hour, upserts, events, deletes, overlapped>>

\* Each report has all of the total so far.
flush_to_scala == Post /\ UNCHANGED <<worker, upserts, events, deletes, overlapped>>

ReportLost ==
    /\ \E r \in reports : reports' = reports \ {r}
    /\ UNCHANGED <<worker, upserts, events, deletes, overlapped>>

\* The upsert is started and the request answered.
Ingest ==
    /\ \E r \in reports :
        /\ reports' = reports \ {r}
        /\ upserts' = upserts \cup
             {[id |-> Fresh(upserts), hour |-> r.hour, total |-> r.total,
               step |-> "query", row |-> 0, found |-> 0]}
    /\ UNCHANGED <<worker, events, deletes, overlapped>>

Continues(u, v) == upserts' = (upserts \ {u}) \cup {v}
Looks(u) == overlapped' = (overlapped \/ \E v \in upserts : v.hour = u.hour /\ v.step # "query")

\* A slip: the row is never found.
QueryMisses(u) ==
    /\ u.step = "query"
    /\ Continues(u, [u EXCEPT !.step = "insert"])
    /\ Looks(u)
    /\ UNCHANGED <<worker, reports, events, deletes>>

\* headOption: any row of the hour, if there is one.
Query(u) ==
    LET rows == {e \in events : e.hour = u.hour}
    IN  /\ u.step = "query"
        /\ \/ /\ rows = {}
              /\ Continues(u, [u EXCEPT !.step = "insert"])
           \/ \E e \in rows :
                Continues(u, [u EXCEPT !.step = "update", !.row = e.id, !.found = e.total])
        /\ Looks(u)
        /\ UNCHANGED <<worker, reports, events, deletes>>

Insert(u) ==
    /\ u.step = "insert"
    /\ upserts' = upserts \ {u}
    /\ LET id == Min(Ids \ ({e.id : e \in events} \cup {v.row : v \in upserts}))
       IN  events' = events \cup {[id |-> id, hour |-> u.hour, total |-> u.total]}
    /\ UNCHANGED <<worker, reports, deletes, overlapped>>

\* A slip: the row is added again beside the old one.
UpdatesCopy(u) ==
    /\ u.step = "update"
    /\ upserts' = upserts \ {u}
    /\ events' = events \cup {[e EXCEPT !.total = Plus(u.found, u.total)] :
                                e \in {e \in events : e.id = u.row}}
    /\ UNCHANGED <<worker, reports, deletes, overlapped>>

\* What is written is what was found and the report's total together.
Update(u) ==
    /\ u.step = "update"
    /\ upserts' = upserts \ {u}
    /\ events' = {IF e.id = u.row THEN [e EXCEPT !.total = Plus(u.found, u.total)] ELSE e :
                    e \in events}
    /\ UNCHANGED <<worker, reports, deletes, overlapped>>

\* The database is busy, or the aggregator crashes: nobody asks for the result.
UpsertsFail ==
    /\ \E S \in SUBSET upserts \ {{}} : upserts' = upserts \ S
    /\ UNCHANGED <<worker, reports, events, deletes, overlapped>>

deleteByIp ==
    /\ deletes < MaxDeletes /\ deletes' = deletes + 1
    /\ events' = {}
    /\ UNCHANGED <<worker, reports, upserts, overlapped>>

Write == \E u \in upserts : Insert(u) \/ Update(u)

Next ==
    \/ Use \/ UseOther \/ flush_to_scala \/ ReportLost \/ Ingest
    \/ (\E u \in upserts : Query(u)) \/ Write
    \/ UpsertsFail \/ deleteByIp

\* The worker reports again and again, and of the reports and the steps of the
\* upserts some succeed.
Spec ==
    /\ Init /\ [][Next]_vars
    /\ WF_vars(flush_to_scala)
    /\ SF_vars(Ingest) /\ SF_vars(\E u \in upserts : Query(u)) /\ SF_vars(Write)

-----------------------------------------------------------------------------
(* Properties.                                                             *)

\* Rows differ by their primary key, and an update is on its way to one row.
TypeOK ==
    /\ used \in Total /\ total \in 0..used /\ hour \in Hour
    /\ reports \subseteq Report /\ upserts \subseteq Upsert /\ events \subseteq Report
    /\ \A e, f \in events : e.id = f.id => e = f
    /\ \A u \in upserts : u.row = 0 <=> u.step # "update"

\* There is one row an hour as long as no upsert began while another of the hour
\* was under way.
OneRowAnHour == ~overlapped => \A e, f \in events : e.hour = f.hour => e = f

\* Reports get lost, fail half-way and overwrite each other, rows are deleted;
\* yet in the end, and from then on, the administrator sees no less time than
\* was used: each report makes up for those before it.
NothingForgotten == <>[](used <= Seconds)
=============================================================================
