------------------------------ MODULE TproxyPool ------------------------------
(***************************************************************************)
(* The tproxy mode's accept loop and thread pool: one thread accepts       *)
(* connections and enqueues them, a fixed number of workers wait on a      *)
(* condition variable, take a connection and handle it.  A signal clears   *)
(* g_running; the loop then leaves, closes the listening socket and the    *)
(* pool's destructor lets the workers drain the queue and joins them.      *)
(* A critical section of the pool's mutex is one step; notify_one and      *)
(* notify_all come after the mutex is released, as steps of their own.     *)
(***************************************************************************)
EXTENDS Naturals, Sequences, FiniteSets

CONSTANTS
    Worker,   \* the pool's threads
    Task      \* connections, each accepted at most once

ASSUME PoolAssumption == Worker # {} /\ IsFiniteSet(Worker)

VARIABLES
    g_running,
    main,      \* where the accept loop stands
    tasks,     \* the pool's queue
    stop,      \* the pool's stop flag
    cv,        \* the workers asleep on the condition variable
    worker,    \* where each worker stands
    holds,     \* the connection a worker handles, as a set of at most one
    started    \* history: the connections taken from the queue, in order

vars == <<g_running, main, tasks, stop, cv, worker, holds, started>>

Init ==
    /\ g_running = TRUE
    /\ main = "loop"
    /\ tasks = <<>>
    /\ stop = FALSE
    /\ cv = {}
    /\ worker = [w \in Worker |-> "ready"]
    /\ holds = [w \in Worker |-> {}]
    /\ started = <<>>

Elements(s) == {s[i] : i \in DOMAIN s}
Accepted == Elements(tasks) \cup Elements(started)

-----------------------------------------------------------------------------
(* The accept loop.                                                        *)

\* The flag is read between connections only: accept is not interrupted.
LoopTest ==
    /\ main = "loop"
    /\ main' = IF g_running THEN "accept" ELSE "leave"
    /\ UNCHANGED <<g_running, tasks, stop, cv, worker, holds, started>>

AcceptFails ==
    /\ main = "accept"
    /\ main' = "loop"
    /\ UNCHANGED <<g_running, tasks, stop, cv, worker, holds, started>>

\* Slips this code could contain, one before the definition it would spoil:
\* notifying only when the queue was empty, or never; forgetting pop, a reset
\* or a test; waking one worker where all must wake.  No specification uses them.
NotifyOnlyOnFirst(t) ==
    /\ main = "accept"
    /\ t \notin Accepted
    /\ tasks' = Append(tasks, t)
    /\ main' = IF tasks = <<>> THEN "notify" ELSE "loop"
    /\ UNCHANGED <<g_running, stop, cv, worker, holds, started>>

NeverNotify(t) ==
    /\ main = "accept"
    /\ t \notin Accepted
    /\ tasks' = Append(tasks, t)
    /\ main' = "loop"
    /\ UNCHANGED <<g_running, stop, cv, worker, holds, started>>

enqueue(t) ==
    /\ main = "accept"
    /\ t \notin Accepted
    /\ tasks' = Append(tasks, t)
    /\ main' = "notify"
    /\ UNCHANGED <<g_running, stop, cv, worker, holds, started>>

Wake(W) ==
    /\ cv' = cv \ W
    /\ worker' = [w \in Worker |-> IF w \in W THEN "ready" ELSE worker[w]]

notify_one ==
    /\ main = "notify"
    /\ main' = "loop"
    /\ IF cv = {} THEN UNCHANGED <<cv, worker>> ELSE \E w \in cv : Wake({w})
    /\ UNCHANGED <<g_running, tasks, stop, holds, started>>

CloseListener ==
    /\ main = "leave"
    /\ main' = "destroy"
    /\ UNCHANGED <<g_running, tasks, stop, cv, worker, holds, started>>

SetStop ==
    /\ main = "destroy"
    /\ stop' = TRUE
    /\ main' = "notify_all"
    /\ UNCHANGED <<g_running, tasks, cv, worker, holds, started>>

StopWakesOne ==
    /\ main = "notify_all"
    /\ main' = "join"
    /\ IF cv = {} THEN UNCHANGED <<cv, worker>> ELSE \E w \in cv : Wake({w})
    /\ UNCHANGED <<g_running, tasks, stop, holds, started>>

notify_all ==
    /\ main = "notify_all"
    /\ main' = "join"
    /\ Wake(cv)
    /\ UNCHANGED <<g_running, tasks, stop, holds, started>>

Join ==
    /\ main = "join"
    /\ \A w \in Worker : worker[w] = "done"
    /\ main' = "exit"
    /\ UNCHANGED <<g_running, tasks, stop, cv, worker, holds, started>>

\* main returns and the process ends.
Exited == main = "exit" /\ UNCHANGED vars

sig_handler ==
    /\ g_running
    /\ g_running' = FALSE
    /\ UNCHANGED <<main, tasks, stop, cv, worker, holds, started>>

-----------------------------------------------------------------------------
(* The workers.                                                            *)

\* The wait's predicate is false: the worker sleeps and lets the mutex go.
Sleep(w) ==
    /\ worker[w] = "ready"
    /\ tasks = <<>> /\ ~stop
    /\ cv' = cv \cup {w}
    /\ worker' = [worker EXCEPT ![w] = "asleep"]
    /\ UNCHANGED <<g_running, main, tasks, stop, holds, started>>

\* A condition variable may wake a thread for no reason.
SpuriousWake(w) ==
    /\ w \in cv
    /\ Wake({w})
    /\ UNCHANGED <<g_running, main, tasks, stop, holds, started>>

TakeWithoutPop(w) ==
    /\ worker[w] = "ready"
    /\ tasks # <<>>
    /\ holds' = [holds EXCEPT ![w] = {Head(tasks)}]
    /\ started' = Append(started, Head(tasks))
    /\ worker' = [worker EXCEPT ![w] = "handling"]
    /\ UNCHANGED <<g_running, main, tasks, stop, cv>>

Take(w) ==
    /\ worker[w] = "ready"
    /\ tasks # <<>>
    /\ holds' = [holds EXCEPT ![w] = {Head(tasks)}]
    /\ started' = Append(started, Head(tasks))
    /\ tasks' = Tail(tasks)
    /\ worker' = [worker EXCEPT ![w] = "handling"]
    /\ UNCHANGED <<g_running, main, stop, cv>>

LeaveAtOnce(w) ==
    /\ worker[w] = "ready"
    /\ stop
    /\ worker' = [worker EXCEPT ![w] = "done"]
    /\ UNCHANGED <<g_running, main, tasks, stop, cv, holds, started>>

Leave(w) ==
    /\ worker[w] = "ready"
    /\ stop /\ tasks = <<>>
    /\ worker' = [worker EXCEPT ![w] = "done"]
    /\ UNCHANGED <<g_running, main, tasks, stop, cv, holds, started>>

KeepsTask(w) ==
    /\ worker[w] = "handling"
    /\ worker' = [worker EXCEPT ![w] = "ready"]
    /\ UNCHANGED <<g_running, main, tasks, stop, cv, holds, started>>

\* handle_tproxy_client returns.
Handled(w) ==
    /\ worker[w] = "handling"
    /\ worker' = [worker EXCEPT ![w] = "ready"]
    /\ holds' = [holds EXCEPT ![w] = {}]
    /\ UNCHANGED <<g_running, main, tasks, stop, cv, started>>

worker_loop(w) == Sleep(w) \/ Take(w) \/ Leave(w) \/ Handled(w)

Main ==
    \/ LoopTest
    \/ AcceptFails
    \/ \E t \in Task : enqueue(t)
    \/ notify_one
    \/ CloseListener
    \/ SetStop
    \/ notify_all
    \/ Join

Next ==
    \/ Main
    \/ sig_handler
    \/ \E w \in Worker : worker_loop(w) \/ SpuriousWake(w)
    \/ Exited

Spec == Init /\ [][Next]_vars

\* Threads run; whether a connection or a signal ever comes is up to others.
ThreadsRun ==
    /\ WF_vars(LoopTest) /\ WF_vars(notify_one) /\ WF_vars(CloseListener)
    /\ WF_vars(SetStop) /\ WF_vars(notify_all) /\ WF_vars(Join)
    /\ \A w \in Worker : WF_vars(Sleep(w) \/ Take(w) \/ Leave(w))

\* Every connection ends: its peers send what is expected or close.  The code
\* bounds an idle relay, but not the wait for a client's first bytes.
ConnectionsEnd == \A w \in Worker : WF_vars(Handled(w))

Fairness == ThreadsRun /\ ConnectionsEnd

FairSpec == Spec /\ Fairness

-----------------------------------------------------------------------------
(* Properties.                                                             *)

\* The flags, and that a worker's place agrees with the wait set and with
\* the connection it holds.
TypeOK ==
    /\ g_running \in BOOLEAN /\ stop \in BOOLEAN
    /\ main \in {"loop", "accept", "notify", "leave", "destroy", "notify_all", "join", "exit"}
    /\ tasks \in Seq(Task) /\ started \in Seq(Task)
    /\ cv \subseteq Worker
    /\ worker \in [Worker -> {"ready", "asleep", "handling", "done"}]
    /\ holds \in [Worker -> SUBSET Task]
    /\ \A w \in Worker : w \in cv <=> worker[w] = "asleep"
    /\ \A w \in Worker : holds[w] = {} <=> worker[w] # "handling"

Awake == {w \in Worker : worker[w] = "ready"}

\* No wake-up is lost although enqueue notifies after it has released the
\* mutex and other workers may take the connection in between: no worker
\* sleeps while more connections wait than there are awake workers to take
\* them, but for the one whose notification is on its way; and none sleeps
\* through the pool's stop.
NoLostWakeup ==
    /\ cv # {} => Len(tasks) <= Cardinality(Awake) + (IF main = "notify" THEN 1 ELSE 0)
    /\ stop /\ cv # {} => main = "notify_all"

\* A worker leaves only when the pool stops with an empty queue, and from
\* then on the queue stays empty: no connection is left behind.
NothingLeftBehind ==
    (\E w \in Worker : worker[w] = "done") => stop /\ tasks = <<>>

\* The pool is a first-in-first-out queue that hands each connection to one
\* worker and is drained after it has been closed.
Queue == INSTANCE TaskQueue WITH
    queue <- tasks,
    taken <- started,
    open  <- main \in {"loop", "accept", "notify"}
QueueSpec == Queue!Spec

\* If connections end, every accepted connection is taken up and the
\* destructor returns.
EveryTaskStarted == \A t \in Task : t \in Elements(tasks) ~> t \in Elements(started)
DestructorReturns == stop ~> main = "exit"
=============================================================================
