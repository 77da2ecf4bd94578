--------------------------- MODULE TproxyPoolProofs ---------------------------
(***************************************************************************)
(* The thread pool loses no wake-up and no connection, for every number of *)
(* workers and connections, and implements the queue of TaskQueue.  The    *)
(* handlers of the connections (ProxyConn) keep their types,   *)
(* pair their sockets and let nothing through that has been blocked ever   *)
(* since the accept, for any number of connections, clients and hosts.     *)
(***************************************************************************)
EXTENDS TproxyPool, ProxyConn, FiniteSetTheorems, TLAPS

\* The stop flag is set by the destructor, after the accept loop has ended.
StopAfterLoop == stop => main \in {"notify_all", "join", "exit"}

IInv == TypeOK /\ NoLostWakeup /\ NothingLeftBehind /\ StopAfterLoop

-----------------------------------------------------------------------------

\* The awake workers can be counted.
LEMMA AwakeFinite ==
    IsFiniteSet(Awake) /\ Cardinality(Awake) \in Nat
<1>1. IsFiniteSet(Awake)
  BY PoolAssumption, FS_Subset DEF Awake
<1> QED
  BY <1>1, FS_CardinalityType

\* One more worker awake.
LEMMA WakeCount ==
    ASSUME NEW w \in Worker, worker[w] # "ready",
           \A v \in Worker : worker'[v] = IF v = w THEN "ready" ELSE worker[v]
    PROVE  Cardinality(Awake') = Cardinality(Awake) + 1
<1>1. Awake' = Awake \cup {w} /\ w \notin Awake
  BY DEF Awake
<1> QED
  BY <1>1, AwakeFinite, FS_AddElement

\* One worker less.
LEMMA LeaveCount ==
    ASSUME NEW w \in Worker, worker[w] = "ready",
           \A v \in Worker : worker'[v] = "ready" <=> v # w /\ worker[v] = "ready"
    PROVE  Cardinality(Awake') = Cardinality(Awake) - 1
<1>1. Awake' = Awake \ {w} /\ w \in Awake
  BY DEF Awake
<1> QED
  BY <1>1, AwakeFinite, FS_RemoveElement

-----------------------------------------------------------------------------

\* Flags, wait set and the connections held agree in every reachable state.
THEOREM TypeCorrect == Spec => []TypeOK
<1>1. Init => TypeOK
  <2>1. <<>> \in Seq(Task)
    OBVIOUS
  <2>2. [w \in Worker |-> "ready"] \in [Worker -> {"ready", "asleep", "handling", "done"}]
    OBVIOUS
  <2>3. [w \in Worker |-> {}] \in [Worker -> SUBSET Task]
    OBVIOUS
  <2> QED
    BY <2>1, <2>2, <2>3 DEF Init, TypeOK
<1>2. TypeOK /\ [Next]_vars => TypeOK'
  <2> SUFFICES ASSUME TypeOK, [Next]_vars
               PROVE  TypeOK'
    OBVIOUS
  <2> USE DEF TypeOK
  <2>1. CASE LoopTest
    BY <2>1 DEF LoopTest
  <2>2. CASE AcceptFails
    BY <2>2 DEF AcceptFails
  <2>3. ASSUME NEW t \in Task, enqueue(t)
        PROVE  TypeOK'
    BY <2>3 DEF enqueue
  <2>4. CASE notify_one
    BY <2>4 DEF notify_one, Wake
  <2>5. CASE CloseListener
    BY <2>5 DEF CloseListener
  <2>6. CASE SetStop
    BY <2>6 DEF SetStop
  <2>7. CASE notify_all
    BY <2>7 DEF notify_all, Wake
  <2>8. CASE Join
    BY <2>8 DEF Join
  <2>9. CASE sig_handler
    BY <2>9 DEF sig_handler
  <2>10. ASSUME NEW w \in Worker, Sleep(w)
         PROVE  TypeOK'
    BY <2>10 DEF Sleep
  <2>11. ASSUME NEW w \in Worker, Take(w)
         PROVE  TypeOK'
    <3>1. Head(tasks) \in Task /\ Tail(tasks) \in Seq(Task)
      BY <2>11 DEF Take
    <3>2. tasks' \in Seq(Task) /\ started' \in Seq(Task)
      BY <2>11, <3>1 DEF Take
    <3>3. holds' \in [Worker -> SUBSET Task]
      BY <2>11, <3>1 DEF Take
    <3>4. worker' \in [Worker -> {"ready", "asleep", "handling", "done"}]
      BY <2>11 DEF Take
    <3>5. \A v \in Worker : v \in cv' <=> worker'[v] = "asleep"
      BY <2>11 DEF Take
    <3>6. \A v \in Worker : holds'[v] = {} <=> worker'[v] # "handling"
      BY <2>11, <3>1 DEF Take
    <3> QED
      BY <2>11, <3>2, <3>3, <3>4, <3>5, <3>6 DEF Take
  <2>12. ASSUME NEW w \in Worker, Leave(w)
         PROVE  TypeOK'
    BY <2>12 DEF Leave
  <2>13. ASSUME NEW w \in Worker, Handled(w)
         PROVE  TypeOK'
    BY <2>13 DEF Handled
  <2>14. ASSUME NEW w \in Worker, SpuriousWake(w)
         PROVE  TypeOK'
    BY <2>14 DEF SpuriousWake, Wake
  <2>15. CASE UNCHANGED vars
    BY <2>15 DEF vars
  <2> QED
    BY <2>1, <2>2, <2>3, <2>4, <2>5, <2>6, <2>7, <2>8, <2>9, <2>10, <2>11, <2>12, <2>13,
       <2>14, <2>15 DEF Next, Main, worker_loop, Exited
<1> QED
  BY <1>1, <1>2, PTL DEF Spec

-----------------------------------------------------------------------------

\* The inductive step: under IInv no action loses a wake-up, lets a worker
\* leave a connection behind, or stops the pool while the loop still accepts.
LEMMA InductiveStep ==
    ASSUME TypeOK, TypeOK', NoLostWakeup, NothingLeftBehind, StopAfterLoop, [Next]_vars
    PROVE  NoLostWakeup' /\ NothingLeftBehind' /\ StopAfterLoop'
<1>a. Cardinality(Awake) \in Nat /\ Len(tasks) \in Nat
  BY AwakeFinite DEF TypeOK
<1>1. CASE LoopTest \/ AcceptFails \/ CloseListener \/ Join \/ sig_handler
  <2>1. UNCHANGED <<tasks, stop, cv, worker>>
    BY <1>1 DEF LoopTest, AcceptFails, CloseListener, Join, sig_handler
  <2>2. /\ main = "notify" <=> main' = "notify"
        /\ main = "notify_all" => main' = "notify_all"
    BY <1>1 DEF LoopTest, AcceptFails, CloseListener, Join, sig_handler
  <2> QED
    BY <2>1, <2>2, <1>1
       DEF LoopTest, AcceptFails, CloseListener, Join, sig_handler,
           NoLostWakeup, NothingLeftBehind, StopAfterLoop, Awake
<1>2. ASSUME NEW t \in Task, enqueue(t)
      PROVE  NoLostWakeup' /\ NothingLeftBehind' /\ StopAfterLoop'
  <2>1. ~stop /\ UNCHANGED <<stop, cv, worker>> /\ main = "accept" /\ main' = "notify"
    BY <1>2 DEF enqueue, StopAfterLoop
  <2>2. Awake' = Awake
    BY <2>1 DEF Awake
  <2>3. Len(tasks') = Len(tasks) + 1
    BY <1>2 DEF enqueue, TypeOK
  <2> QED
    BY <1>a, <2>1, <2>2, <2>3 DEF NoLostWakeup, NothingLeftBehind, StopAfterLoop
<1>3. CASE notify_one
  <2>1. ~stop /\ UNCHANGED <<tasks, stop>> /\ main = "notify" /\ main' = "loop"
    BY <1>3 DEF notify_one, StopAfterLoop
  <2>2. CASE cv = {}
    BY <1>3, <2>1, <2>2 DEF notify_one, NoLostWakeup, NothingLeftBehind, StopAfterLoop
  <2>3. ASSUME NEW w \in cv, Wake({w})
        PROVE  NoLostWakeup' /\ NothingLeftBehind' /\ StopAfterLoop'
    <3>1. w \in Worker /\ worker[w] # "ready"
      BY <2>3 DEF TypeOK
    <3>2. Cardinality(Awake') = Cardinality(Awake) + 1
      BY <1>a, <2>3, <3>1, WakeCount DEF Wake
    <3> QED
      BY <1>a, <2>1, <2>3, <3>2 DEF NoLostWakeup, NothingLeftBehind, StopAfterLoop, Wake
  <2> QED
    BY <1>3, <2>2, <2>3 DEF notify_one
<1>4. CASE SetStop
  <2>1. UNCHANGED <<tasks, cv, worker>> /\ stop' /\ main' = "notify_all" /\ main # "notify"
    BY <1>4 DEF SetStop
  <2>2. Awake' = Awake
    BY <2>1 DEF Awake
  <2> QED
    BY <2>1, <2>2 DEF NoLostWakeup, NothingLeftBehind, StopAfterLoop
<1>5. CASE notify_all
  BY <1>5 DEF notify_all, Wake, NoLostWakeup, NothingLeftBehind, StopAfterLoop
<1>6. ASSUME NEW w \in Worker, Sleep(w)
      PROVE  NoLostWakeup' /\ NothingLeftBehind' /\ StopAfterLoop'
  <2>1. tasks' = <<>> /\ ~stop /\ ~stop' /\ main' = main
    BY <1>6 DEF Sleep
  <2>2. Len(tasks') = 0 /\ Cardinality(Awake') \in Nat
    <3>1. Len(tasks') = 0
      BY <2>1
    <3>2. IsFiniteSet(Awake')
      BY PoolAssumption, FS_Subset DEF Awake
    <3> QED
      BY <3>1, <3>2, FS_CardinalityType
  <2>3. ~\E v \in Worker : worker'[v] = "done"
    BY <1>6, <2>1 DEF Sleep, NothingLeftBehind, TypeOK
  <2> QED
    BY <2>1, <2>2, <2>3 DEF NoLostWakeup, NothingLeftBehind, StopAfterLoop
<1>7. ASSUME NEW w \in Worker, Take(w)
      PROVE  NoLostWakeup' /\ NothingLeftBehind' /\ StopAfterLoop'
  <2>1. UNCHANGED <<main, stop, cv>> /\ tasks # <<>>
    BY <1>7 DEF Take
  <2>2. Len(tasks') = Len(tasks) - 1
    BY <1>7, <2>1 DEF Take, TypeOK
  <2>3. Cardinality(Awake') = Cardinality(Awake) - 1
    BY <1>7, LeaveCount DEF Take, TypeOK
  <2>4. ~\E v \in Worker : worker'[v] = "done"
    BY <1>7, <2>1 DEF Take, NothingLeftBehind, TypeOK
  <2> QED
    BY <1>a, <2>1, <2>2, <2>3, <2>4 DEF NoLostWakeup, NothingLeftBehind, StopAfterLoop
<1>8. ASSUME NEW w \in Worker, Leave(w)
      PROVE  NoLostWakeup' /\ NothingLeftBehind' /\ StopAfterLoop'
  <2>1. UNCHANGED <<main, stop, cv, tasks>> /\ tasks = <<>> /\ stop
    BY <1>8 DEF Leave
  <2>2. Len(tasks') = 0 /\ Cardinality(Awake') \in Nat
    <3>1. Len(tasks') = 0
      BY <2>1
    <3>2. IsFiniteSet(Awake')
      BY PoolAssumption, FS_Subset DEF Awake
    <3> QED
      BY <3>1, <3>2, FS_CardinalityType
  <2> QED
    BY <2>1, <2>2 DEF NoLostWakeup, NothingLeftBehind, StopAfterLoop
<1>9. ASSUME NEW w \in Worker, Handled(w) \/ SpuriousWake(w)
      PROVE  NoLostWakeup' /\ NothingLeftBehind' /\ StopAfterLoop'
  <2>1. UNCHANGED <<main, stop, tasks>> /\ cv' \subseteq cv
    BY <1>9 DEF Handled, SpuriousWake, Wake
  <2>2. worker[w] # "ready" /\ \A v \in Worker : worker'[v] = IF v = w THEN "ready" ELSE worker[v]
    BY <1>9 DEF Handled, SpuriousWake, Wake, TypeOK
  <2>3. Cardinality(Awake') = Cardinality(Awake) + 1
    BY <1>a, <2>2, WakeCount
  <2>4. (\E v \in Worker : worker'[v] = "done") => \E v \in Worker : worker[v] = "done"
    BY <2>2
  <2> QED
    BY <1>a, <2>1, <2>3, <2>4 DEF NoLostWakeup, NothingLeftBehind, StopAfterLoop
<1>10. CASE UNCHANGED vars
  BY <1>10 DEF vars, NoLostWakeup, NothingLeftBehind, StopAfterLoop, Awake
<1> QED
  BY <1>1, <1>2, <1>3, <1>4, <1>5, <1>6, <1>7, <1>8, <1>9, <1>10
     DEF Next, Main, worker_loop, Exited

\* The strengthened invariant holds of every reachable state.
THEOREM Invariant == Spec => []IInv
<1>1. Init => NoLostWakeup /\ NothingLeftBehind /\ StopAfterLoop
  BY DEF Init, NoLostWakeup, NothingLeftBehind, StopAfterLoop
<1>2. TypeOK /\ TypeOK' /\ NoLostWakeup /\ NothingLeftBehind /\ StopAfterLoop /\ [Next]_vars
        => NoLostWakeup' /\ NothingLeftBehind' /\ StopAfterLoop'
  BY InductiveStep
<1> QED
  BY <1>1, <1>2, TypeCorrect, PTL DEF Spec, IInv

\* No worker sleeps while a connection waits that nobody awake will take.
THEOREM WakeupsKept == Spec => []NoLostWakeup
  BY Invariant, PTL DEF IInv

\* No worker leaves while a connection waits, whatever order the stop, the
\* last connections and the wake-ups come in.
THEOREM DrainedOnLeave == Spec => []NothingLeftBehind
  BY Invariant, PTL DEF IInv

\* Every step of the pool is a step of the queue or invisible to it.
THEOREM ImplementsQueue == Spec => QueueSpec
<1>1. Init => Queue!Init
  BY DEF Init, Queue!Init
<1>2. [Next]_vars => [Queue!Next]_(Queue!vars)
  <2> SUFFICES ASSUME [Next]_vars
               PROVE  Queue!Next \/ UNCHANGED Queue!vars
    OBVIOUS
  <2> DEFINE more == main \in {"loop", "accept", "notify"}
  <2>1. CASE LoopTest
    BY <2>1 DEF LoopTest, Queue!Next, Queue!Close, Queue!vars
  <2>2. CASE AcceptFails \/ CloseListener \/ SetStop \/ notify_all \/ Join \/ sig_handler \/ notify_one
    BY <2>2 DEF AcceptFails, CloseListener, SetStop, notify_all, Join, sig_handler, notify_one, Queue!vars
  <2>3. ASSUME NEW t \in Task, enqueue(t)
        PROVE  Queue!HandIn(t)
    BY <2>3 DEF enqueue, Queue!HandIn
  <2>4. ASSUME NEW w \in Worker, Take(w)
        PROVE  Queue!TakeUp
    BY <2>4 DEF Take, Queue!TakeUp
  <2>5. ASSUME NEW w \in Worker, Sleep(w) \/ Leave(w) \/ Handled(w) \/ SpuriousWake(w)
        PROVE  UNCHANGED Queue!vars
    BY <2>5 DEF Sleep, Leave, Handled, SpuriousWake, Queue!vars
  <2>6. CASE UNCHANGED vars
    BY <2>6 DEF vars, Queue!vars
  <2> QED
    BY <2>1, <2>2, <2>3, <2>4, <2>5, <2>6 DEF Next, Main, worker_loop, Exited, Queue!Next
<1> QED
  BY <1>1, <1>2, PTL DEF Spec, QueueSpec, Queue!Spec

-----------------------------------------------------------------------------

\* The handlers' state is well formed, whatever the connections do.
THEOREM ProxyTypeCorrect == ProxySpec => []ProxyTypeOK
<1>1. ProxyInit => ProxyTypeOK
  BY DEF ProxyInit, ProxyTypeOK, Dialled
<1>2. ProxyTypeOK /\ [ProxyNext]_proxyVars => ProxyTypeOK'
  <2> SUFFICES ASSUME ProxyTypeOK, [ProxyNext]_proxyVars
               PROVE  ProxyTypeOK'
    OBVIOUS
  <2> USE DEF ProxyTypeOK, Dialled, request
  <2>1. ASSUME NEW c \in Conn, Accept(c)
        PROVE  ProxyTypeOK'
    BY <2>1 DEF Accept
  <2>2. ASSUME NEW c \in Conn, BadRequest(c) \/ DialFails(c) \/ RelayEnds(c)
        PROVE  ProxyTypeOK'
    BY <2>2 DEF BadRequest, DialFails, RelayEnds, CloseAll
  <2>3. ASSUME NEW c \in Conn, Check(c) \/ Recheck(c)
        PROVE  ProxyTypeOK'
    BY <2>3 DEF Check, Recheck, CloseAll
  <2>4. ASSUME NEW c \in Conn, Dial(c)
        PROVE  ProxyTypeOK'
    BY <2>4 DEF Dial
  <2>5. ASSUME NEW c \in Conn, NEW sni \in Host \cup {NoName}, Peek(c, sni)
        PROVE  ProxyTypeOK'
    BY <2>5 DEF Peek
  <2>6. ASSUME NEW c \in Conn, Event(c)
        PROVE  ProxyTypeOK'
    <3>1. reported' \in [Conn -> BOOLEAN]
      BY <2>6, Zenon DEF Event
    <3> QED
      BY <2>6, <3>1 DEF Event
  <2>7. ASSUME NEW ip \in Ip, NEW h \in Host, Block(ip, h) \/ Unblock(ip, h)
        PROVE  ProxyTypeOK'
    BY <2>7 DEF Block, Unblock
  <2>8. CASE UNCHANGED proxyVars
    BY <2>8 DEF proxyVars
  <2> QED
    BY <2>1, <2>2, <2>3, <2>4, <2>5, <2>6, <2>7, <2>8 DEF ProxyNext, Handler
<1> QED
  BY <1>1, <1>2, PTL DEF ProxySpec

-----------------------------------------------------------------------------

\* Every way out of a handler closes what it opened, and only that: the
\* handler's place alone determines which sockets are open.
THEOREM NoSocketLeaks == ProxySpec => []SocketsPaired
<1>1. ProxyInit => SocketsPaired
  BY DEF ProxyInit, SocketsPaired, Dialled
<1>2. ProxyTypeOK /\ SocketsPaired /\ [ProxyNext]_proxyVars => SocketsPaired'
  <2> SUFFICES ASSUME ProxyTypeOK, SocketsPaired, [ProxyNext]_proxyVars
               PROVE  SocketsPaired'
    OBVIOUS
  <2> USE DEF ProxyTypeOK, SocketsPaired, Dialled
  <2>1. ASSUME NEW c \in Conn, Accept(c) \/ Dial(c) \/ Event(c)
        PROVE  SocketsPaired'
    BY <2>1 DEF Accept, Dial, Event
  <2>2. ASSUME NEW c \in Conn, BadRequest(c) \/ DialFails(c) \/ RelayEnds(c)
        PROVE  SocketsPaired'
    BY <2>2 DEF BadRequest, DialFails, RelayEnds, CloseAll
  <2>3. ASSUME NEW c \in Conn, Check(c) \/ Recheck(c)
        PROVE  SocketsPaired'
    BY <2>3 DEF Check, Recheck, CloseAll
  <2>4. ASSUME NEW c \in Conn, NEW sni \in Host \cup {NoName}, Peek(c, sni)
        PROVE  SocketsPaired'
    BY <2>4 DEF Peek
  <2>5. CASE UNCHANGED <<pc, cfd, rfd>>
    BY <2>5
  <2> QED
    BY <2>1, <2>2, <2>3, <2>4, <2>5
       DEF ProxyNext, Handler, Block, Unblock, proxyVars
<1> QED
  BY <1>1, <1>2, ProxyTypeCorrect, PTL DEF ProxySpec

-----------------------------------------------------------------------------
(* RefusedWhileBlocked is not inductive: it says nothing of a connection   *)
(* before the relay.  ConnInv follows it from the accept on.               *)

\* From the accept on, a host not blocked now has been seen unblocked, so a
\* check that passes puts the host it checked among those.
SeenOpen ==
    \A c \in Conn : pc[c] # "new" => \A h \in Host : ~is_blocked(c, h) => h \in open[c]

\* The address is what is judged until a name is known, and what is dialled
\* has passed the check.
AddressChecked ==
    \A c \in Conn :
        /\ pc[c] \in {"new", "request", "dial", "peek"} => observed[c] = dest_host[c]
        /\ pc[c] \in {"dial"} \cup Dialled => dest_host[c] \in open[c]

\* In tproxy mode the name has passed it too.
NameChecked ==
    \A c \in Conn :
        pc[c] \in {"event", "relay"} /\ mode = "tproxy" => observed[c] \in open[c]

ReportChecked ==
    \A c \in Conn : reported[c] => observed[c] \in open[c] /\ pc[c] \in {"relay", "done"}

ConnInv == SeenOpen /\ AddressChecked /\ NameChecked /\ ReportChecked

\* What was seen open stays so: a step of the command thread, which grows open
\* at most and moves no handler, keeps ConnInv if it keeps SeenOpen.
LEMMA OpenGrows ==
    ASSUME ProxyTypeOK, ConnInv, UNCHANGED <<mode, pc, request, observed, reported>>,
           \A c \in Conn : open[c] \subseteq open'[c],
           SeenOpen'
    PROVE  ConnInv'
  BY DEF ConnInv, AddressChecked, NameChecked, ReportChecked, Dialled, request,
         ProxyTypeOK

\* A host that has been blocked for its client since the connection was
\* accepted is neither relayed to nor reported, for every interleaving with
\* the command thread.
THEOREM BlockedIsRefused == ProxySpec => []RefusedWhileBlocked
<1>1. ProxyInit => ConnInv
  BY DEF ProxyInit, ConnInv, SeenOpen, AddressChecked, NameChecked, ReportChecked, Dialled
<1>2. ProxyTypeOK /\ ProxyTypeOK' /\ ConnInv /\ [ProxyNext]_proxyVars => ConnInv'
  <2> SUFFICES ASSUME ProxyTypeOK, ProxyTypeOK', ConnInv, [ProxyNext]_proxyVars
               PROVE  ConnInv'
    OBVIOUS
  <2>1. ASSUME NEW ip \in Ip, NEW h \in Host, Block(ip, h)
        PROVE  ConnInv'
    <3>1. SeenOpen'
      BY <2>1 DEF Block, ConnInv, SeenOpen, is_blocked, request
    <3> QED
      BY <2>1, <3>1, OpenGrows DEF Block
  <2>2. ASSUME NEW ip \in Ip, NEW h \in Host, Unblock(ip, h)
        PROVE  ConnInv'
    <3>1. \A c \in Conn : open'[c] = IF peer_ip[c] = ip THEN open[c] \cup {h} ELSE open[c]
      BY <2>2 DEF Unblock
    <3>2. SeenOpen'
      BY <2>2, <3>1 DEF Unblock, ConnInv, SeenOpen, is_blocked, request
    <3> QED
      BY <2>2, <3>1, <3>2, OpenGrows DEF Unblock
  <2> USE DEF ConnInv, SeenOpen, AddressChecked, NameChecked, ReportChecked, Dialled,
              ProxyTypeOK, is_blocked, request
  <2>3. ASSUME NEW c \in Conn, Accept(c)
        PROVE  ConnInv'
    BY <2>3 DEF Accept
  <2>4. ASSUME NEW c \in Conn, BadRequest(c) \/ DialFails(c) \/ RelayEnds(c)
        PROVE  ConnInv'
    BY <2>4 DEF BadRequest, DialFails, RelayEnds, CloseAll
  <2>5. ASSUME NEW c \in Conn, Check(c)
        PROVE  ConnInv'
    BY <2>5 DEF Check, CloseAll
  <2>6. ASSUME NEW c \in Conn, Dial(c)
        PROVE  ConnInv'
    BY <2>6 DEF Dial
  <2>7. ASSUME NEW c \in Conn, NEW sni \in Host \cup {NoName}, Peek(c, sni)
        PROVE  ConnInv'
    BY <2>7 DEF Peek
  <2>8. ASSUME NEW c \in Conn, Recheck(c)
        PROVE  ConnInv'
    BY <2>8 DEF Recheck, CloseAll
  <2>9. ASSUME NEW c \in Conn, Event(c)
        PROVE  ConnInv'
    BY <2>9 DEF Event
  <2>10. CASE UNCHANGED proxyVars
    BY <2>10 DEF proxyVars
  <2> QED
    BY <2>1, <2>2, <2>3, <2>4, <2>5, <2>6, <2>7, <2>8, <2>9, <2>10 DEF ProxyNext, Handler
<1>3. ConnInv => RefusedWhileBlocked
  BY DEF ConnInv, AddressChecked, NameChecked, ReportChecked, RefusedWhileBlocked,
         Dialled
<1> QED
  BY <1>1, <1>2, <1>3, ProxyTypeCorrect, PTL DEF ProxySpec
=============================================================================
