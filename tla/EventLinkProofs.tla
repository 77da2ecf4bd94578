---------------------------- MODULE EventLinkProofs ----------------------------
(***************************************************************************)
(* The descriptor behind g_elixir_sock is the connection to Elixir or      *)
(* nobody's whenever an event is written to it, for any number of threads  *)
(* and of descriptors.                                                     *)
(***************************************************************************)
EXTENDS EventLink, FiniteSetTheorems, WellFoundedInduction, TLAPS

Everyone == Thread \cup {Main}
Sending  == {"sends", "clears", "counts"}
Parting  == {"leaves", "closes", "returns", "exited"}
Place    == {"idle", "handles", "reported", "waits", "starts", "dials", "socket",
             "connect", "loop",
             "accept", "dispatch", "checks", "join"} \cup Sending \cup Parting
AllIdle  == \A t \in Thread : pc[t] = "idle"
Past     == pc[Main] \in {"returns", "exited"}

\* Where a thread can be in each mode.  Only main reports in sniffer mode and
\* only the handlers in the others; nobody handles anything before main has
\* tried to connect once, nor after a tproxy's pool was joined.
Places ==
    /\ mode \in {"sniffer", "proxy", "tproxy"} /\ pc \in [Everyone -> Place]
    /\ mode = "sniffer" => /\ pc[Main] \notin {"accept", "join"}
                           /\ \A t \in Thread : pc[t] \in {"idle", "handles", "reported"}
    /\ mode # "sniffer" => pc[Main] \notin {"dispatch", "checks", "waits"} \cup Sending
    /\ mode # "sniffer" => pc[Main] \notin {"socket", "connect"}
    /\ pc[Main] \in AtStart => AllIdle
    /\ mode = "tproxy" /\ pc[Main] \in Parting => AllIdle

\* The mutex is held from its lock to its release.
Mutex == \A t \in Everyone : pc[t] \in Sending <=> g_send_mu = t

\* There is a connection exactly while a descriptor stands for it.
LinkThere ==
    /\ link \in [state : {"none", "new", "up", "closing", "reset"},
                 unread : 0..Room, reader : BOOLEAN]
    /\ link.state = "none" => link = NoLink
    /\ link.state # "none" <=> \E f \in Fd : fds[f] = Link

\* The variable follows the connection.
Follows ==
    /\ \A f \in Fd : fds[f] = Link => g_elixir_sock = f
    /\ pc[Main] \in {"starts", "socket"} => g_elixir_sock = -1
    /\ pc[Main] \in Connecting => g_elixir_sock \in Fd /\ fds[g_elixir_sock] = Link
    /\ \A t \in Everyone : pc[t] = "clears" => \A f \in Fd : fds[f] # Link

\* A stale descriptor is about to be cleared, by the thread that holds the
\* mutex, or main has closed it and returns.
Current ==
    \/ g_elixir_sock = -1
    \/ g_elixir_sock \in Fd /\ fds[g_elixir_sock] = Link
    \/ \E t \in Everyone : pc[t] = "clears"
    \/ Past

\* The remaining parts of TypeOK.
Sorts ==
    /\ g_elixir_sock \in Fd \cup {-1}
    /\ g_send_mu \in Thread \cup {Main, Free}
    /\ fds \in [Fd -> Thread \cup {Link, Free}]
    /\ strayed \in BOOLEAN
    /\ strayed \/ \A t \in Thread : Owns(t) <=> Runs /\ pc[t] # "idle"

IInv == Places /\ Mutex /\ LinkThere /\ Follows /\ Current /\ Sorts /\ NoCrosstalk

-----------------------------------------------------------------------------
\* The order of the numbers, as a set of pairs.
Below == {ss \in Nat \X Nat : ss[1] < ss[2]}

\* The lowest free descriptor is one of the free ones.
LEMMA Lowest ==
    ASSUME Fresh # {}
    PROVE  Min(Fresh) \in Fd /\ fds[Min(Fresh)] = Free
<1>0. Fresh \subseteq Nat
  BY LinkAssumption DEF Fresh, Fd
<1>1. IsWellFoundedOn(Below, Nat)
  BY NatLessThanWellFounded DEF OpToRel, Below
<1>2. PICK x \in Fresh : \A y \in Fresh : <<y, x>> \notin Below
  BY <1>0, <1>1, WFMin
<1>3. ASSUME NEW y \in Fresh
      PROVE  x <= y
  <2>1. x \in Nat /\ y \in Nat
    BY <1>0
  <2>2. <<y, x>> \in Below <=> y < x
    BY <2>1 DEF Below
  <2> QED
    BY <1>2, <2>1, <2>2
<1>4. Min(Fresh) \in Fresh
  BY <1>3 DEF Min
<1> QED
  BY <1>4 DEF Fresh

-----------------------------------------------------------------------------
(* One lemma for each part of the invariant.                               *)

\* Steps that move main and nothing else, and steps of Elixir.
Moves       == LoopTest \/ AcceptFails \/ Dispatched \/ PcapFails \/ Reconnect \/ Join \/ LeaveTest
ElixirSteps == Read \/ ReaderDies \/ ElixirCrash \/ ElixirStart

\* Closing the variable's descriptor closes the connection, if that is it.
LEMMA Closing ==
    ASSUME LinkThere, Follows, Sorts, Close(g_elixir_sock)
    PROVE  LinkThere'
<1> USE LinkAssumption DEF LinkThere, Follows, Sorts, Close
<1>1. CASE g_elixir_sock \in Fd /\ fds[g_elixir_sock] = Link
  <2>1. \A f \in Fd : fds'[f] # Link
    BY <1>1
  <2>2. link' = NoLink
    BY <1>1
  <2>3. /\ NoLink.state = "none"
        /\ NoLink \in [state : {"none", "new", "up", "closing", "reset"},
                       unread : 0..Room, reader : BOOLEAN]
    BY DEF NoLink
  <2> QED
    BY <2>1, <2>2, <2>3
<1>2. CASE ~(g_elixir_sock \in Fd /\ fds[g_elixir_sock] = Link)
  <2>1. \A f \in Fd : fds'[f] = Link <=> fds[f] = Link
    BY <1>2
  <2>2. link' = link
    BY <1>2
  <2> QED
    BY <2>1, <2>2
<1> QED
  BY <1>1, <1>2

\* A step takes a thread only where its mode has it.
LEMMA PlacesStep ==
    ASSUME IInv, [Next]_vars
    PROVE  Places'
<1> USE LinkAssumption DEF IInv, Places, AtStart, Connecting, Goto, Stay, Runs, Everyone, Place,
        Sending, Parting, AllIdle, Calls, Back, Opens, sniffer
<1>1. CASE Socket
  BY <1>1, Lowest DEF Socket
<1>2. CASE Connected
  BY <1>2 DEF Connected
<1>3. CASE ConnectFails
  BY <1>3 DEF ConnectFails
<1>4. CASE Moves
  BY <1>4 DEF Moves, LoopTest, AcceptFails, Dispatched, PcapFails, Reconnect, Join, LeaveTest
<1>5. CASE CloseAtExit
  BY <1>5 DEF CloseAtExit
<1>6. CASE Exit
  BY <1>6 DEF Exit
<1>7. CASE sig_handler \/ Exited \/ UNCHANGED vars
  BY <1>7 DEF sig_handler, Exited, peer, vars
<1>8. CASE ElixirSteps
  BY <1>8 DEF ElixirSteps, Read, ReaderDies, ElixirCrash, ElixirStart
<1>9. ASSUME NEW t \in Everyone, Lock(t)
      PROVE  Places'
  BY <1>9 DEF Lock
<1>10. ASSUME NEW t \in Everyone, Send(t)
      PROVE  Places'
  BY <1>10 DEF Send
<1>11. ASSUME NEW t \in Everyone, SendFails(t)
      PROVE  Places'
  BY <1>11 DEF SendFails
<1>12. ASSUME NEW t \in Everyone, Clear(t)
      PROVE  Places'
  BY <1>12 DEF Clear
<1>13. ASSUME NEW t \in Everyone, Finish(t)
      PROVE  Places'
  BY <1>13 DEF Finish
<1>14. ASSUME NEW t \in Everyone, Test(t)
      PROVE  Places'
  BY <1>14 DEF Test
<1>15. ASSUME NEW t \in Thread, Accept(t)
      PROVE  Places'
  BY <1>15, Lowest DEF Accept, peer
<1>16. ASSUME NEW t \in Thread, Listen(t)
      PROVE  Places'
  BY <1>16, Lowest DEF Listen, peer
<1>17. ASSUME NEW t \in Thread, HangUp(t)
      PROVE  Places'
  BY <1>17 DEF HangUp, peer
<1> QED
  BY <1>1, <1>2, <1>3, <1>4, <1>5, <1>6, <1>7, <1>8, <1>9, <1>10, <1>11,
     <1>12, <1>13, <1>14, <1>15, <1>16, <1>17
     DEF Next, MainStep, SendEvent, Handler, Moves, ElixirSteps

\* The mutex is taken when it is free and given back by its holder.
LEMMA MutexStep ==
    ASSUME IInv, [Next]_vars
    PROVE  Mutex'
<1> USE LinkAssumption DEF IInv, Places, AtStart, Connecting, Mutex, Goto, Stay, Everyone, Place,
        Sending, Calls, Back, Opens, sniffer
<1>1. CASE Socket
  BY <1>1, Lowest DEF Socket
<1>2. CASE Connected
  BY <1>2 DEF Connected
<1>3. CASE ConnectFails
  BY <1>3 DEF ConnectFails
<1>4. CASE Moves
  BY <1>4 DEF Moves, LoopTest, AcceptFails, Dispatched, PcapFails, Reconnect, Join, LeaveTest
<1>5. CASE CloseAtExit
  BY <1>5 DEF CloseAtExit
<1>6. CASE Exit
  BY <1>6 DEF Exit
<1>7. CASE sig_handler \/ Exited \/ UNCHANGED vars
  BY <1>7 DEF sig_handler, Exited, peer, vars
<1>8. CASE ElixirSteps
  BY <1>8 DEF ElixirSteps, Read, ReaderDies, ElixirCrash, ElixirStart
<1>9. ASSUME NEW t \in Everyone, Lock(t)
      PROVE  Mutex'
  BY <1>9 DEF Lock
<1>10. ASSUME NEW t \in Everyone, Send(t)
      PROVE  Mutex'
  BY <1>10 DEF Send
<1>11. ASSUME NEW t \in Everyone, SendFails(t)
      PROVE  Mutex'
  BY <1>11 DEF SendFails
<1>12. ASSUME NEW t \in Everyone, Clear(t)
      PROVE  Mutex'
  BY <1>12 DEF Clear
<1>13. ASSUME NEW t \in Everyone, Finish(t)
      PROVE  Mutex'
  BY <1>13 DEF Finish
<1>14. ASSUME NEW t \in Everyone, Test(t)
      PROVE  Mutex'
  BY <1>14 DEF Test
<1>15. ASSUME NEW t \in Thread, Accept(t)
      PROVE  Mutex'
  BY <1>15, Lowest DEF Accept, peer
<1>16. ASSUME NEW t \in Thread, Listen(t)
      PROVE  Mutex'
  BY <1>16, Lowest DEF Listen, peer
<1>17. ASSUME NEW t \in Thread, HangUp(t)
      PROVE  Mutex'
  BY <1>17 DEF HangUp, peer
<1> QED
  BY <1>1, <1>2, <1>3, <1>4, <1>5, <1>6, <1>7, <1>8, <1>9, <1>10, <1>11,
     <1>12, <1>13, <1>14, <1>15, <1>16, <1>17
     DEF Next, MainStep, SendEvent, Handler, Moves, ElixirSteps

\* A connection comes and goes with its descriptor.
LEMMA LinkThereStep ==
    ASSUME IInv, [Next]_vars
    PROVE  LinkThere'
<1> USE LinkAssumption DEF IInv, Places, AtStart, Connecting, LinkThere, Follows, Sorts, Goto,
        Stay, Close, Opens, Fd, NoLink, Target, Broken, peer, Everyone, Place,
        sniffer
<1>1. CASE Socket
  <2>1. CASE Fresh = {} \/ ~elixir
    BY <1>1, <2>1 DEF Socket
  <2>2. CASE Fresh # {} /\ elixir
    <3>1. link' = [state |-> "new", unread |-> 0, reader |-> FALSE]
      BY <1>1, <2>2 DEF Socket
    <3>2. \E f \in Fd : fds'[f] = Link
      BY <1>1, <2>2, Lowest DEF Socket
    <3> QED
      BY <3>1, <3>2
  <2> QED
    BY <2>1, <2>2
<1>2. CASE Connected
  BY <1>2 DEF Connected
<1>3. CASE ConnectFails
  BY <1>3, Closing DEF ConnectFails
<1>4. CASE Moves
  BY <1>4 DEF Moves, LoopTest, AcceptFails, Dispatched, PcapFails, Reconnect, Join, LeaveTest
<1>5. CASE CloseAtExit
  BY <1>5, Closing DEF CloseAtExit
<1>6. CASE Exit
  BY <1>6 DEF Exit
<1>7. CASE sig_handler \/ Exited \/ UNCHANGED vars
  BY <1>7 DEF sig_handler, Exited, peer, vars
<1>8. CASE ElixirSteps
  <2>1. fds' = fds
    BY <1>8 DEF ElixirSteps, Read, ReaderDies, ElixirCrash, ElixirStart
  <2>2. ASSUME Read \/ ReaderDies
        PROVE  /\ link' \in [state : {"up"}, unread : 0..Room, reader : BOOLEAN]
               /\ link.state = "up"
    <3>1. link.unread - 1 \in 0..Room /\ link.state = "up"
      BY <2>2 DEF Read, ReaderDies
    <3>2. ASSUME Read
          PROVE  link' = [state |-> "up", unread |-> link.unread - 1, reader |-> TRUE]
      BY <3>1, <3>2 DEF Read
    <3>3. ASSUME ReaderDies
          PROVE  link' = [state |-> "up", unread |-> link.unread - 1, reader |-> FALSE]
      BY <3>1, <3>3 DEF ReaderDies
    <3>4. PICK b \in BOOLEAN :
              link' = [state |-> "up", unread |-> link.unread - 1, reader |-> b]
      BY <2>2, <3>2, <3>3, Zenon
    <3> HIDE DEF LinkThere
    <3> QED
      BY <3>1, <3>4
  <2>3. ASSUME ElixirCrash, link' # link
        PROVE  /\ link' \in [state : {"closing", "reset"}, unread : 0..Room, reader : BOOLEAN]
               /\ link.state = "up"
    <3>1. PICK s \in {"closing", "reset"} : link' = [NoLink EXCEPT !.state = s]
      BY <2>3 DEF ElixirCrash
    <3>2. link' = [state |-> s, unread |-> 0, reader |-> FALSE]
      BY <3>1
    <3> QED
      BY <2>3, <3>2 DEF ElixirCrash
  <2> QED
    BY <1>8, <2>1, <2>2, <2>3 DEF ElixirSteps, ElixirStart, ElixirCrash
<1>9. ASSUME NEW t \in Everyone, Lock(t)
      PROVE  LinkThere'
  BY <1>9 DEF Lock
<1>10. ASSUME NEW t \in Everyone, Send(t)
      PROVE  LinkThere'
  BY <1>10 DEF Send
<1>11. ASSUME NEW t \in Everyone, SendFails(t)
      PROVE  LinkThere'
  BY <1>11, Closing DEF SendFails
<1>12. ASSUME NEW t \in Everyone, Clear(t)
      PROVE  LinkThere'
  BY <1>12 DEF Clear
<1>13. ASSUME NEW t \in Everyone, Finish(t)
      PROVE  LinkThere'
  BY <1>13 DEF Finish
<1>14. ASSUME NEW t \in Everyone, Test(t)
      PROVE  LinkThere'
  BY <1>14 DEF Test
<1>15. ASSUME NEW t \in Thread, Accept(t)
      PROVE  LinkThere'
  BY <1>15, Lowest DEF Accept, peer
<1>16. ASSUME NEW t \in Thread, Listen(t)
      PROVE  LinkThere'
  BY <1>16, Lowest DEF Listen, peer
<1>17. ASSUME NEW t \in Thread, HangUp(t)
      PROVE  LinkThere'
  BY <1>17 DEF HangUp, peer
<1> QED
  BY <1>1, <1>2, <1>3, <1>4, <1>5, <1>6, <1>7, <1>8, <1>9, <1>10, <1>11,
     <1>12, <1>13, <1>14, <1>15, <1>16, <1>17
     DEF Next, MainStep, SendEvent, Handler, Moves, ElixirSteps

\* The variable names the connection while there is one.
LEMMA FollowsStep ==
    ASSUME IInv, [Next]_vars
    PROVE  Follows'
<1> USE LinkAssumption DEF IInv, Places, AtStart, Connecting, Mutex, Follows, Sorts, Goto, Stay,
        Close, Opens, Fd, Target, Broken, Calls, Back, Everyone, Place,
        Sending, AllIdle, sniffer
<1>1. CASE Socket
  BY <1>1, Lowest DEF Socket
<1>2. CASE Connected
  BY <1>2 DEF Connected
<1>3. CASE ConnectFails
  BY <1>3 DEF ConnectFails
<1>4. CASE Moves
  BY <1>4 DEF Moves, LoopTest, AcceptFails, Dispatched, PcapFails, Reconnect, Join, LeaveTest
<1>5. CASE CloseAtExit
  BY <1>5 DEF CloseAtExit
<1>6. CASE Exit
  BY <1>6 DEF Exit
<1>7. CASE sig_handler \/ Exited \/ UNCHANGED vars
  BY <1>7 DEF sig_handler, Exited, peer, vars
<1>8. CASE ElixirSteps
  BY <1>8 DEF ElixirSteps, Read, ReaderDies, ElixirCrash, ElixirStart
<1>9. ASSUME NEW t \in Everyone, Lock(t)
      PROVE  Follows'
  BY <1>9 DEF Lock
<1>10. ASSUME NEW t \in Everyone, Send(t)
      PROVE  Follows'
  BY <1>10 DEF Send
<1>11. ASSUME NEW t \in Everyone, SendFails(t)
      PROVE  Follows'
  BY <1>11 DEF SendFails
<1>12. ASSUME NEW t \in Everyone, Clear(t)
      PROVE  Follows'
  BY <1>12 DEF Clear
<1>13. ASSUME NEW t \in Everyone, Finish(t)
      PROVE  Follows'
  BY <1>13 DEF Finish
<1>14. ASSUME NEW t \in Everyone, Test(t)
      PROVE  Follows'
  BY <1>14 DEF Test
<1>15. ASSUME NEW t \in Thread, Accept(t)
      PROVE  Follows'
  BY <1>15, Lowest DEF Accept, peer
<1>16. ASSUME NEW t \in Thread, Listen(t)
      PROVE  Follows'
  BY <1>16, Lowest DEF Listen, peer
<1>17. ASSUME NEW t \in Thread, HangUp(t)
      PROVE  Follows'
  BY <1>17 DEF HangUp, peer
<1> QED
  BY <1>1, <1>2, <1>3, <1>4, <1>5, <1>6, <1>7, <1>8, <1>9, <1>10, <1>11,
     <1>12, <1>13, <1>14, <1>15, <1>16, <1>17
     DEF Next, MainStep, SendEvent, Handler, Moves, ElixirSteps

\* A descriptor goes stale only in the hands of the thread that clears it.
LEMMA CurrentStep ==
    ASSUME IInv, [Next]_vars
    PROVE  Current'
<1> USE LinkAssumption DEF IInv, Places, AtStart, Connecting, Mutex, Follows, Current, Sorts, Goto,
        Stay, Close, Opens, Fd, Past, Calls, Back, Everyone, Place, Sending,
        sniffer
<1>1. CASE Socket
  BY <1>1, Lowest DEF Socket
<1>2. CASE Connected
  BY <1>2 DEF Connected
<1>3. CASE ConnectFails
  BY <1>3 DEF ConnectFails
<1>4. CASE Moves
  BY <1>4 DEF Moves, LoopTest, AcceptFails, Dispatched, PcapFails, Reconnect, Join, LeaveTest
<1>5. CASE CloseAtExit
  BY <1>5 DEF CloseAtExit
<1>6. CASE Exit
  BY <1>6 DEF Exit
<1>7. CASE sig_handler \/ Exited \/ UNCHANGED vars
  BY <1>7 DEF sig_handler, Exited, peer, vars
<1>8. CASE ElixirSteps
  BY <1>8 DEF ElixirSteps, Read, ReaderDies, ElixirCrash, ElixirStart
<1>9. ASSUME NEW t \in Everyone, Lock(t)
      PROVE  Current'
  BY <1>9 DEF Lock
<1>10. ASSUME NEW t \in Everyone, Send(t)
      PROVE  Current'
  BY <1>10 DEF Send
<1>11. ASSUME NEW t \in Everyone, SendFails(t)
      PROVE  Current'
  BY <1>11 DEF SendFails
<1>12. ASSUME NEW t \in Everyone, Clear(t)
      PROVE  Current'
  BY <1>12 DEF Clear
<1>13. ASSUME NEW t \in Everyone, Finish(t)
      PROVE  Current'
  BY <1>13 DEF Finish
<1>14. ASSUME NEW t \in Everyone, Test(t)
      PROVE  Current'
  BY <1>14 DEF Test
<1>15. ASSUME NEW t \in Thread, Accept(t)
      PROVE  Current'
  BY <1>15, Lowest DEF Accept, peer
<1>16. ASSUME NEW t \in Thread, Listen(t)
      PROVE  Current'
  BY <1>16, Lowest DEF Listen, peer
<1>17. ASSUME NEW t \in Thread, HangUp(t)
      PROVE  Current'
  BY <1>17 DEF HangUp, peer
<1> QED
  BY <1>1, <1>2, <1>3, <1>4, <1>5, <1>6, <1>7, <1>8, <1>9, <1>10, <1>11,
     <1>12, <1>13, <1>14, <1>15, <1>16, <1>17
     DEF Next, MainStep, SendEvent, Handler, Moves, ElixirSteps

\* Descriptors go to the threads that have work, and back.
LEMMA SortsStep ==
    ASSUME IInv, [Next]_vars
    PROVE  Sorts'
<1> USE LinkAssumption DEF IInv, Places, AtStart, Connecting, Mutex, Follows, Current, Sorts, Goto,
        Stay, Close, Opens, Owns, Runs, Fd, Target, Broken, Calls, Back,
        Everyone, Place, Sending, Parting, AllIdle, sniffer
<1>1. CASE Socket
  BY <1>1, Lowest DEF Socket
<1>2. CASE Connected
  BY <1>2 DEF Connected
<1>3. CASE ConnectFails
  BY <1>3 DEF ConnectFails
<1>4. CASE Moves
  BY <1>4 DEF Moves, LoopTest, AcceptFails, Dispatched, PcapFails, Reconnect, Join, LeaveTest
<1>5. CASE CloseAtExit
  <2>1. fds' \in [Fd -> Thread \cup {Link, Free}] /\ strayed' \in BOOLEAN
    BY <1>5 DEF CloseAtExit
  <2>2. ASSUME ~strayed'
        PROVE  \A t \in Thread : Owns(t)' <=> Owns(t)
    <3>1. ASSUME NEW t \in Thread, NEW f \in Fd
          PROVE  fds'[f] = t <=> fds[f] = t
      BY <1>5, <2>2 DEF CloseAtExit
    <3> QED
      BY <3>1
  <2>3. \A t \in Thread : pc'[t] = pc[t]
    BY <1>5 DEF CloseAtExit
  <2>4. pc[Main] # "exited" /\ pc'[Main] # "exited" /\ (strayed => strayed')
    BY <1>5 DEF CloseAtExit
  <2> QED
    BY <1>5, <2>1, <2>2, <2>3, <2>4 DEF CloseAtExit
<1>6. CASE Exit
  BY <1>6 DEF Exit
<1>7. CASE sig_handler \/ Exited \/ UNCHANGED vars
  BY <1>7 DEF sig_handler, Exited, peer, vars
<1>8. CASE ElixirSteps
  BY <1>8 DEF ElixirSteps, Read, ReaderDies, ElixirCrash, ElixirStart
<1>9. ASSUME NEW t \in Everyone, Lock(t)
      PROVE  Sorts'
  BY <1>9 DEF Lock
<1>10. ASSUME NEW t \in Everyone, Send(t)
      PROVE  Sorts'
  BY <1>10 DEF Send
<1>11. ASSUME NEW t \in Everyone, SendFails(t)
      PROVE  Sorts'
  BY <1>11 DEF SendFails
<1>12. ASSUME NEW t \in Everyone, Clear(t)
      PROVE  Sorts'
  BY <1>12 DEF Clear
<1>13. ASSUME NEW t \in Everyone, Finish(t)
      PROVE  Sorts'
  BY <1>13 DEF Finish
<1>14. ASSUME NEW t \in Everyone, Test(t)
      PROVE  Sorts'
  BY <1>14 DEF Test
<1>15. ASSUME NEW t \in Thread, Accept(t)
      PROVE  Sorts'
  BY <1>15, Lowest DEF Accept, peer
<1>16. ASSUME NEW t \in Thread, Listen(t)
      PROVE  Sorts'
  BY <1>16, Lowest DEF Listen, peer
<1>17. ASSUME NEW t \in Thread, HangUp(t)
      PROVE  Sorts'
  BY <1>17 DEF HangUp, peer
<1> QED
  BY <1>1, <1>2, <1>3, <1>4, <1>5, <1>6, <1>7, <1>8, <1>9, <1>10, <1>11,
     <1>12, <1>13, <1>14, <1>15, <1>16, <1>17
     DEF Next, MainStep, SendEvent, Handler, Moves, ElixirSteps

\* What is written to or closed was the link's or nobody's.
LEMMA NoCrosstalkStep ==
    ASSUME IInv, [Next]_vars
    PROVE  NoCrosstalk'
<1> USE LinkAssumption DEF IInv, Places, AtStart, Connecting, Mutex, Follows, Current, Sorts,
        NoCrosstalk, Goto, Stay, Close, Calls, Back, Target, Broken, Opens,
        Runs, Fd, Past, Everyone, Place, Sending, Parting, AllIdle, sniffer
<1>1. CASE Socket
  BY <1>1, Lowest DEF Socket
<1>2. CASE Connected
  BY <1>2 DEF Connected
<1>3. CASE ConnectFails
  BY <1>3 DEF ConnectFails
<1>4. CASE Moves
  BY <1>4 DEF Moves, LoopTest, AcceptFails, Dispatched, PcapFails, Reconnect, Join, LeaveTest
<1>5. CASE CloseAtExit
  BY <1>5 DEF CloseAtExit
<1>6. CASE Exit
  BY <1>6 DEF Exit
<1>7. CASE sig_handler \/ Exited \/ UNCHANGED vars
  BY <1>7 DEF sig_handler, Exited, peer, vars
<1>8. CASE ElixirSteps
  BY <1>8 DEF ElixirSteps, Read, ReaderDies, ElixirCrash, ElixirStart
<1>9. ASSUME NEW t \in Everyone, Lock(t)
      PROVE  NoCrosstalk'
  BY <1>9 DEF Lock
<1>10. ASSUME NEW t \in Everyone, Send(t)
      PROVE  NoCrosstalk'
  BY <1>10 DEF Send
<1>11. ASSUME NEW t \in Everyone, SendFails(t)
      PROVE  NoCrosstalk'
  BY <1>11 DEF SendFails
<1>12. ASSUME NEW t \in Everyone, Clear(t)
      PROVE  NoCrosstalk'
  BY <1>12 DEF Clear
<1>13. ASSUME NEW t \in Everyone, Finish(t)
      PROVE  NoCrosstalk'
  BY <1>13 DEF Finish
<1>14. ASSUME NEW t \in Everyone, Test(t)
      PROVE  NoCrosstalk'
  BY <1>14 DEF Test
<1>15. ASSUME NEW t \in Thread, Accept(t)
      PROVE  NoCrosstalk'
  BY <1>15, Lowest DEF Accept, peer
<1>16. ASSUME NEW t \in Thread, Listen(t)
      PROVE  NoCrosstalk'
  BY <1>16, Lowest DEF Listen, peer
<1>17. ASSUME NEW t \in Thread, HangUp(t)
      PROVE  NoCrosstalk'
  BY <1>17 DEF HangUp, peer
<1> QED
  BY <1>1, <1>2, <1>3, <1>4, <1>5, <1>6, <1>7, <1>8, <1>9, <1>10, <1>11,
     <1>12, <1>13, <1>14, <1>15, <1>16, <1>17
     DEF Next, MainStep, SendEvent, Handler, Moves, ElixirSteps

-----------------------------------------------------------------------------

\* What the variable names, who holds the mutex and where the threads are: an
\* invariant.
THEOREM Invariant == Spec => []IInv
<1>1. Init => IInv
  <2> SUFFICES ASSUME Init PROVE IInv
    OBVIOUS
  <2>1. Places /\ Mutex
    BY LinkAssumption DEF Init, Places, Mutex, Everyone, Place, Sending, Parting, AllIdle
  <2>2. LinkThere
    BY LinkAssumption DEF Init, LinkThere, NoLink, Fd
  <2>3. Follows /\ Current
    BY LinkAssumption DEF Init, Follows, Current, Everyone, Fd, Connecting
  <2>4. Sorts /\ NoCrosstalk
    BY LinkAssumption DEF Init, Sorts, NoCrosstalk, Fd, Owns
  <2> QED
    BY <2>1, <2>2, <2>3, <2>4 DEF IInv
<1>2. IInv /\ [Next]_vars => IInv'
  BY PlacesStep, MutexStep, LinkThereStep, FollowsStep, CurrentStep, SortsStep, NoCrosstalkStep
     DEF IInv
<1> QED
  BY <1>1, <1>2, PTL DEF Spec

\* One descriptor at most stands for the connection to Elixir, and every handler
\* at work has one of its own.
THEOREM TypeCorrect == Spec => []TypeOK
<1>1. IInv => TypeOK
  <2> SUFFICES ASSUME IInv PROVE TypeOK
    OBVIOUS
  <2> DEFINE Linked == {f \in Fd : fds[f] = Link}
  <2>1. Cardinality(Linked) = IF link = NoLink THEN 0 ELSE 1
    <3>1. CASE link = NoLink
      <4>1. Linked = {}
        BY <3>1 DEF IInv, LinkThere, NoLink
      <4> QED
        BY <3>1, <4>1, FS_EmptySet
    <3>2. CASE link # NoLink
      <4>1. PICK f \in Fd : fds[f] = Link
        BY <3>2 DEF IInv, LinkThere
      <4>2. Linked = {f}
        BY <4>1 DEF IInv, Follows
      <4> QED
        BY <3>2, <4>2, FS_Singleton
    <3> QED
      BY <3>1, <3>2
  <2> QED
    BY <2>1 DEF IInv, LinkThere, Sorts, TypeOK
<1> QED
  BY <1>1, Invariant, PTL

\* No event goes to a client and no client is cut off, however descriptors are
\* given out again, except as a proxy's main returns.
THEOREM LinkIsOurs == Spec => []NoCrosstalk
<1>1. IInv => NoCrosstalk
  BY DEF IInv
<1> QED
  BY <1>1, Invariant, PTL
================================================================================
