------------------------------ MODULE EventLink ------------------------------
(***************************************************************************)
(* The one socket to Elixir: opened by main, shared by every thread that   *)
(* reports an event, closed by whichever finds it broken.  Descriptors are *)
(* numbers that the kernel gives out again, the lowest free one first, so  *)
(* a stale one soon names somebody's connection.  At the other end Elixir  *)
(* reads the lines, may stop reading, and may crash and come back.         *)
(* No specification uses the slips.                                        *)
(***************************************************************************)
EXTENDS Integers, FiniteSetsExt

CONSTANTS
    Thread,       \* connection handlers, or the listeners in sniffer mode
    Main, Link, Free,
    MaxFd,        \* bound: descriptors 0..MaxFd
    Room          \* lines the two kernels hold for a peer that does not read

ASSUME LinkAssumption ==
    /\ MaxFd \in Nat /\ Room \in Nat \ {0}
    /\ Main \notin Thread /\ Main # Free /\ Link # Free
    /\ {Link, Free} \cap Thread = {}

VARIABLES
    mode,            \* g_cfg.mode
    g_running,
    g_elixir_sock,   \* -1 or a descriptor
    g_send_mu,       \* who holds the mutex, or Free
    fds,             \* what each descriptor stands for
    pc,              \* where each thread is
    link,            \* the connection behind the descriptor Link, if there is one
    elixir,          \* whether Elixir is there
    strayed          \* history: a descriptor of somebody else was written to or closed

vars == <<mode, g_running, g_elixir_sock, g_send_mu, fds, pc, link, elixir, strayed>>
peer == <<link, elixir>>

Fd       == 0..MaxFd
Fresh    == {f \in Fd : fds[f] = Free}
Owns(t)  == \E f \in Fd : fds[f] = t
NoLink   == [state |-> "none", unread |-> 0, reader |-> FALSE]
Runs     == pc[Main] # "exited"
Goto(t, place) == pc' = [pc EXCEPT ![t] = place]
Stay     == UNCHANGED <<mode, g_running, g_elixir_sock, g_send_mu, fds, peer, strayed>>

Init ==
    /\ mode \in {"sniffer", "proxy", "tproxy"}
    /\ g_running = TRUE /\ g_elixir_sock = -1 /\ g_send_mu = Free
    /\ fds = [f \in Fd |-> Free]
    /\ pc = [t \in Thread \cup {Main} |-> IF t = Main THEN "starts" ELSE "idle"]
    /\ link = NoLink /\ elixir \in BOOLEAN
    /\ strayed = FALSE

\* close(): the number is free for the next open.
Close(f) ==
    /\ fds' = IF f \in Fd THEN [fds EXCEPT ![f] = Free] ELSE fds
    /\ link' = IF f \in Fd /\ fds[f] = Link THEN NoLink ELSE link
    /\ strayed' = (strayed \/ (f \in Fd /\ fds[f] \in Thread))

-----------------------------------------------------------------------------
(* connect_elixir.                                                         *)

\* At the program's start, before it has another thread, or again from its loop.
AtStart    == {"starts", "dials"}
Connecting == {"dials", "connect"}

\* The variable has the descriptor before it is connected.
Socket ==
    /\ pc[Main] \in {"starts", "socket"}
    /\ \/ /\ elixir /\ Fresh # {}
          /\ g_elixir_sock' = Min(Fresh)
          /\ fds' = [fds EXCEPT ![Min(Fresh)] = Link]
          /\ link' = [NoLink EXCEPT !.state = "new"]
          /\ Goto(Main, IF pc[Main] = "starts" THEN "dials" ELSE "connect")
       \/ /\ ~elixir \/ Fresh = {}        \* no such host, or no descriptor
          /\ Goto(Main, "loop")
          /\ UNCHANGED <<g_elixir_sock, fds, link>>
    /\ UNCHANGED <<mode, g_running, g_send_mu, elixir, strayed>>

Connected ==
    /\ pc[Main] \in Connecting /\ elixir
    /\ link' = [state |-> "up", unread |-> 0, reader |-> TRUE]
    /\ Goto(Main, "loop")
    /\ UNCHANGED <<mode, g_running, g_elixir_sock, g_send_mu, fds, elixir, strayed>>

\* Slips: the descriptor is left open, or is kept after it was closed.
ConnectLeaks ==
    /\ pc[Main] \in Connecting /\ ~elixir
    /\ g_elixir_sock' = -1
    /\ Goto(Main, "loop")
    /\ UNCHANGED <<mode, g_running, g_send_mu, fds, link, elixir, strayed>>

KeepsDescriptor ==
    /\ pc[Main] \in Connecting /\ ~elixir
    /\ Close(g_elixir_sock)
    /\ Goto(Main, "loop")
    /\ UNCHANGED <<mode, g_running, g_elixir_sock, g_send_mu, elixir>>

ConnectFails ==
    /\ pc[Main] \in Connecting /\ ~elixir
    /\ Close(g_elixir_sock)
    /\ g_elixir_sock' = -1
    /\ Goto(Main, "loop")
    /\ UNCHANGED <<mode, g_running, g_send_mu, elixir>>

-----------------------------------------------------------------------------
(* send_event, by a handler or by main in sniffer mode.                    *)

Calls(t) == IF t = Main THEN pc[t] = "dispatch" ELSE pc[t] = "handles" /\ mode # "sniffer"
Back(t)  == IF t = Main THEN "dispatch" ELSE "reported"

\* The test at the top is made without the mutex.
Test(t) ==
    /\ Runs /\ Calls(t)
    /\ Goto(t, IF g_elixir_sock < 0 THEN Back(t) ELSE "waits")
    /\ Stay

Lock(t) ==
    /\ Runs /\ pc[t] = "waits" /\ g_send_mu = Free
    /\ g_send_mu' = t
    /\ Goto(t, "sends")
    /\ UNCHANGED <<mode, g_running, g_elixir_sock, fds, peer, strayed>>

\* What g_elixir_sock, read anew, stands for.
Target == IF g_elixir_sock \in Fd THEN fds[g_elixir_sock] ELSE Free
Broken == Target = Free \/ (Target = Link /\ link.state \in {"new", "reset"})

\* A full stream makes send wait.  A line sent to a peer that has gone is
\* taken and lost, and the next one fails.
Send(t) ==
    /\ Runs /\ pc[t] = "sends" /\ ~Broken
    /\ \/ /\ Target = Link /\ link.state = "up" /\ link.unread < Room
          /\ link' = [link EXCEPT !.unread = @ + 1]
       \/ /\ Target = Link /\ link.state = "closing"
          /\ link' = [link EXCEPT !.state = "reset"]
       \/ Target \in Thread /\ UNCHANGED link
    /\ strayed' = (strayed \/ Target \in Thread)
    /\ Goto(t, "counts")
    /\ UNCHANGED <<mode, g_running, g_elixir_sock, g_send_mu, fds, elixir>>

SendFails(t) ==
    /\ Runs /\ pc[t] = "sends" /\ Broken
    /\ Close(g_elixir_sock)
    /\ Goto(t, "clears")
    /\ UNCHANGED <<mode, g_running, g_elixir_sock, g_send_mu, elixir>>

\* A slip: a return that leaves the mutex locked.
ReturnsLocked(t) ==
    /\ Runs /\ pc[t] = "clears"
    /\ g_elixir_sock' = -1
    /\ Goto(t, Back(t))
    /\ UNCHANGED <<mode, g_running, g_send_mu, fds, peer, strayed>>

Clear(t) ==
    /\ Runs /\ pc[t] = "clears"
    /\ g_elixir_sock' = -1
    /\ Goto(t, "counts")
    /\ UNCHANGED <<mode, g_running, g_send_mu, fds, peer, strayed>>

\* The event is counted, sent or not, and the mutex released.
Finish(t) ==
    /\ Runs /\ pc[t] = "counts"
    /\ g_send_mu' = Free
    /\ Goto(t, Back(t))
    /\ UNCHANGED <<mode, g_running, g_elixir_sock, fds, peer, strayed>>

SendEvent(t) == Lock(t) \/ Send(t) \/ SendFails(t) \/ Clear(t) \/ Finish(t)

-----------------------------------------------------------------------------
(* Descriptors that come and go: accepted connections.                     *)

Opens(t) == pc[t] = "idle" /\ Fresh # {} /\ fds' = [fds EXCEPT ![Min(Fresh)] = t]

Accept(t) ==
    /\ pc[Main] = "accept" /\ Opens(t)
    /\ pc' = [pc EXCEPT ![Main] = "loop", ![t] = "handles"]
    /\ UNCHANGED <<mode, g_running, g_elixir_sock, g_send_mu, peer, strayed>>

AcceptFails ==
    /\ pc[Main] = "accept" /\ Fresh = {}
    /\ Goto(Main, "loop")
    /\ Stay

\* The command and health listeners of sniffer mode.
Listen(t) ==
    /\ Runs /\ mode = "sniffer" /\ pc[Main] \notin AtStart /\ Opens(t)
    /\ Goto(t, "handles")
    /\ UNCHANGED <<mode, g_running, g_elixir_sock, g_send_mu, peer, strayed>>

HangUp(t) ==
    /\ Runs /\ pc[t] \in {"handles", "reported"}
    /\ fds' = [f \in Fd |-> IF fds[f] = t THEN Free ELSE fds[f]]
    /\ Goto(t, "idle")
    /\ UNCHANGED <<mode, g_running, g_elixir_sock, g_send_mu, peer, strayed>>

-----------------------------------------------------------------------------
(* main.                                                                   *)

LoopTest ==
    /\ pc[Main] = "loop"
    /\ Goto(Main, CASE g_running -> IF mode = "sniffer" THEN "dispatch" ELSE "accept"
                    [] ~g_running /\ mode = "tproxy" -> "join"
                    [] OTHER -> "leaves")
    /\ Stay

\* pcap_dispatch returns, or libpcap has failed.
Dispatched == pc[Main] = "dispatch" /\ Goto(Main, "checks") /\ Stay
PcapFails  == pc[Main] = "dispatch" /\ Goto(Main, "leaves") /\ Stay

\* A slip: nobody connects again.
ChecksNothing == pc[Main] = "checks" /\ Goto(Main, "loop") /\ Stay

Reconnect ==
    pc[Main] = "checks" /\ Goto(Main, IF g_elixir_sock < 0 THEN "socket" ELSE "loop") /\ Stay

\* The pool's destructor waits for the workers; detached handlers go on.
Join == pc[Main] = "join" /\ (\A t \in Thread : pc[t] = "idle") /\ Goto(Main, "leaves") /\ Stay

LeaveTest ==
    pc[Main] = "leaves" /\ Goto(Main, IF g_elixir_sock >= 0 THEN "closes" ELSE "returns") /\ Stay

\* Without the mutex, and the variable keeps its value.
CloseAtExit ==
    /\ pc[Main] = "closes"
    /\ Close(g_elixir_sock)
    /\ Goto(Main, "returns")
    /\ UNCHANGED <<mode, g_running, g_elixir_sock, g_send_mu, elixir>>

Exit ==
    /\ pc[Main] = "returns"
    /\ Goto(Main, "exited")
    /\ fds' = [f \in Fd |-> Free] /\ link' = NoLink
    /\ UNCHANGED <<mode, g_running, g_elixir_sock, g_send_mu, elixir, strayed>>

Exited == pc[Main] = "exited" /\ UNCHANGED vars

sig_handler ==
    /\ Runs /\ g_running' = FALSE
    /\ UNCHANGED <<mode, g_elixir_sock, g_send_mu, fds, pc, peer, strayed>>

-----------------------------------------------------------------------------
(* Elixir.                                                                 *)

sniffer == <<mode, g_running, g_elixir_sock, g_send_mu, fds, pc, strayed>>

Read ==
    /\ link.state = "up" /\ link.reader /\ link.unread > 0
    /\ link' = [link EXCEPT !.unread = @ - 1]
    /\ UNCHANGED <<sniffer, elixir>>

\* An error while a line is handled ends the connection's process, but the
\* socket is accept_loop's and stays open.
ReaderDies ==
    /\ link.state = "up" /\ link.reader /\ link.unread > 0
    /\ link' = [link EXCEPT !.reader = FALSE, !.unread = @ - 1]
    /\ UNCHANGED <<sniffer, elixir>>

ElixirCrash ==
    /\ elixir /\ elixir' = FALSE
    /\ \/ link.state # "up" /\ UNCHANGED link
       \/ /\ link.state = "up"
          /\ \E s \in {"closing", "reset"} : link' = [NoLink EXCEPT !.state = s]
    /\ UNCHANGED sniffer

ElixirStart ==
    /\ ~elixir /\ elixir' = TRUE
    /\ UNCHANGED <<sniffer, link>>

-----------------------------------------------------------------------------

Handler(t) == SendEvent(t) \/ Accept(t) \/ Listen(t) \/ HangUp(t)
MainStep ==
    \/ Socket \/ Connected \/ ConnectFails \/ LoopTest \/ AcceptFails
    \/ Dispatched \/ PcapFails \/ Reconnect \/ Join
    \/ LeaveTest \/ CloseAtExit \/ Exit

Next ==
    \/ MainStep \/ SendEvent(Main) \/ Exited
    \/ \E t \in Thread : Handler(t)
    \/ \E t \in Thread \cup {Main} : Test(t)
    \/ sig_handler
    \/ Read \/ ReaderDies \/ ElixirCrash \/ ElixirStart

\* Threads run, and a thread that waits for the mutex gets it some time.  Main's
\* steps that wait for the world are left out, except that packets come and
\* are dispatched (Traffic).  Elixir reads, and Docker starts it again.
ThreadsRun ==
    /\ \A t \in Thread \cup {Main} :
        /\ SF_vars(Lock(t))
        /\ WF_vars(Send(t) \/ SendFails(t) \/ Clear(t) \/ Finish(t))
    /\ WF_vars(Socket \/ Connected \/ ConnectFails \/ LoopTest \/ Reconnect)
    /\ WF_vars(LeaveTest \/ CloseAtExit \/ Exit)
Traffic == SF_vars(Test(Main)) /\ SF_vars(Dispatched)
ElixirRuns == WF_vars(Read) /\ WF_vars(ElixirStart)

Spec == Init /\ [][Next]_vars /\ ThreadsRun /\ Traffic /\ ElixirRuns

-----------------------------------------------------------------------------
(* Properties.                                                             *)

\* One descriptor at most stands for the connection to Elixir, and it stands
\* for one as long as the connection is there.
TypeOK ==
    /\ g_elixir_sock \in Fd \cup {-1}
    /\ g_send_mu \in Thread \cup {Main, Free}
    /\ fds \in [Fd -> Thread \cup {Link, Free}]
    /\ link.state \in {"none", "new", "up", "closing", "reset"} /\ link.unread \in 0..Room
    /\ Cardinality({f \in Fd : fds[f] = Link}) = IF link = NoLink THEN 0 ELSE 1
    /\ strayed \/ \A t \in Thread : Owns(t) <=> Runs /\ pc[t] # "idle"

\* No event is ever written into somebody else's connection, and none is cut
\* off by a close meant for the link, although descriptors are given out again
\* at once; except in the last moment of proxy mode, when main has closed the
\* socket beside its detached handlers.
NoCrosstalk == strayed => mode = "proxy" /\ pc[Main] \in {"returns", "exited"}

\* While Elixir is there, a sniffer that has lost it, or started without it,
\* connects again, unless it is leaving.
Reconnects ==
    mode = "sniffer" =>
        []<>(link.state = "up" \/ ~elixir \/ pc[Main] \in {"leaves", "closes", "returns", "exited"})

\* A report comes to an end, so no connection is held up by Elixir, unless its
\* reader has died and left the socket open.
ReportsEnd ==
    \A t \in Thread \cup {Main} :
        pc[t] = "waits" ~> \/ pc[t] \notin {"waits", "sends", "clears", "counts"}
                           \/ ~Runs
                           \/ link.state = "up" /\ ~link.reader
=============================================================================
