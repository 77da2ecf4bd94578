----------------------------- MODULE CommandLink -----------------------------
(***************************************************************************)
(* A command on its way from CppBridge to the sniffer's command listener.  *)
(* The bridge, one process, makes a connection for each command; the       *)
(* listener, one thread, reads one connection to its end before it accepts *)
(* the next.  The sniffer may crash, a connection may break, a caller may  *)
(* give up, and a stranger may connect and say nothing.  No specification  *)
(* uses the slips.                                                         *)
(***************************************************************************)
EXTENDS Naturals, Sequences, SequencesExt

CONSTANTS
    Cmd, NoCmd,
    Backlog      \* connections that wait to be accepted, listen's argument

ASSUME CommandAssumption == NoCmd \notin Cmd /\ Backlog \in Nat \ {0}

VARIABLES
    result,      \* what each command's caller knows
    mailbox,     \* the bridge's calls, the one it works on first
    bridge,      \* how far that one is
    conns,       \* the connections of the sniffer, in the order it takes them
    reading,     \* whether the first has been accepted
    buf,         \* the commands whose text is in buf
    up,          \* whether the sniffer listens
    executed,    \* what handle_command was called with
    broken,      \* history: commands lost with a connection
    before       \* history: the commands called before each

vars     == <<result, mailbox, bridge, conns, reading, buf, up, executed, broken, before>>
elixir   == <<result, mailbox, bridge, before>>
listener == <<reading, buf, executed>>

Init ==
    /\ result = [c \in Cmd |-> "none"]
    /\ mailbox = <<>> /\ bridge = "connect"
    /\ conns = <<>> /\ reading = FALSE /\ buf = <<>>
    /\ up \in BOOLEAN
    /\ executed = <<>> /\ broken = {}
    /\ before = [c \in Cmd |-> {}]

\* A connection: whose command it is for, what is still to be read from it, and
\* whether its end is there too.
Open(c) == [cmd |-> c, left |-> <<>>, fin |-> FALSE]
Line    == <<"text", "newline">>

Waiting == Len(conns) - (IF reading THEN 1 ELSE 0)
Mine    == {i \in DOMAIN conns : mailbox # <<>> /\ conns[i].cmd = Head(mailbox)}

-----------------------------------------------------------------------------
(* Callers and the bridge.                                                 *)

Call(c) ==
    /\ result[c] = "none"
    /\ result' = [result EXCEPT ![c] = "waits"]
    /\ mailbox' = Append(mailbox, c)
    /\ before' = [before EXCEPT ![c] = {d \in Cmd : result[d] # "none"}]
    /\ UNCHANGED <<bridge, conns, listener, up, broken>>

\* GenServer.call gives up; the bridge does not learn of it.
Timeout(c) ==
    /\ result[c] = "waits"
    /\ result' = [result EXCEPT ![c] = "timeout"]
    /\ UNCHANGED <<mailbox, bridge, conns, listener, up, broken, before>>

Reply(r) ==
    LET c == Head(mailbox)
    IN  /\ result' = IF result[c] = "waits" THEN [result EXCEPT ![c] = r] ELSE result
        /\ mailbox' = Tail(mailbox)
        /\ bridge' = "connect"
        /\ UNCHANGED before

Connect ==
    /\ bridge = "connect" /\ mailbox # <<>>
    /\ up /\ Waiting < Backlog
    /\ conns' = Append(conns, Open(Head(mailbox)))
    /\ bridge' = "send"
    /\ UNCHANGED <<result, mailbox, listener, up, broken, before>>

\* Refused, or no answer in time from a listener with a full queue.
ConnectFails ==
    /\ bridge = "connect" /\ mailbox # <<>>
    /\ ~up \/ Waiting >= Backlog
    /\ Reply("error")
    /\ UNCHANGED <<conns, listener, up, broken>>

\* The result of send is not looked at.
Send ==
    /\ bridge = "send"
    /\ conns' = [i \in DOMAIN conns |->
                    IF i \in Mine /\ ~conns[i].fin THEN [conns[i] EXCEPT !.left = Line] ELSE conns[i]]
    /\ bridge' = "close"
    /\ UNCHANGED <<result, mailbox, listener, up, broken, before>>

\* A slip: the connection is kept.
RepliesOpen ==
    /\ bridge = "close"
    /\ Reply("ok")
    /\ UNCHANGED <<conns, listener, up, broken>>

Close ==
    /\ bridge = "close"
    /\ conns' = [i \in DOMAIN conns |-> IF i \in Mine THEN [conns[i] EXCEPT !.fin = TRUE] ELSE conns[i]]
    /\ Reply("ok")
    /\ UNCHANGED <<listener, up, broken>>

-----------------------------------------------------------------------------
(* command_listener_thread.                                                *)

Accept ==
    /\ ~reading /\ conns # <<>>
    /\ reading' = TRUE /\ buf' = <<>>
    /\ UNCHANGED <<elixir, conns, up, executed, broken>>

\* The first field of a name in buf is the one that counts.
handle_command == executed' = IF buf = <<>> THEN executed ELSE Append(executed, Head(buf))

Recv ==
    /\ reading /\ Head(conns).left # <<>>
    /\ conns' = [conns EXCEPT ![1].left = Tail(@)]
    /\ \/ /\ Head(Head(conns).left) = "text"
          /\ buf' = Append(buf, Head(conns).cmd)
          /\ UNCHANGED executed
       \/ /\ Head(Head(conns).left) = "newline"
          /\ handle_command
          /\ buf' = <<>>
    /\ UNCHANGED <<elixir, reading, up, broken>>

AtEnd == reading /\ Head(conns).left = <<>> /\ Head(conns).fin

\* Slips: buf outlives its connection; the end serves as a newline.
KeepsBuf ==
    /\ AtEnd
    /\ conns' = Tail(conns) /\ reading' = FALSE
    /\ UNCHANGED <<elixir, buf, up, executed, broken>>

EndServes ==
    /\ AtEnd
    /\ handle_command
    /\ conns' = Tail(conns) /\ reading' = FALSE /\ buf' = <<>>
    /\ UNCHANGED <<elixir, up, broken>>

\* Without a newline, what is in buf is dropped.
EndOfConnection ==
    /\ AtEnd
    /\ conns' = Tail(conns) /\ reading' = FALSE /\ buf' = <<>>
    /\ UNCHANGED <<elixir, up, executed, broken>>

-----------------------------------------------------------------------------
(* Faults, and a stranger.                                                 *)

\* A connection breaks, and with it some of what has not been read, or sent.
Break(i) ==
    /\ conns[i].cmd # NoCmd
    /\ \E n \in 0..Len(conns[i].left) :
        /\ n < Len(conns[i].left) \/ ~conns[i].fin
        /\ conns' = [conns EXCEPT ![i].left = SubSeq(@, 1, n), ![i].fin = TRUE]
        /\ broken' = IF n < Len(conns[i].left) \/ (bridge = "send" /\ i \in Mine)
                     THEN broken \cup {conns[i].cmd} ELSE broken
    /\ UNCHANGED <<elixir, listener, up>>

Crash ==
    /\ up /\ up' = FALSE
    /\ conns' = <<>> /\ reading' = FALSE /\ buf' = <<>>
    /\ broken' = broken \cup ({conns[i].cmd : i \in DOMAIN conns} \ {NoCmd})
    /\ UNCHANGED <<elixir, executed>>

Start ==
    /\ ~up /\ up' = TRUE
    /\ UNCHANGED <<elixir, conns, listener, broken>>

Strangers == {i \in DOMAIN conns : conns[i].cmd = NoCmd}

StrangerConnects ==
    /\ up /\ Waiting < Backlog /\ Strangers = {}
    /\ conns' = Append(conns, Open(NoCmd))
    /\ UNCHANGED <<elixir, listener, up, broken>>

StrangerLeaves ==
    /\ \E i \in Strangers : ~conns[i].fin /\ conns' = [conns EXCEPT ![i].fin = TRUE]
    /\ UNCHANGED <<elixir, listener, up, broken>>

-----------------------------------------------------------------------------

Bridge   == Connect \/ ConnectFails \/ Send \/ Close
Listener == Accept \/ Recv \/ EndOfConnection

Next ==
    \/ Bridge \/ Listener \/ Crash \/ Start \/ StrangerConnects \/ StrangerLeaves
    \/ \E c \in Cmd : Call(c) \/ Timeout(c)
    \/ \E i \in DOMAIN conns : Break(i)

\* Both processes run, and Docker starts the sniffer again.  Nothing makes a
\* stranger leave.
Spec == Init /\ [][Next]_vars /\ WF_vars(Bridge) /\ WF_vars(Listener) /\ WF_vars(Start)

-----------------------------------------------------------------------------
(* Properties.                                                             *)

\* A connection is for one command, with its own text in buf, and waits its
\* turn in a queue of bounded length.
TypeOK ==
    /\ result \in [Cmd -> {"none", "waits", "ok", "error", "timeout"}]
    /\ mailbox \in Seq(Cmd) /\ bridge \in {"connect", "send", "close"}
    /\ Waiting \in 0..Backlog
    /\ buf # <<>> => reading /\ buf = <<Head(conns).cmd>>
    /\ broken \subseteq Cmd /\ executed \in Seq(Cmd)

\* The commands that may still be executed: what can still be read of them, or
\* will be sent, has its newline.
Whole(i) ==
    \/ conns[i].cmd # NoCmd /\ conns[i].left # <<>> /\ Last(conns[i].left) = "newline"
    \/ i \in Mine /\ bridge = "send" /\ ~conns[i].fin
Unsent  == {mailbox[j] : j \in {j \in DOMAIN mailbox : j > 1 \/ bridge = "connect"}}
Pending == {conns[i].cmd : i \in {i \in DOMAIN conns : Whole(i)}} \cup Unsent

\* Through queues, a full backlog, crashes, broken connections and callers that
\* give up, a command is executed once at most, in order of the calls, never
\* after the caller was given an error, and never by half.
Channel     == INSTANCE CommandChannel WITH pending <- Pending
ChannelSpec == Channel!Spec

\* What the bridge calls sent is executed, unless the sniffer crashed or the
\* connection broke, or a stranger keeps the listener.
Executes ==
    \A c \in Cmd :
        result[c] = "ok" ~> \/ c \in ToSet(executed) \cup broken
                            \/ \E i \in Strangers : ~conns[i].fin
=============================================================================
