--------------------------- MODULE CommandLinkProofs ---------------------------
(***************************************************************************)
(* The way of a command from its call to handle_command implements what    *)
(* CommandChannel promises, for any commands and any backlog.              *)
(***************************************************************************)
EXTENDS CommandLink, SequenceTheorems, TLAPS

Results == {"none", "waits", "ok", "error", "timeout"}
Left    == {<<>>, <<"text">>, <<"newline">>, Line}
Conn    == [cmd : Cmd \cup {NoCmd}, left : Left, fin : BOOLEAN]

\* The parts of TypeOK but the one about buf, with the type of the rest.
Types ==
    /\ result \in [Cmd -> Results]
    /\ mailbox \in Seq(Cmd) /\ bridge \in {"connect", "send", "close"}
    /\ conns \in Seq(Conn) /\ reading \in BOOLEAN /\ Waiting \in 0..Backlog
    /\ broken \subseteq Cmd /\ executed \in Seq(Cmd)
    /\ before \in [Cmd -> SUBSET Cmd]
    /\ bridge # "connect" => mailbox # <<>>
    /\ reading => conns # <<>>

\* buf has the text of the first connection, of which then the newline is left
\* at most; what is still to be sent has not been read.
Buffer ==
    /\ buf # <<>> => /\ reading /\ buf = <<conns[1].cmd>>
                     /\ conns[1].left \in {<<>>, <<"newline">>}
    /\ \A i \in DOMAIN conns :
        /\ conns[i].cmd = NoCmd => conns[i].left = <<>>
        /\ conns[i].left = <<"newline">> => i = 1 /\ buf # <<>>
        /\ bridge = "send" /\ i \in Mine => conns[i].left = <<>> /\ (i = 1 => buf = <<>>)

\* Being called before is an order of the commands called, and the mailbox and,
\* ahead of it, the connections keep to it.
Called(c) == result[c] # "none"
Order ==
    /\ \A c, d \in Cmd : c \in before[d] => d \notin before[c] /\ Called(c) /\ Called(d)
    /\ \A c, d \in Cmd : Called(c) /\ Called(d) => c = d \/ c \in before[d] \/ d \in before[c]
    /\ \A i \in DOMAIN mailbox : Called(mailbox[i])
    /\ \A i \in DOMAIN conns : conns[i].cmd # NoCmd => Called(conns[i].cmd)
    /\ \A i, j \in DOMAIN mailbox : i < j => mailbox[i] \in before[mailbox[j]]
    /\ \A i, j \in DOMAIN conns :
        i < j /\ conns[i].cmd # NoCmd /\ conns[j].cmd # NoCmd
            => conns[i].cmd \in before[conns[j].cmd]
    /\ \A i \in DOMAIN conns, j \in DOMAIN mailbox :
        conns[i].cmd # NoCmd =>
            \/ conns[i].cmd \in before[mailbox[j]]
            \/ j = 1 /\ bridge # "connect" /\ conns[i].cmd = mailbox[1]

\* What was executed was called before what may still be, and in order; what
\* failed for its caller neither was executed nor may be.
Done ==
    /\ \A i \in DOMAIN executed : Called(executed[i])
    /\ \A c \in Cmd : result[c] = "error" =>
        c \notin Pending /\ \A i \in DOMAIN executed : executed[i] # c
    /\ \A i \in DOMAIN executed, c \in Pending : executed[i] \in before[c]
    /\ \A i, j \in DOMAIN executed : i < j => executed[i] \in before[executed[j]]

IInv == Types /\ Buffer /\ Order /\ Done

\* What a reader of the sniffer's log may conclude.
OnceInOrder ==
    /\ \A i, j \in DOMAIN executed :
        /\ i < j => executed[i] \in before[executed[j]]
        /\ i # j => executed[i] # executed[j]
    /\ \A i \in DOMAIN executed : result[executed[i]] # "error"

-----------------------------------------------------------------------------
(* What is in the sequences.                                               *)

\* What can be left to read of a line, and what reading makes of it.
LEMMA Lefts ==
    /\ <<>> # <<"text">> /\ <<>> # <<"newline">> /\ <<>> # Line
    /\ <<"text">> # <<"newline">> /\ <<"text">> # Line /\ <<"newline">> # Line
    /\ Head(Line) = "text" /\ Tail(Line) = <<"newline">>
    /\ Head(<<"text">>) = "text" /\ Tail(<<"text">>) = <<>>
    /\ Head(<<"newline">>) = "newline" /\ Tail(<<"newline">>) = <<>>
    /\ \A l \in Left : l # <<>> /\ Last(l) = "newline" <=> l \in {<<"newline">>, Line}
BY DEF Left, Line, Last

\* What comes first of it is all of it, nothing or the text without the newline.
LEMMA Parts ==
    ASSUME NEW l \in Left, NEW n \in 0..Len(l)
    PROVE  /\ SubSeq(l, 1, n) \in Left
           /\ \/ SubSeq(l, 1, n) \in {l, <<>>}
              \/ l = Line /\ SubSeq(l, 1, n) = <<"text">>
<1> DEFINE Text == {"text", "newline"}
<1>1. <<"text">> \in Seq(Text) /\ <<"newline">> \in Seq(Text) /\ Line \in Seq(Text) /\ <<>> \in Seq(Text)
  BY DEF Line
<1>2. l \in Seq(Text)
  BY <1>1 DEF Left
<1>a. Len(l) \in {0, 1, 2} /\ (Len(l) = 2 => l = Line)
  BY DEF Left, Line
<1>b. n \in Nat /\ n <= Len(l)
  BY <1>a
<1>3. CASE n = Len(l)
  BY <1>2, <1>3, SubSeqFull
<1>4. CASE n = 0 /\ n # Len(l)
  <2>1. SubSeq(l, 1, n) = <<>>
    BY <1>4, SubSeqEmpty
  <2> QED
    BY <1>4, <2>1, Lefts DEF Left
<1>5. CASE n # 0 /\ n # Len(l)
  <2>1. n = 1 /\ l = Line
    <3>1. CASE Len(l) = 0
      BY <1>b, <1>5, <3>1
    <3>2. CASE Len(l) = 1
      BY <1>b, <1>5, <3>2
    <3>3. CASE Len(l) = 2
      BY <1>a, <1>b, <1>5, <3>3
    <3> QED
      BY <1>a, <3>1, <3>2, <3>3
  <2>2. l[1] = "text"
    BY <2>1 DEF Line
  <2>3. /\ SubSeq(l, 1, 1) \in Seq(Text) /\ Len(SubSeq(l, 1, 1)) = 1
        /\ SubSeq(l, 1, 1)[1] = "text"
    <3>1. \A i \in 1..1 : l[i] \in Text
      BY <2>2
    <3> QED
      BY <2>2, <3>1, SubSeqProperties
  <2>4. SubSeq(l, 1, 1) = <<"text">>
    <3>1. Len(<<"text">>) = 1 /\ <<"text">>[1] = "text"
      OBVIOUS
    <3>2. \A i \in 1..1 : SubSeq(l, 1, 1)[i] = <<"text">>[i]
      BY <2>3, <3>1
    <3> QED
      BY <1>1, <2>3, <3>1, <3>2, SeqEqual
  <2> QED
    BY <2>1, <2>4, Lefts DEF Left
<1> QED
  BY <1>3, <1>4, <1>5

\* Members of the mailbox and of the queue of connections.
LEMMA Members ==
    ASSUME Types
    PROVE  /\ Len(conns) \in Nat /\ DOMAIN conns = 1..Len(conns)
           /\ Len(mailbox) \in Nat /\ DOMAIN mailbox = 1..Len(mailbox)
           /\ \A i \in DOMAIN conns : conns[i] \in Conn
           /\ \A j \in DOMAIN mailbox : mailbox[j] \in Cmd
           /\ mailbox # <<>> => 1 \in DOMAIN mailbox /\ Head(mailbox) = mailbox[1]
           /\ conns # <<>> => 1 \in DOMAIN conns /\ Head(conns) = conns[1]
           /\ Mine \subseteq DOMAIN conns
           /\ Mine = {i \in DOMAIN conns : mailbox # <<>> /\ conns[i].cmd = mailbox[1]}
BY LenProperties, EmptySeq DEF Types, Mine

-----------------------------------------------------------------------------
(* What the actions do to the connections.                                 *)

\* The same connections in the same places.
Retouched ==
    /\ conns' \in Seq(Conn) /\ Len(conns') = Len(conns) /\ DOMAIN conns' = DOMAIN conns
    /\ \A i \in DOMAIN conns : conns'[i].cmd = conns[i].cmd

\* The line is put where the bridge's connection still takes it.
LEMMA SendDoes ==
    ASSUME Types, Send
    PROVE  /\ Retouched
           /\ \A i \in DOMAIN conns :
                /\ conns'[i].fin = conns[i].fin
                /\ conns'[i].left = IF i \in Mine /\ ~conns[i].fin THEN Line ELSE conns[i].left
<1>1. \A i \in DOMAIN conns : conns[i] \in Conn /\ [conns[i] EXCEPT !.left = Line] \in Conn
  BY Members DEF Conn, Left
<1>2. /\ DOMAIN conns' = DOMAIN conns
      /\ \A i \in DOMAIN conns :
            conns'[i] = IF i \in Mine /\ ~conns[i].fin
                        THEN [conns[i] EXCEPT !.left = Line] ELSE conns[i]
  BY DEF Send
<1>3. conns' \in Seq(Conn) /\ Len(conns') = Len(conns)
  BY <1>1, Members DEF Send
<1> QED
  BY <1>1, <1>2, <1>3 DEF Retouched, Conn

\* The bridge's end is put there; what is to be read stays.
LEMMA CloseDoes ==
    ASSUME Types, Close
    PROVE  /\ Retouched
           /\ \A i \in DOMAIN conns : conns'[i].left = conns[i].left
<1>1. \A i \in DOMAIN conns : conns[i] \in Conn /\ [conns[i] EXCEPT !.fin = TRUE] \in Conn
  BY Members DEF Conn
<1>2. /\ DOMAIN conns' = DOMAIN conns
      /\ \A i \in DOMAIN conns :
            conns'[i] = IF i \in Mine THEN [conns[i] EXCEPT !.fin = TRUE] ELSE conns[i]
  BY DEF Close
<1>3. conns' \in Seq(Conn) /\ Len(conns') = Len(conns)
  BY <1>1, Members DEF Close
<1> QED
  BY <1>1, <1>2, <1>3 DEF Retouched, Conn

\* The next part of the first connection's line is taken.
LEMMA RecvDoes ==
    ASSUME Types, Recv
    PROVE  /\ Retouched /\ 1 \in DOMAIN conns /\ Head(conns) = conns[1]
           /\ conns[1].left \in Left \ {<<>>} /\ conns'[1].left = Tail(conns[1].left)
           /\ conns'[1].fin = conns[1].fin
           /\ \A i \in DOMAIN conns : i # 1 => conns'[i] = conns[i]
<1>1. 1 \in DOMAIN conns /\ conns[1] \in Conn /\ conns[1].left # <<>>
  BY Members DEF Recv, Types
<1>2. Tail(conns[1].left) \in Left
  BY <1>1, Lefts DEF Conn, Left
<1>3. [conns[1] EXCEPT !.left = Tail(@)] \in Conn
  BY <1>1, <1>2 DEF Conn
<1>4. /\ DOMAIN conns' = DOMAIN conns
      /\ conns'[1] = [conns[1] EXCEPT !.left = Tail(@)]
      /\ \A i \in DOMAIN conns : i # 1 => conns'[i] = conns[i]
  BY <1>1 DEF Recv
<1>5. conns' \in Seq(Conn) /\ Len(conns') = Len(conns)
  BY <1>1, <1>3, Members DEF Recv, Types
<1> QED
  BY <1>1, <1>3, <1>4, <1>5, Members DEF Retouched, Conn

\* A first part of what was to be read is left, and the end.
LEMMA BreakDoes ==
    ASSUME Types, NEW i \in DOMAIN conns, Break(i)
    PROVE  /\ Retouched /\ conns'[i].fin
           /\ \E n \in 0..Len(conns[i].left) : conns'[i].left = SubSeq(conns[i].left, 1, n)
           /\ \A j \in DOMAIN conns : j # i => conns'[j] = conns[j]
<1>1. PICK n \in 0..Len(conns[i].left) :
          conns' = [conns EXCEPT ![i].left = SubSeq(@, 1, n), ![i].fin = TRUE]
  BY DEF Break
<1>2. conns[i] \in Conn /\ conns[i].left \in Left
  BY Members DEF Conn
<1> DEFINE part == SubSeq(conns[i].left, 1, n)
<1>3. part \in Left
  BY <1>2, Parts
<1>4. PICK first : first = [conns EXCEPT ![i].left = SubSeq(@, 1, n)]
  OBVIOUS
<1>5. /\ DOMAIN first = DOMAIN conns /\ first[i] \in Conn
      /\ first[i].left = part /\ first[i].cmd = conns[i].cmd
      /\ \A j \in DOMAIN conns : j # i => first[j] = conns[j]
  BY <1>2, <1>3, <1>4 DEF Conn
<1>6. conns' = [first EXCEPT ![i].fin = TRUE]
  BY <1>1, <1>4
<1> HIDE DEF part
<1>7. /\ DOMAIN conns' = DOMAIN conns /\ conns'[i] \in Conn
      /\ conns'[i].left = part /\ conns'[i].cmd = conns[i].cmd /\ conns'[i].fin
      /\ \A j \in DOMAIN conns : j # i => conns'[j] = conns[j]
  BY <1>5, <1>6 DEF Conn
<1>8. conns' \in Seq(Conn) /\ Len(conns') = Len(conns)
  <2>1. conns' = [j \in 1..Len(conns) |-> conns'[j]]
    BY <1>6, <1>7, Members
  <2>2. \A j \in 1..Len(conns) : conns'[j] \in Conn
    BY <1>7, Members
  <2> QED
    BY <2>1, <2>2, Members
<1> QED
  BY <1>7, <1>8 DEF Retouched, part

\* A stranger's end is put there.
LEMMA LeavesDoes ==
    ASSUME Types, StrangerLeaves
    PROVE  /\ Retouched
           /\ \E i \in Strangers : \A j \in DOMAIN conns :
                /\ conns'[j].left = conns[j].left
                /\ j # i => conns'[j] = conns[j]
<1>1. PICK i \in Strangers : conns' = [conns EXCEPT ![i].fin = TRUE]
  BY DEF StrangerLeaves
<1>2. i \in DOMAIN conns /\ [conns[i] EXCEPT !.fin = TRUE] \in Conn
  BY Members DEF Conn, Strangers
<1>3. /\ DOMAIN conns' = DOMAIN conns
      /\ conns'[i] = [conns[i] EXCEPT !.fin = TRUE]
      /\ \A j \in DOMAIN conns : j # i => conns'[j] = conns[j]
  BY <1>1, <1>2
<1>4. conns' \in Seq(Conn) /\ Len(conns') = Len(conns)
  BY <1>1, <1>2, Members DEF Types
<1> QED
  BY <1>1, <1>2, <1>3, <1>4, Members DEF Retouched, Conn

\* A new connection is last, and nothing can be read from it yet.
LEMMA OpenDoes ==
    ASSUME Types, NEW c \in Cmd \cup {NoCmd}, conns' = Append(conns, Open(c))
    PROVE  /\ conns' \in Seq(Conn) /\ Len(conns') = Len(conns) + 1
           /\ DOMAIN conns' = 1..(Len(conns) + 1)
           /\ \A i \in DOMAIN conns : conns'[i] = conns[i]
           /\ conns'[Len(conns) + 1] = Open(c)
<1>1. Open(c) \in Conn
  BY DEF Open, Conn, Left
<1> QED
  BY <1>1, Members, AppendProperties DEF Types

\* When the first connection is done the others move up.
LEMMA NextDoes ==
    ASSUME Types, conns # <<>>, conns' = Tail(conns)
    PROVE  /\ conns' \in Seq(Conn) /\ Len(conns') = Len(conns) - 1
           /\ DOMAIN conns' = 1..(Len(conns) - 1)
           /\ \A i \in DOMAIN conns' : i + 1 \in DOMAIN conns /\ conns'[i] = conns[i + 1]
BY Members, HeadTailProperties DEF Types

\* A call goes to the end of the mailbox, and a reply takes its head out.
LEMMA MailDoes ==
    ASSUME Types
    PROVE  /\ \A c \in Cmd : mailbox' = Append(mailbox, c) =>
                /\ mailbox' \in Seq(Cmd) /\ mailbox' # <<>>
                /\ DOMAIN mailbox' = 1..(Len(mailbox) + 1)
                /\ \A j \in DOMAIN mailbox : mailbox'[j] = mailbox[j]
                /\ mailbox'[Len(mailbox) + 1] = c
           /\ mailbox # <<>> /\ mailbox' = Tail(mailbox) =>
                /\ mailbox' \in Seq(Cmd)
                /\ DOMAIN mailbox' = 1..(Len(mailbox) - 1)
                /\ \A j \in DOMAIN mailbox' : j + 1 \in DOMAIN mailbox
                                              /\ mailbox'[j] = mailbox[j + 1]
<1>1. ASSUME NEW c \in Cmd, mailbox' = Append(mailbox, c)
      PROVE  /\ mailbox' \in Seq(Cmd) /\ mailbox' # <<>>
             /\ DOMAIN mailbox' = 1..(Len(mailbox) + 1)
             /\ \A j \in DOMAIN mailbox : mailbox'[j] = mailbox[j]
             /\ mailbox'[Len(mailbox) + 1] = c
  BY <1>1, Members, AppendProperties, EmptySeq DEF Types
<1>2. ASSUME mailbox # <<>>, mailbox' = Tail(mailbox)
      PROVE  /\ mailbox' \in Seq(Cmd)
             /\ DOMAIN mailbox' = 1..(Len(mailbox) - 1)
             /\ \A j \in DOMAIN mailbox' : j + 1 \in DOMAIN mailbox
                                           /\ mailbox'[j] = mailbox[j + 1]
  BY <1>2, Members, HeadTailProperties DEF Types
<1> QED
  BY <1>1, <1>2

-----------------------------------------------------------------------------
(* Types.                                                                  *)

\* Every step keeps every variable in its type and the queue in its bound.
LEMMA TypesStep ==
    ASSUME Types, Buffer, [Next]_vars
    PROVE  Types'
<1> USE CommandAssumption DEF Types, Results
<1>0. Len(conns) \in Nat /\ (reading => Len(conns) > 0) /\ (conns # <<>> => Len(conns) > 0)
  BY EmptySeq, LenProperties
\* With as many connections, as many wait.
<1>a. ASSUME Len(conns') = Len(conns), reading' = reading
      PROVE  Waiting' = Waiting /\ (reading' => conns' # <<>>)
  BY <1>0, <1>a, EmptySeq DEF Waiting
\* With one more, one more waits, and there was room.
<1>b. ASSUME Len(conns') = Len(conns) + 1, reading' = reading, Waiting < Backlog
      PROVE  Waiting' \in 0..Backlog /\ conns' # <<>>
  BY <1>0, <1>b, EmptySeq DEF Waiting
<1>1. ASSUME NEW c \in Cmd, Call(c)
      PROVE  Types'
  <2>1. before' \in [Cmd -> SUBSET Cmd] /\ result' \in [Cmd -> Results]
    BY <1>1 DEF Call
  <2> QED
    BY <1>1, <2>1, <1>a, MailDoes DEF Call, listener
<1>2. ASSUME NEW c \in Cmd, Timeout(c)
      PROVE  Types'
  BY <1>2, <1>a DEF Timeout, listener
<1>3. CASE Connect
  <2>1. /\ Len(conns') = Len(conns) + 1 /\ conns' \in Seq(Conn)
        /\ UNCHANGED <<result, mailbox, listener, broken, before>>
        /\ mailbox # <<>> /\ Waiting < Backlog /\ bridge' = "send"
    BY <1>3, Members, OpenDoes DEF Connect
  <2> QED
    BY <2>1, <1>b DEF listener
<1>4. ASSUME NEW r \in {"ok", "error"}, mailbox # <<>>, Reply(r)
      PROVE  /\ result' \in [Cmd -> Results] /\ mailbox' \in Seq(Cmd)
             /\ bridge' = "connect" /\ before' = before
  BY <1>4, MailDoes DEF Reply
<1>5. CASE ConnectFails
  BY <1>4, <1>5, <1>a DEF ConnectFails, listener
<1>6. CASE Send
  BY <1>6, <1>a, SendDoes DEF Send, Retouched, listener
<1>7. CASE Close
  BY <1>4, <1>7, <1>a, CloseDoes DEF Close, Retouched, listener
<1>8. CASE Accept
  <2>1. Waiting' \in 0..Backlog
    BY <1>0, <1>8 DEF Accept, Waiting
  <2> QED
    BY <1>8, <2>1 DEF Accept, elixir
<1>9. CASE Recv
  <2>1. executed' \in Seq(Cmd)
    <3>1. ASSUME buf # <<>>, executed' = Append(executed, Head(buf))
          PROVE  executed' \in Seq(Cmd)
      <4>1. Head(buf) = conns[1].cmd /\ 1 \in DOMAIN conns /\ conns[1].cmd \in Cmd \cup {NoCmd}
        BY <3>1, Members DEF Buffer, Conn
      <4>2. conns[1].left # <<>>
        BY <1>9, RecvDoes
      <4> QED
        BY <3>1, <4>1, <4>2, AppendProperties DEF Buffer
    <3> QED
      BY <1>9, <3>1 DEF Recv, handle_command
  <2> QED
    BY <1>9, <2>1, <1>a, RecvDoes DEF Recv, Retouched, elixir
<1>10. CASE EndOfConnection
  <2>1. /\ conns # <<>> /\ reading /\ reading' = FALSE
        /\ UNCHANGED <<elixir, executed, broken>> /\ conns' = Tail(conns)
    BY <1>10 DEF EndOfConnection, AtEnd
  <2>2. conns' \in Seq(Conn) /\ Len(conns') = Len(conns) - 1
    BY <2>1, NextDoes
  <2>3. Waiting' = Waiting
    BY <1>0, <2>1, <2>2 DEF Waiting
  <2> QED
    BY <2>1, <2>2, <2>3 DEF elixir
<1>11. ASSUME NEW i \in DOMAIN conns, Break(i)
       PROVE  Types'
  <2>1. broken' \subseteq Cmd
    BY <1>11, Members DEF Break, Conn
  <2> QED
    BY <1>11, <2>1, <1>a, BreakDoes DEF Break, Retouched, elixir, listener
<1>12. CASE Crash
  <2>1. broken' \subseteq Cmd
    BY <1>12, Members DEF Crash, Conn
  <2>2. Waiting' \in 0..Backlog /\ conns' \in Seq(Conn) /\ reading' = FALSE
    <3>1. conns' \in Seq(Conn) /\ Len(conns') \in Nat /\ reading' = FALSE
      BY <1>12, EmptySeq DEF Crash
    <3>2. Waiting' = Len(conns')
      BY <3>1 DEF Waiting
    <3>3. Len(conns') = 0
      BY <1>12, EmptySeq DEF Crash
    <3> QED
      BY <3>1, <3>2, <3>3
  <2>3. UNCHANGED <<result, mailbox, bridge, before, executed>>
    BY <1>12 DEF Crash, elixir
  <2> QED
    BY <2>1, <2>2, <2>3
<1>13. CASE Start
  BY <1>13, <1>a DEF Start, elixir, listener
<1>14. CASE StrangerConnects
  <2>1. Len(conns') = Len(conns) + 1 /\ conns' \in Seq(Conn)
    BY <1>14, OpenDoes DEF StrangerConnects
  <2> QED
    BY <1>14, <2>1, <1>b DEF StrangerConnects, elixir, listener
<1>15. CASE StrangerLeaves
  BY <1>15, <1>a, LeavesDoes DEF StrangerLeaves, Retouched, elixir, listener
<1>16. CASE UNCHANGED vars
  BY <1>16, <1>a DEF vars
<1> QED
  BY <1>1, <1>2, <1>3, <1>5, <1>6, <1>7, <1>8, <1>9, <1>10, <1>11, <1>12, <1>13, <1>14, <1>15,
     <1>16 DEF Next, Bridge, Listener

-----------------------------------------------------------------------------
(* The buffer.                                                             *)

\* What is in buf is the first connection's, at every step.
LEMMA BufferStep ==
    ASSUME Types, Types', Buffer, Order, [Next]_vars
    PROVE  Buffer'
<1> USE CommandAssumption
<1>0. /\ \A i \in DOMAIN conns : conns[i].left \in Left /\ (i \in Mine => conns[i].cmd # NoCmd)
      /\ reading => 1 \in DOMAIN conns
  BY Members DEF Types, Conn
<1>1. ASSUME NEW c \in Cmd, Call(c)
      PROVE  Buffer'
  <2>1. bridge = "send" => Mine' = Mine
    <3>1. ASSUME bridge = "send"
          PROVE  mailbox # <<>> /\ Head(mailbox) = mailbox[1] /\ mailbox' # <<>>
                 /\ Head(mailbox') = mailbox[1]
      <4>1. mailbox # <<>> /\ 1 \in DOMAIN mailbox /\ Head(mailbox) = mailbox[1]
        BY <3>1, Members DEF Types
      <4>2. mailbox' \in Seq(Cmd) /\ mailbox' # <<>> /\ mailbox'[1] = mailbox[1]
        BY <1>1, <4>1, MailDoes DEF Call
      <4> QED
        BY <4>1, <4>2
    <3>2. conns' = conns
      BY <1>1 DEF Call
    <3> QED
      BY <3>1, <3>2 DEF Mine
  <2> QED
    BY <1>1, <2>1 DEF Call, listener, Buffer
<1>2. ASSUME NEW c \in Cmd, Timeout(c)
      PROVE  Buffer'
  BY <1>2 DEF Timeout, listener, Buffer, Mine
<1>3. CASE Connect
  <2>1. /\ bridge = "connect" /\ mailbox # <<>> /\ UNCHANGED <<mailbox, buf, reading>>
        /\ conns' = Append(conns, Open(mailbox[1])) /\ mailbox[1] \in Cmd
        /\ 1 \in DOMAIN mailbox
    BY <1>3, Members DEF Connect, listener
  <2>2. /\ \A i \in DOMAIN conns : conns'[i] = conns[i]
        /\ conns'[Len(conns) + 1].left = <<>> /\ Len(conns) \in Nat
        /\ DOMAIN conns' = 1..(Len(conns) + 1) /\ DOMAIN conns = 1..Len(conns)
    BY <2>1, OpenDoes, Members DEF Open
  <2>3. \A i \in DOMAIN conns : conns[i].cmd # mailbox[1]
    BY <2>1 DEF Order
  <2>4. \A i \in Mine' : i = Len(conns) + 1
    BY <2>1, <2>2, <2>3 DEF Mine
  <2>5. Len(conns) + 1 = 1 => buf = <<>>
    BY <1>0, <2>2 DEF Buffer
  <2>6. \A i \in DOMAIN conns' : i \in DOMAIN conns \/ i = Len(conns) + 1
    BY <2>2
  <2> QED
    BY <1>0, <2>1, <2>2, <2>4, <2>5, <2>6, Lefts DEF Buffer
<1>4. CASE ConnectFails
  BY <1>4 DEF ConnectFails, Reply, listener, Buffer
<1>5. CASE Send
  BY <1>0, <1>5, SendDoes, Lefts DEF Send, Retouched, listener, Buffer
<1>6. CASE Close
  BY <1>0, <1>6, CloseDoes DEF Close, Reply, Retouched, listener, Buffer
<1>7. CASE Accept
  BY <1>7 DEF Accept, elixir, Buffer, Mine
<1>8. CASE Recv
  <2>1. /\ reading /\ 1 \in DOMAIN conns /\ conns[1].left \in Left \ {<<>>}
        /\ conns'[1].left = Tail(conns[1].left) /\ conns'[1].cmd = conns[1].cmd
        /\ conns[1].cmd # NoCmd /\ DOMAIN conns' = DOMAIN conns
        /\ \A i \in DOMAIN conns : i # 1 => conns'[i] = conns[i]
    BY <1>8, RecvDoes DEF Recv, Retouched, Buffer
  <2>2. ~(bridge = "send" /\ 1 \in Mine)
    BY <2>1 DEF Buffer
  <2>3. Mine' = Mine /\ UNCHANGED <<bridge, reading>>
    BY <1>8, RecvDoes DEF Recv, elixir, Mine, Retouched
  <2>4. CASE Head(conns[1].left) = "text"
    <3>1. conns[1].left \in {<<"text">>, Line}
      BY <2>1, <2>4, Lefts DEF Left
    <3>2. conns'[1].left \in {<<>>, <<"newline">>}
      BY <2>1, <3>1, Lefts
    <3>3. buf = <<>>
      BY <3>1, Lefts DEF Buffer
    <3>4. buf' = Append(buf, conns[1].cmd)
      BY <1>8, <2>4, RecvDoes DEF Recv
    <3>5. buf' = <<conns[1].cmd>> /\ buf' # <<>>
      BY <3>3, <3>4
    <3> QED
      BY <2>1, <2>2, <2>3, <3>2, <3>3, <3>5 DEF Buffer
  <2>5. CASE Head(conns[1].left) # "text"
    <3>1. buf' = <<>>
      BY <1>8, <2>5, RecvDoes DEF Recv
    <3>2. conns'[1].left = <<>>
      BY <2>1, <2>5, Lefts DEF Left
    <3> QED
      BY <2>1, <2>2, <2>3, <3>1, <3>2, Lefts DEF Buffer
  <2> QED
    BY <2>4, <2>5
<1>9. CASE EndOfConnection
  <2>1. /\ conns # <<>> /\ conns' = Tail(conns) /\ buf' = <<>> /\ UNCHANGED <<mailbox, bridge>>
    BY <1>9 DEF EndOfConnection, AtEnd, elixir, Types
  <2>2. \A i \in DOMAIN conns' : /\ i + 1 \in DOMAIN conns /\ i + 1 # 1
                                 /\ conns'[i] = conns[i + 1]
    BY <2>1, NextDoes, Members
  <2> QED
    BY <2>1, <2>2 DEF Buffer, Mine
<1>10. ASSUME NEW i \in DOMAIN conns, Break(i)
       PROVE  Buffer'
  <2>1. PICK n \in 0..Len(conns[i].left) : conns'[i].left = SubSeq(conns[i].left, 1, n)
    BY <1>10, BreakDoes
  <2>2. \/ conns'[i].left \in {conns[i].left, <<>>}
        \/ conns[i].left = Line /\ conns'[i].left = <<"text">>
    BY <1>0, <2>1, Parts
  <2>3. /\ \A j \in DOMAIN conns : /\ conns'[j].cmd = conns[j].cmd
                                   /\ j # i => conns'[j] = conns[j]
        /\ DOMAIN conns' = DOMAIN conns
    BY <1>10, BreakDoes DEF Retouched
  <2>4. Mine' = Mine /\ UNCHANGED <<bridge, reading, buf>>
    BY <1>10, <2>3 DEF Break, elixir, listener, Mine
  <2> QED
    BY <1>0, <2>2, <2>3, <2>4, Lefts DEF Buffer
<1>11. CASE Crash
  BY <1>11 DEF Crash, Buffer, Mine
<1>12. CASE Start
  BY <1>12 DEF Start, elixir, listener, Buffer, Mine
<1>13. CASE StrangerConnects
  <2>1. conns' = Append(conns, Open(NoCmd)) /\ UNCHANGED <<elixir, buf, reading>>
    BY <1>13 DEF StrangerConnects, listener
  <2>2. /\ \A i \in DOMAIN conns : conns'[i] = conns[i]
        /\ conns'[Len(conns) + 1].left = <<>> /\ conns'[Len(conns) + 1].cmd = NoCmd
        /\ DOMAIN conns' = 1..(Len(conns) + 1)
    BY <2>1, OpenDoes DEF Open
  <2>3. \A i \in DOMAIN conns' : i \in DOMAIN conns \/ i = Len(conns) + 1
    BY <2>2, Members
  <2>4. \A i \in Mine' : i \in Mine
    BY <2>1, <2>2, <2>3, Members DEF Mine, elixir
  <2> QED
    BY <1>0, <2>1, <2>2, <2>3, <2>4, Lefts DEF Buffer, elixir
<1>14. CASE StrangerLeaves
  <2>1. /\ DOMAIN conns' = DOMAIN conns
        /\ \A i \in DOMAIN conns : conns'[i].cmd = conns[i].cmd /\ conns'[i].left = conns[i].left
    BY <1>14, LeavesDoes DEF Retouched
  <2>2. UNCHANGED <<mailbox, bridge, buf, reading>>
    BY <1>14 DEF StrangerLeaves, elixir, listener
  <2>3. Mine' = Mine
    BY <2>1, <2>2 DEF Mine
  <2> QED
    BY <1>0, <2>1, <2>2, <2>3 DEF Buffer
<1>15. CASE UNCHANGED vars
  BY <1>15 DEF vars, Buffer, Mine
<1> QED
  BY <1>1, <1>2, <1>3, <1>4, <1>5, <1>6, <1>7, <1>8, <1>9, <1>10, <1>11, <1>12, <1>13, <1>14,
     <1>15 DEF Next, Bridge, Listener

-----------------------------------------------------------------------------
(* The order of the calls.                                                 *)

\* The mailbox and the connections keep to the order of the calls.
LEMMA OrderStep ==
    ASSUME Types, Types', Buffer, Order, [Next]_vars
    PROVE  Order'
<1> USE CommandAssumption
<1>0. /\ \A i \in DOMAIN conns : conns[i].cmd \in Cmd \cup {NoCmd}
      /\ \A i \in DOMAIN mailbox : mailbox[i] \in Cmd
  BY Members DEF Conn
\* No step but a call tells of one called that it was not, or one more.
<1>a. ASSUME before' = before, \A c \in Cmd : Called(c)' <=> Called(c)
      PROVE  /\ \A c, d \in Cmd : c \in before'[d] => d \notin before'[c] /\ Called(c)' /\ Called(d)'
             /\ \A c, d \in Cmd : Called(c)' /\ Called(d)'
                    => c = d \/ c \in before'[d] \/ d \in before'[c]
  BY <1>a DEF Order
<1>b. ASSUME Retouched, UNCHANGED <<result, mailbox, before>>,
             bridge' = "connect" <=> bridge = "connect"
      PROVE  Order'
  BY <1>b DEF Order, Called, Retouched
<1>1. ASSUME NEW c \in Cmd, Call(c)
      PROVE  Order'
  <2>1. /\ result[c] = "none" /\ mailbox' = Append(mailbox, c) /\ UNCHANGED <<bridge, conns>>
        /\ before'[c] = {d \in Cmd : Called(d)}
        /\ \A d \in Cmd : d # c => before'[d] = before[d]
        /\ \A d \in Cmd : Called(d)' <=> Called(d) \/ d = c
    BY <1>1 DEF Call, Types, Called
  <2>2. /\ DOMAIN mailbox' = 1..(Len(mailbox) + 1) /\ mailbox'[Len(mailbox) + 1] = c
        /\ \A j \in DOMAIN mailbox : mailbox'[j] = mailbox[j]
        /\ DOMAIN mailbox = 1..Len(mailbox) /\ Len(mailbox) \in Nat
    BY <2>1, MailDoes, Members
  <2>3. \A j \in DOMAIN mailbox' : j \in DOMAIN mailbox \/ j = Len(mailbox) + 1
    BY <2>2
  <2>4. /\ \A j \in DOMAIN mailbox : mailbox[j] # c /\ mailbox[j] \in before'[c]
        /\ \A i \in DOMAIN conns :
             conns[i].cmd # NoCmd => conns[i].cmd # c /\ conns[i].cmd \in before'[c]
    BY <1>0, <2>1 DEF Order, Called
  <2>5. /\ \A d, e \in Cmd : d \in before'[e] => e \notin before'[d] /\ Called(d)' /\ Called(e)'
        /\ \A d, e \in Cmd : Called(d)' /\ Called(e)'
               => d = e \/ d \in before'[e] \/ e \in before'[d]
    BY <2>1 DEF Order, Called
  <2>6. \A i, j \in DOMAIN mailbox' : i < j => mailbox'[i] \in before'[mailbox'[j]]
    BY <1>0, <2>1, <2>2, <2>3, <2>4 DEF Order
  <2>7. \A i \in DOMAIN conns, j \in DOMAIN mailbox' :
          conns[i].cmd # NoCmd =>
            \/ conns[i].cmd \in before'[mailbox'[j]]
            \/ j = 1 /\ bridge # "connect" /\ conns[i].cmd = mailbox'[1]
    BY <1>0, <2>1, <2>2, <2>3, <2>4 DEF Order
  <2>8. \A i, j \in DOMAIN conns :
          i < j /\ conns[i].cmd # NoCmd /\ conns[j].cmd # NoCmd
            => conns[i].cmd \in before'[conns[j].cmd]
    BY <1>0, <2>1, <2>4 DEF Order
  <2>9. /\ \A j \in DOMAIN mailbox' : result'[mailbox'[j]] # "none"
        /\ \A i \in DOMAIN conns : conns[i].cmd # NoCmd => result'[conns[i].cmd] # "none"
    BY <1>0, <2>1, <2>2, <2>3 DEF Order, Called
  <2> QED
    BY <2>1, <2>5, <2>6, <2>7, <2>8, <2>9 DEF Order, Called
<1>2. ASSUME NEW c \in Cmd, Timeout(c)
      PROVE  Order'
  <2>1. UNCHANGED <<mailbox, bridge, conns, before>> /\ \A d \in Cmd : Called(d)' <=> Called(d)
    BY <1>2 DEF Timeout, Called, Types
  <2> QED
    BY <1>0, <1>a, <2>1 DEF Order, Called
<1>3. CASE Connect
  <2>1. /\ bridge = "connect" /\ bridge' # "connect" /\ UNCHANGED <<result, mailbox, before>>
        /\ conns' = Append(conns, Open(mailbox[1])) /\ 1 \in DOMAIN mailbox
    BY <1>3, Members DEF Connect
  <2>2. /\ \A i \in DOMAIN conns : conns'[i] = conns[i]
        /\ conns'[Len(conns) + 1].cmd = mailbox[1] /\ Len(conns) \in Nat
        /\ DOMAIN conns' = 1..(Len(conns) + 1) /\ DOMAIN conns = 1..Len(conns)
        /\ DOMAIN mailbox = 1..Len(mailbox) /\ Len(mailbox) \in Nat
    BY <1>0, <2>1, OpenDoes, Members DEF Open
  <2>3. \A i \in DOMAIN conns' : i \in DOMAIN conns \/ i = Len(conns) + 1
    BY <2>2
  <2>4. \A i, j \in DOMAIN conns' :
          i < j /\ conns'[i].cmd # NoCmd /\ conns'[j].cmd # NoCmd
            => conns'[i].cmd \in before[conns'[j].cmd]
    BY <2>1, <2>2, <2>3 DEF Order
  <2>5. \A j \in DOMAIN mailbox : j = 1 \/ mailbox[1] \in before[mailbox[j]]
    BY <2>1, <2>2 DEF Order
  <2>6. \A i \in DOMAIN conns', j \in DOMAIN mailbox :
          conns'[i].cmd # NoCmd =>
            \/ conns'[i].cmd \in before[mailbox[j]]
            \/ j = 1 /\ conns'[i].cmd = mailbox[1]
    BY <2>1, <2>2, <2>3, <2>5 DEF Order
  <2> QED
    BY <2>1, <2>2, <2>3, <2>4, <2>6 DEF Order, Called
<1>4. ASSUME NEW r \in {"ok", "error"}, mailbox # <<>>, Reply(r), Retouched
      PROVE  Order'
  <2>1. /\ mailbox' = Tail(mailbox) /\ bridge' = "connect" /\ before' = before
        /\ \A d \in Cmd : Called(d)' <=> Called(d)
    BY <1>4 DEF Reply, Called, Types
  <2>2. /\ \A j \in DOMAIN mailbox' : j + 1 \in DOMAIN mailbox /\ mailbox'[j] = mailbox[j + 1]
        /\ \A j \in DOMAIN mailbox' : j \in Nat /\ j + 1 # 1
    <3>1. DOMAIN mailbox' = 1..(Len(mailbox) - 1) /\ Len(mailbox) \in Nat
      BY <1>4, <2>1, MailDoes, Members
    <3>2. \A j \in DOMAIN mailbox' : j + 1 \in DOMAIN mailbox /\ mailbox'[j] = mailbox[j + 1]
      BY <1>4, <2>1, MailDoes
    <3> QED
      BY <3>1, <3>2
  <2>3. \A i, j \in DOMAIN mailbox' : i < j => mailbox'[i] \in before[mailbox'[j]]
    <3>1. \A i, j \in DOMAIN mailbox' : i < j => i + 1 < j + 1
      BY <2>2
    <3> QED
      BY <2>2, <3>1 DEF Order
  <2>5. \A i \in DOMAIN conns, j \in DOMAIN mailbox' :
          conns[i].cmd # NoCmd => conns[i].cmd \in before[mailbox'[j]]
    BY <2>2 DEF Order
  <2>6. /\ \A j \in DOMAIN mailbox' : result'[mailbox'[j]] # "none"
        /\ \A i \in DOMAIN conns : conns[i].cmd # NoCmd => result'[conns[i].cmd] # "none"
    BY <1>0, <2>1, <2>2 DEF Order, Called
  <2>7. /\ DOMAIN conns' = DOMAIN conns
        /\ \A i \in DOMAIN conns : conns'[i].cmd = conns[i].cmd
    BY <1>4 DEF Retouched
  <2>8. \A i, j \in DOMAIN conns :
          i < j /\ conns[i].cmd # NoCmd /\ conns[j].cmd # NoCmd
            => conns[i].cmd \in before[conns[j].cmd]
    BY DEF Order
  <2> QED
    BY <1>a, <2>1, <2>3, <2>5, <2>6, <2>7, <2>8 DEF Order, Called
<1>5. CASE ConnectFails
  BY <1>4, <1>5 DEF ConnectFails, Retouched, Types
<1>6. CASE Send
  BY <1>6, <1>b, SendDoes DEF Send
<1>7. CASE Close
  BY <1>4, <1>7, CloseDoes DEF Close, Types
<1>8. CASE Recv
  BY <1>8, <1>b, RecvDoes DEF Recv, elixir
<1>9. CASE EndOfConnection
  <2>1. conns # <<>> /\ conns' = Tail(conns) /\ UNCHANGED <<result, mailbox, bridge, before>>
    BY <1>9 DEF EndOfConnection, AtEnd, elixir, Types
  <2>2. /\ \A i \in DOMAIN conns' : i + 1 \in DOMAIN conns /\ conns'[i] = conns[i + 1]
        /\ \A i, j \in DOMAIN conns' : i < j => i + 1 < j + 1
    BY <2>1, NextDoes, Members
  <2>3. \A i, j \in DOMAIN conns' :
          i < j /\ conns'[i].cmd # NoCmd /\ conns'[j].cmd # NoCmd
            => conns'[i].cmd \in before[conns'[j].cmd]
    BY <2>2 DEF Order
  <2> QED
    BY <2>1, <2>2, <2>3 DEF Order, Called
<1>10. ASSUME NEW i \in DOMAIN conns, Break(i)
       PROVE  Order'
  BY <1>10, <1>b, BreakDoes DEF Break, elixir
<1>11. CASE Crash
  BY <1>11 DEF Crash, elixir, Order, Called
<1>12. CASE StrangerConnects
  <2>1. conns' = Append(conns, Open(NoCmd)) /\ UNCHANGED <<result, mailbox, bridge, before>>
    BY <1>12 DEF StrangerConnects, elixir
  <2>2. /\ \A i \in DOMAIN conns : conns'[i] = conns[i]
        /\ conns'[Len(conns) + 1].cmd = NoCmd /\ DOMAIN conns' = 1..(Len(conns) + 1)
    BY <2>1, OpenDoes DEF Open
  <2>3. \A i \in DOMAIN conns' : i \in DOMAIN conns \/ conns'[i].cmd = NoCmd
    BY <2>2, Members
  <2> QED
    BY <2>1, <2>2, <2>3 DEF Order, Called
<1>13. CASE StrangerLeaves
  BY <1>13, <1>b, LeavesDoes DEF StrangerLeaves, elixir
<1>14. CASE UNCHANGED <<result, mailbox, bridge, conns, before>>
  BY <1>14 DEF Order, Called
<1> QED
  BY <1>1, <1>2, <1>3, <1>5, <1>6, <1>7, <1>8, <1>9, <1>10, <1>11, <1>12, <1>13, <1>14
     DEF Next, Bridge, Listener, Accept, Start, elixir, vars

-----------------------------------------------------------------------------
(* What may still be executed.                                             *)

\* A connection's command may if its newline can be read or will be sent.
Runs(i) ==
    \/ conns[i].left \in {<<"newline">>, Line}
    \/ bridge = "send" /\ i \in Mine /\ ~conns[i].fin

PendingAre ==
    /\ Pending \subseteq Cmd
    /\ \A c : c \in Pending <=>
        \/ \E i \in DOMAIN conns : conns[i].cmd = c /\ Runs(i)
        \/ \E j \in DOMAIN mailbox : mailbox[j] = c /\ (j > 1 \/ bridge = "connect")

\* Pending, member by member.
LEMMA PendingIs == Types /\ Buffer => PendingAre
<1> SUFFICES ASSUME Types, Buffer
             PROVE  PendingAre
  OBVIOUS
<1> USE CommandAssumption
<1>1. /\ \A i \in DOMAIN conns : /\ conns[i].cmd \in Cmd \cup {NoCmd} /\ conns[i].left \in Left
                                 /\ i \in Mine => conns[i].cmd # NoCmd
      /\ \A j \in DOMAIN mailbox : mailbox[j] \in Cmd
  BY Members DEF Types, Conn
<1>2. \A i \in DOMAIN conns : /\ Whole(i) <=> Runs(i)
                              /\ Runs(i) => conns[i].cmd \in Cmd
  BY <1>1, Lefts DEF Whole, Runs, Buffer
<1> QED
  BY <1>1, <1>2 DEF PendingAre, Pending, Unsent

\* One command has one connection and one place in the mailbox, never both but
\* while the bridge works on it.
LEMMA Distinct ==
    ASSUME Types, Order
    PROVE  /\ \A c \in Cmd : c \notin before[c]
           /\ \A i, j \in DOMAIN mailbox : i # j => mailbox[i] # mailbox[j]
           /\ \A i, j \in DOMAIN conns :
                i # j /\ conns[i].cmd # NoCmd => conns[i].cmd # conns[j].cmd
           /\ \A i \in DOMAIN conns, j \in DOMAIN mailbox :
                j > 1 \/ bridge = "connect" => conns[i].cmd # mailbox[j]
<1>1. /\ \A i \in DOMAIN conns : conns[i].cmd \in Cmd \cup {NoCmd} /\ i \in Nat
      /\ \A j \in DOMAIN mailbox : mailbox[j] \in Cmd /\ j \in Nat
  BY Members DEF Conn
<1>2. \A c \in Cmd : c \notin before[c]
  BY DEF Order
<1>3. \A i, j \in DOMAIN mailbox : i # j => i < j \/ j < i
  BY <1>1
<1>4. \A i, j \in DOMAIN conns : i # j => i < j \/ j < i
  BY <1>1
<1>5. \A i, j \in DOMAIN mailbox : i # j => mailbox[i] # mailbox[j]
  BY <1>1, <1>2, <1>3 DEF Order
<1>6. \A i, j \in DOMAIN conns : i # j /\ conns[i].cmd # NoCmd => conns[i].cmd # conns[j].cmd
  BY <1>1, <1>2, <1>4 DEF Order
<1>7. \A i \in DOMAIN conns, j \in DOMAIN mailbox :
        j > 1 \/ bridge = "connect" => conns[i].cmd # mailbox[j]
  BY <1>1, <1>2, CommandAssumption DEF Order
<1> QED
  BY <1>2, <1>5, <1>6, <1>7

-----------------------------------------------------------------------------
(* Every step is one of CommandChannel's, or leaves what it speaks of alone. *)

\* What each action of the link is to the channel.
LEMMA ChannelStep ==
    ASSUME Types, Types', Buffer, Buffer', Order, [Next]_vars
    PROVE  [Channel!Next]_(Channel!vars)
<1> USE CommandAssumption
<1>0. /\ \A i \in DOMAIN conns : /\ conns[i].cmd \in Cmd \cup {NoCmd} /\ conns[i].left \in Left
                                 /\ i \in Mine => conns[i].cmd # NoCmd
      /\ \A j \in DOMAIN mailbox : mailbox[j] \in Cmd
  BY Members DEF Types, Conn
<1>p. PendingAre /\ PendingAre'
  BY PendingIs, PTL
\* The connections and the mailbox in their places, and as much of them to run.
<1>a. ASSUME DOMAIN conns' = DOMAIN conns, UNCHANGED <<bridge, mailbox>>,
             \A i \in DOMAIN conns : conns'[i].cmd = conns[i].cmd /\ (Runs(i)' <=> Runs(i))
      PROVE  Pending' = Pending
  BY <1>p, <1>a DEF PendingAre
<1>b. ASSUME UNCHANGED <<result, before, executed>>, Pending' = Pending
      PROVE  UNCHANGED Channel!vars
  BY <1>b DEF Channel!vars
<1>1. ASSUME NEW c \in Cmd, Call(c)
      PROVE  Channel!Issue(c)
  <2>1. mailbox' = Append(mailbox, c) /\ UNCHANGED <<bridge, conns>>
    BY <1>1 DEF Call
  <2>2. /\ DOMAIN mailbox' = 1..(Len(mailbox) + 1) /\ mailbox'[Len(mailbox) + 1] = c
        /\ \A j \in DOMAIN mailbox : mailbox'[j] = mailbox[j]
        /\ DOMAIN mailbox = 1..Len(mailbox) /\ Len(mailbox) \in Nat
        /\ mailbox' # <<>> /\ mailbox' \in Seq(Cmd)
    BY <2>1, MailDoes, Members
  <2>3. mailbox # <<>> => Head(mailbox) = mailbox[1] /\ mailbox'[1] = mailbox[1]
    BY <2>2, Members
  <2>4. Head(mailbox') = mailbox'[1]
    BY <2>2
  <2>5. \A i \in DOMAIN conns : Runs(i)' <=> Runs(i)
    BY <2>1, <2>2, <2>3, <2>4 DEF Runs, Mine, Types
  <2>6. Len(mailbox) + 1 > 1 \/ bridge = "connect"
    BY <2>2, EmptySeq DEF Types
  <2>7. \A d : (\E j \in DOMAIN mailbox' : mailbox'[j] = d /\ (j > 1 \/ bridge' = "connect"))
            <=> \/ d = c
                \/ \E j \in DOMAIN mailbox : mailbox[j] = d /\ (j > 1 \/ bridge = "connect")
    <3>1. \A j \in DOMAIN mailbox' : j \in DOMAIN mailbox \/ j = Len(mailbox) + 1
      BY <2>2
    <3>2. Len(mailbox) + 1 \in DOMAIN mailbox' /\ DOMAIN mailbox \subseteq DOMAIN mailbox'
      BY <2>2
    <3> QED
      BY <2>1, <2>2, <2>6, <3>1, <3>2
  <2>8. Pending' = Pending \cup {c}
    BY <1>p, <2>1, <2>5, <2>7 DEF PendingAre
  <2> QED
    BY <1>1, <2>8 DEF Call, listener, Channel!Issue
<1>2. ASSUME NEW c \in Cmd, Timeout(c)
      PROVE  Channel!Answer(c)
  <2>1. Pending' = Pending
    BY <1>2, <1>a DEF Timeout, Runs, Mine
  <2> QED
    BY <1>2, <2>1 DEF Timeout, listener, Channel!Answer
<1>3. CASE Connect
  <2>1. /\ bridge = "connect" /\ bridge' = "send" /\ UNCHANGED <<mailbox, result, before, executed>>
        /\ conns' = Append(conns, Open(mailbox[1])) /\ mailbox[1] \in Cmd
        /\ 1 \in DOMAIN mailbox /\ mailbox # <<>> /\ Head(mailbox) = mailbox[1]
    BY <1>3, Members DEF Connect, listener
  <2>2. /\ \A i \in DOMAIN conns : conns'[i] = conns[i]
        /\ conns'[Len(conns) + 1] = Open(mailbox[1]) /\ Len(conns) \in Nat
        /\ DOMAIN conns' = 1..(Len(conns) + 1) /\ DOMAIN conns = 1..Len(conns)
    BY <2>1, OpenDoes, Members
  <2>3. /\ \A i \in DOMAIN conns' : i \in DOMAIN conns \/ i = Len(conns) + 1
        /\ DOMAIN conns \subseteq DOMAIN conns' /\ Len(conns) + 1 \in DOMAIN conns'
    BY <2>2
  <2>4. \A i \in DOMAIN conns : Runs(i)' <=> Runs(i)
    BY <2>1, <2>2, Distinct DEF Runs, Mine
  <2>5. PICK k : k = Len(conns) + 1
    OBVIOUS
  <2>6. Runs(k)' /\ conns'[k].cmd = mailbox[1]
    BY <2>1, <2>2, <2>3, <2>5 DEF Runs, Mine, Open
  <2>7. \A c : (\E i \in DOMAIN conns' : conns'[i].cmd = c /\ Runs(i)')
           <=> c = mailbox[1] \/ \E i \in DOMAIN conns : conns[i].cmd = c /\ Runs(i)
    BY <2>2, <2>3, <2>4, <2>5, <2>6
  <2>8. \A c : (\E j \in DOMAIN mailbox : mailbox[j] = c)
           <=> c = mailbox[1] \/ \E j \in DOMAIN mailbox : mailbox[j] = c /\ j > 1
    <3>1. \A j \in DOMAIN mailbox : j > 1 \/ j = 1
      BY Members
    <3> QED
      BY <2>1, <3>1
  <2>9. \A c : c \in Pending' <=> c \in Pending
    <3>1. \A c : c \in Pending' <=>
            \/ \E i \in DOMAIN conns' : conns'[i].cmd = c /\ Runs(i)'
            \/ \E j \in DOMAIN mailbox : mailbox[j] = c /\ j > 1
      BY <1>p, <2>1 DEF PendingAre
    <3>2. \A c : c \in Pending <=>
            \/ \E i \in DOMAIN conns : conns[i].cmd = c /\ Runs(i)
            \/ \E j \in DOMAIN mailbox : mailbox[j] = c
      BY <1>p, <2>1 DEF PendingAre
    <3> QED
      BY <2>7, <2>8, <3>1, <3>2
  <2> QED
    BY <1>b, <2>1, <2>9
\* A reply takes the head out of the mailbox.
<1>c. ASSUME NEW r \in {"ok", "error"}, mailbox # <<>>, Reply(r)
      PROVE  \A c : (\E j \in DOMAIN mailbox' : mailbox'[j] = c)
                 <=> \E j \in DOMAIN mailbox : mailbox[j] = c /\ j > 1
  <2>1. /\ DOMAIN mailbox' = 1..(Len(mailbox) - 1)
        /\ \A j \in DOMAIN mailbox' : mailbox'[j] = mailbox[j + 1]
        /\ DOMAIN mailbox = 1..Len(mailbox) /\ Len(mailbox) \in Nat
    BY <1>c, MailDoes, Members DEF Reply
  <2>2. /\ \A j \in DOMAIN mailbox' : j + 1 \in DOMAIN mailbox /\ j + 1 > 1
        /\ \A j \in DOMAIN mailbox : j > 1 => j - 1 \in DOMAIN mailbox' /\ (j - 1) + 1 = j
    BY <2>1
  <2> QED
    BY <2>1, <2>2
<1>4. CASE ConnectFails
  <2>1. /\ bridge = "connect" /\ bridge' = "connect" /\ UNCHANGED <<conns, before, executed>>
        /\ mailbox # <<>> /\ Head(mailbox) = mailbox[1] /\ mailbox[1] \in Cmd
        /\ 1 \in DOMAIN mailbox /\ Reply("error")
    BY <1>4, Members DEF ConnectFails, Reply, listener
  <2>2. \A i \in DOMAIN conns : Runs(i)' <=> Runs(i)
    BY <2>1 DEF Runs
  <2>3. /\ \A i \in DOMAIN conns : conns[i].cmd # mailbox[1]
        /\ \A j \in DOMAIN mailbox : mailbox[j] # mailbox[1] <=> j > 1
    BY <2>1, Distinct, Members
  <2>4. Pending' = Pending \ {mailbox[1]} /\ mailbox[1] \in Pending
    BY <1>c, <1>p, <2>1, <2>2, <2>3 DEF PendingAre
  <2>5. Channel!Refuse(mailbox[1])
    BY <2>1, <2>4 DEF Reply, Channel!Refuse
  <2> QED
    BY <2>1, <2>5 DEF Channel!Next
<1>5. CASE Send
  <2>1. \A i \in DOMAIN conns : Runs(i)' <=> Runs(i)
    <3>1. bridge = "send" /\ bridge' = "close"
      BY <1>5 DEF Send
    <3>2. ASSUME NEW i \in DOMAIN conns
          PROVE  Runs(i)' <=> conns'[i].left \in {<<"newline">>, Line}
      BY <3>1 DEF Runs
    <3> QED
      BY <1>5, <3>1, <3>2, SendDoes DEF Runs
  <2>2. /\ bridge # "connect" /\ bridge' # "connect"
        /\ UNCHANGED <<mailbox, result, before, executed>>
    BY <1>5 DEF Send, listener
  <2>3. DOMAIN conns' = DOMAIN conns /\ \A i \in DOMAIN conns : conns'[i].cmd = conns[i].cmd
    BY <1>5, SendDoes DEF Retouched
  <2>4. \A c : c \in Pending' <=> c \in Pending
    BY <1>p, <2>1, <2>2, <2>3 DEF PendingAre
  <2> QED
    BY <1>b, <2>2, <2>4
<1>6. CASE Close
  <2>1. /\ bridge = "close" /\ bridge' = "connect" /\ UNCHANGED <<before, executed>>
        /\ mailbox # <<>> /\ Head(mailbox) \in Cmd /\ Reply("ok")
    BY <1>6, Members DEF Close, Reply, listener, Types
  <2>2. \A i \in DOMAIN conns : Runs(i)' <=> Runs(i)
    BY <1>6, <2>1, CloseDoes DEF Runs
  <2>3. Pending' = Pending
    <3>1. DOMAIN conns' = DOMAIN conns /\ \A i \in DOMAIN conns : conns'[i].cmd = conns[i].cmd
      BY <1>6, CloseDoes DEF Retouched
    <3>2. \A c : (\E j \in DOMAIN mailbox' : mailbox'[j] = c)
             <=> \E j \in DOMAIN mailbox : mailbox[j] = c /\ j > 1
      BY <1>c, <2>1
    <3>3. \A c : c \in Pending' <=> c \in Pending
      BY <1>p, <2>1, <2>2, <3>1, <3>2 DEF PendingAre
    <3> QED
      BY <3>3
  <2>4. CASE result[Head(mailbox)] = "waits"
    <3>1. Channel!Answer(Head(mailbox))
      BY <2>1, <2>3, <2>4 DEF Reply, Channel!Answer
    <3> QED
      BY <2>1, <3>1 DEF Channel!Next
  <2>5. CASE result[Head(mailbox)] # "waits"
    BY <1>b, <2>1, <2>3, <2>5 DEF Reply
  <2> QED
    BY <2>4, <2>5
<1>7. CASE Accept
  BY <1>7, <1>a, <1>b DEF Accept, elixir, Runs, Mine
<1>8. CASE Recv
  <2>1. /\ 1 \in DOMAIN conns /\ DOMAIN conns' = DOMAIN conns /\ Head(conns) = conns[1]
        /\ conns'[1].left = Tail(conns[1].left) /\ conns[1].left \in Left \ {<<>>}
        /\ \A i \in DOMAIN conns : /\ conns'[i].cmd = conns[i].cmd
                                   /\ i # 1 => conns'[i] = conns[i]
        /\ conns[1].cmd \in Cmd
    BY <1>0, <1>8, RecvDoes DEF Retouched, Buffer
  <2>2. UNCHANGED <<result, mailbox, bridge, before>> /\ Mine' = Mine
    BY <1>8, <2>1 DEF Recv, elixir, Mine
  <2>3. \A i \in DOMAIN conns : i # 1 => (Runs(i)' <=> Runs(i))
    BY <2>1, <2>2 DEF Runs
  <2>4. ~(bridge = "send" /\ 1 \in Mine)
    BY <2>1 DEF Buffer
  <2>5. CASE Head(conns[1].left) = "text"
    <3>1. Runs(1)' <=> Runs(1)
      <4>1. conns[1].left \in {<<"text">>, Line}
        BY <2>1, <2>5, Lefts DEF Left
      <4> QED
        BY <2>1, <2>2, <2>4, <4>1, Lefts DEF Runs
    <3>2. Pending' = Pending
      BY <1>a, <2>1, <2>2, <2>3, <3>1
    <3>3. executed' = executed
      BY <1>8, <2>1, <2>5 DEF Recv
    <3> QED
      BY <1>b, <2>2, <3>2, <3>3
  <2>6. CASE Head(conns[1].left) # "text"
    <3>1. conns[1].left = <<"newline">> /\ conns'[1].left = <<>>
      BY <2>1, <2>6, Lefts DEF Left
    <3>2. Runs(1) /\ ~Runs(1)'
      BY <2>1, <2>2, <2>4, <3>1, Lefts DEF Runs
    <3>3. buf # <<>> /\ Head(buf) = conns[1].cmd
      BY <2>1, <3>1 DEF Buffer
    <3>4. executed' = Append(executed, conns[1].cmd)
      BY <1>8, <2>1, <2>6, <3>3 DEF Recv, handle_command
    <3>5. /\ \A i \in DOMAIN conns : i # 1 => conns[i].cmd # conns[1].cmd
          /\ \A j \in DOMAIN mailbox :
               j > 1 \/ bridge = "connect" => mailbox[j] # conns[1].cmd
      BY <2>1, Distinct
    <3>6. Pending' = Pending \ {conns[1].cmd} /\ conns[1].cmd \in Pending
      BY <1>p, <2>1, <2>2, <2>3, <3>2, <3>5 DEF PendingAre
    <3>7. ASSUME NEW c \in Pending
          PROVE  c \notin before[conns[1].cmd]
      <4>1. CASE c = conns[1].cmd
        BY <2>1, <4>1, Distinct
      <4>2. ASSUME NEW i \in DOMAIN conns, i # 1, conns[i].cmd = c, c \in Cmd
            PROVE  conns[1].cmd \in before[c]
        <5>1. 1 < i
          BY <4>2, Members
        <5> QED
          BY <2>1, <4>2, <5>1 DEF Order
      <4>3. ASSUME NEW j \in DOMAIN mailbox, j > 1 \/ bridge = "connect", mailbox[j] = c
            PROVE  conns[1].cmd \in before[c]
        BY <2>1, <4>3, Distinct DEF Order
      <4>4. c \in Cmd
        BY <1>p DEF PendingAre
      <4>5. c = conns[1].cmd \/ conns[1].cmd \in before[c]
        BY <1>p, <4>2, <4>3, <4>4 DEF PendingAre
      <4> QED
        BY <2>1, <4>1, <4>4, <4>5 DEF Order
    <3>8. Channel!Execute(conns[1].cmd)
      BY <2>2, <3>4, <3>6, <3>7 DEF Channel!Execute
    <3> QED
      BY <2>1, <3>8 DEF Channel!Next
  <2> QED
    BY <2>5, <2>6
<1>9. CASE EndOfConnection
  <2>1. /\ conns # <<>> /\ conns' = Tail(conns) /\ 1 \in DOMAIN conns
        /\ conns[1].left = <<>> /\ conns[1].fin
        /\ UNCHANGED <<result, mailbox, bridge, before, executed>>
    BY <1>9, Members DEF EndOfConnection, AtEnd, elixir, Types
  <2>2. /\ \A i \in DOMAIN conns' : i + 1 \in DOMAIN conns /\ conns'[i] = conns[i + 1]
        /\ \A i \in DOMAIN conns : i # 1 => i - 1 \in DOMAIN conns' /\ (i - 1) + 1 = i
    BY <2>1, NextDoes, Members
  <2>3. ~Runs(1)
    BY <2>1, Lefts DEF Runs
  <2>4. \A i \in DOMAIN conns' : Runs(i)' <=> Runs(i + 1)
    BY <2>1, <2>2 DEF Runs, Mine
  <2>5. \A c : (\E i \in DOMAIN conns' : conns'[i].cmd = c /\ Runs(i)')
           <=> \E i \in DOMAIN conns : conns[i].cmd = c /\ Runs(i)
    BY <2>2, <2>3, <2>4
  <2>6. \A c : c \in Pending' <=> c \in Pending
    BY <1>p, <2>1, <2>5 DEF PendingAre
  <2> QED
    BY <1>b, <2>1, <2>6
<1>10. ASSUME NEW i \in DOMAIN conns, Break(i)
       PROVE  Channel!Lose
  <2>1. PICK n \in 0..Len(conns[i].left) : conns'[i].left = SubSeq(conns[i].left, 1, n)
    BY <1>10, BreakDoes
  <2>2. \/ conns'[i].left \in {conns[i].left, <<>>}
        \/ conns[i].left = Line /\ conns'[i].left = <<"text">>
    BY <1>0, <2>1, Parts
  <2>3. /\ \A j \in DOMAIN conns : /\ conns'[j].cmd = conns[j].cmd
                                   /\ j # i => conns'[j] = conns[j]
        /\ DOMAIN conns' = DOMAIN conns /\ conns'[i].fin
    BY <1>10, BreakDoes DEF Retouched
  <2>4. UNCHANGED <<result, mailbox, bridge, before, executed>>
    BY <1>10 DEF Break, elixir, listener
  <2>5. \A j \in DOMAIN conns : Runs(j)' => Runs(j)
    BY <2>2, <2>3, <2>4, Lefts DEF Runs, Mine
  <2>6. Pending' \subseteq Pending
    BY <1>p, <2>3, <2>4, <2>5 DEF PendingAre
  <2> QED
    BY <2>4, <2>6 DEF Channel!Lose
<1>11. CASE Crash
  <2>1. DOMAIN conns' = {} /\ UNCHANGED <<result, mailbox, bridge, before, executed>>
    BY <1>11 DEF Crash, elixir
  <2>2. Pending' \subseteq Pending
    BY <1>p, <2>1 DEF PendingAre
  <2>3. Channel!Lose
    BY <2>1, <2>2 DEF Channel!Lose
  <2> QED
    BY <2>3 DEF Channel!Next
<1>12. CASE Start
  BY <1>12, <1>a, <1>b DEF Start, elixir, listener, Runs, Mine
<1>13. CASE StrangerConnects
  <2>1. /\ conns' = Append(conns, Open(NoCmd))
        /\ UNCHANGED <<result, mailbox, bridge, before, executed>>
    BY <1>13 DEF StrangerConnects, elixir, listener
  <2>2. /\ \A i \in DOMAIN conns : conns'[i] = conns[i]
        /\ conns'[Len(conns) + 1].left = <<>> /\ conns'[Len(conns) + 1].cmd = NoCmd
        /\ DOMAIN conns' = 1..(Len(conns) + 1) /\ DOMAIN conns = 1..Len(conns)
    BY <2>1, OpenDoes, Members DEF Open
  <2>3. /\ \A i \in DOMAIN conns' : i \in DOMAIN conns \/ i = Len(conns) + 1
        /\ DOMAIN conns \subseteq DOMAIN conns'
    BY <2>2, Members
  <2>4. \A i \in DOMAIN conns : Runs(i)' <=> Runs(i)
    BY <2>1, <2>2, <2>3 DEF Runs, Mine
  <2>5. mailbox # <<>> => Head(mailbox) # NoCmd
    BY <1>0, Members
  <2>6. PICK k : k = Len(conns) + 1
    OBVIOUS
  <2>7. ~Runs(k)'
    BY <2>1, <2>2, <2>5, <2>6, Lefts DEF Runs, Mine
  <2>8. \A c : (\E i \in DOMAIN conns' : conns'[i].cmd = c /\ Runs(i)')
           <=> \E i \in DOMAIN conns : conns[i].cmd = c /\ Runs(i)
    BY <2>2, <2>3, <2>4, <2>6, <2>7
  <2>9. \A c : c \in Pending' <=> c \in Pending
    BY <1>p, <2>1, <2>8 DEF PendingAre
  <2> QED
    BY <1>b, <2>1, <2>9
<1>14. CASE StrangerLeaves
  <2>1. UNCHANGED <<result, mailbox, bridge, before, executed>>
    BY <1>14 DEF StrangerLeaves, elixir, listener
  <2>2. PICK s \in Strangers : \A j \in DOMAIN conns : /\ conns'[j].left = conns[j].left
                                                       /\ j # s => conns'[j] = conns[j]
    BY <1>14, LeavesDoes
  <2>3. DOMAIN conns' = DOMAIN conns /\ \A i \in DOMAIN conns : conns'[i].cmd = conns[i].cmd
    BY <1>14, LeavesDoes DEF Retouched
  <2>4. s \notin Mine
    BY <1>0 DEF Strangers
  <2>5. Mine' = Mine
    BY <2>1, <2>3 DEF Mine
  <2>6. \A i \in DOMAIN conns : Runs(i)' <=> Runs(i)
    BY <2>1, <2>2, <2>4, <2>5 DEF Runs
  <2> QED
    BY <1>a, <1>b, <2>1, <2>3, <2>6
<1>15. CASE UNCHANGED vars
  BY <1>15, <1>a, <1>b DEF vars, Runs, Mine
<1> QED
  BY <1>1, <1>2, <1>3, <1>4, <1>5, <1>6, <1>7, <1>8, <1>9, <1>10, <1>11, <1>12, <1>13, <1>14,
     <1>15 DEF Next, Bridge, Listener, Channel!Next

-----------------------------------------------------------------------------
(* What was executed.                                                      *)

\* The steps of the channel, and the order of the calls, keep what was executed
\* in order.
LEMMA DoneStep ==
    ASSUME Types, Types', Buffer, Buffer', Order, Done, [Channel!Next]_(Channel!vars)
    PROVE  Done'
<1>p. PendingAre /\ PendingAre'
  BY PendingIs, PTL
<1>0. /\ \A c \in Pending : c \in Cmd /\ Called(c)
      /\ Len(executed) \in Nat /\ DOMAIN executed = 1..Len(executed)
      /\ \A i \in DOMAIN executed : executed[i] \in Cmd
  <2>1. /\ \A i \in DOMAIN conns : conns[i].cmd \in Cmd => Called(conns[i].cmd)
        /\ \A j \in DOMAIN mailbox : Called(mailbox[j])
    BY CommandAssumption DEF Order
  <2>2. \A c \in Pending : c \in Cmd /\ Called(c)
    BY <1>p, <2>1 DEF PendingAre
  <2> QED
    BY <2>2, LenProperties DEF Types
<1>1. ASSUME NEW c \in Cmd, Channel!Issue(c)
      PROVE  Done'
  <2>1. /\ result[c] = "none" /\ executed' = executed /\ Pending' = Pending \cup {c}
        /\ result'[c] = "waits" /\ \A d \in Cmd : d # c => result'[d] = result[d]
        /\ before'[c] = {d \in Cmd : Called(d)} /\ \A d \in Cmd : d # c => before'[d] = before[d]
    BY <1>1 DEF Channel!Issue, Types, Called
  <2>2. \A i \in DOMAIN executed : executed[i] # c /\ Called(executed[i])
    BY <2>1 DEF Done, Called
  <2> QED
    BY <1>0, <2>1, <2>2 DEF Done, Called
<1>a. ASSUME UNCHANGED <<before, executed>>, Pending' \subseteq Pending,
             \A c \in Cmd : \/ result'[c] = result[c]
                            \/ Called(c)' /\ (result'[c] = "error" =>
                                 c \notin Pending' /\ \A i \in DOMAIN executed : executed[i] # c)
      PROVE  Done'
  BY <1>0, <1>a DEF Done, Called
<1>2. ASSUME NEW c \in Cmd, Channel!Answer(c)
      PROVE  Done'
  <2>1. \A d \in Cmd : result'[d] = result[d] \/ result'[d] \in {"ok", "timeout"}
    BY <1>2 DEF Channel!Answer, Types
  <2> QED
    BY <1>2, <1>a, <2>1 DEF Channel!Answer, Called
<1>3. ASSUME NEW c \in Cmd, Channel!Refuse(c)
      PROVE  Done'
  <2>1. \A d \in Cmd : result'[d] = result[d] \/ (d = c /\ result'[d] = "error")
    <3>1. result \in [Cmd -> Results]
      BY DEF Types
    <3>2. result' = IF result[c] = "waits" THEN [result EXCEPT ![c] = "error"] ELSE result
      BY <1>3 DEF Channel!Refuse
    <3> QED
      BY <3>1, <3>2
  <2>2. c \in Pending /\ Pending' = Pending \ {c} /\ UNCHANGED <<before, executed>>
    BY <1>3 DEF Channel!Refuse
  <2>3. \A i \in DOMAIN executed : executed[i] # c
    BY <2>2, Distinct DEF Done
  <2> QED
    BY <1>a, <2>1, <2>2, <2>3 DEF Called
<1>4. ASSUME NEW c \in Cmd, Channel!Execute(c)
      PROVE  Done'
  <2>1. /\ c \in Pending /\ before[c] \cap Pending = {} /\ Pending' = Pending \ {c}
        /\ UNCHANGED <<result, before>> /\ executed' = Append(executed, c)
    BY <1>4 DEF Channel!Execute
  <2>2. /\ DOMAIN executed' = 1..(Len(executed) + 1) /\ executed'[Len(executed) + 1] = c
        /\ \A i \in DOMAIN executed : executed'[i] = executed[i]
    BY <1>0, <2>1, AppendProperties DEF Types
  <2>3. PICK k : k = Len(executed) + 1
    OBVIOUS
  <2>4. /\ \A i \in DOMAIN executed' : i \in DOMAIN executed \/ i = k
        /\ executed'[k] = c /\ \A i \in DOMAIN executed' : ~(k < i)
    BY <1>0, <2>2, <2>3
  <2>5. \A d \in Pending : d = c \/ c \in before[d]
    BY <1>0, <2>1 DEF Order
  <2>6. Called(c) /\ result[c] # "error"
    BY <1>0, <2>1 DEF Done
  <2>7. \A i \in DOMAIN executed', d \in Pending' : executed'[i] \in before[d]
    BY <2>1, <2>2, <2>4, <2>5 DEF Done
  <2>8. \A i, j \in DOMAIN executed' : i < j => executed'[i] \in before[executed'[j]]
    BY <2>1, <2>2, <2>4 DEF Done
  <2>9. \A i \in DOMAIN executed' : result[executed'[i]] # "none"
    BY <2>2, <2>4, <2>6 DEF Done, Called
  <2>10. \A d \in Cmd : result[d] = "error" =>
            d \notin Pending' /\ \A i \in DOMAIN executed' : executed'[i] # d
    BY <2>1, <2>2, <2>4, <2>6 DEF Done
  <2> QED
    BY <2>1, <2>7, <2>8, <2>9, <2>10 DEF Done, Called
<1>5. CASE Channel!Lose
  BY <1>5, <1>a DEF Channel!Lose
<1>6. CASE UNCHANGED Channel!vars
  BY <1>6, <1>a DEF Channel!vars
<1> QED
  BY <1>1, <1>2, <1>3, <1>4, <1>5, <1>6 DEF Channel!Next

-----------------------------------------------------------------------------

\* The way of the commands is at first empty.
LEMMA Start0 == Init => IInv
<1> SUFFICES ASSUME Init
             PROVE  IInv
  OBVIOUS
<1>1. /\ conns = <<>> /\ mailbox = <<>> /\ executed = <<>> /\ buf = <<>> /\ bridge = "connect"
      /\ reading = FALSE /\ DOMAIN conns = {} /\ DOMAIN mailbox = {} /\ DOMAIN executed = {}
      /\ result = [c \in Cmd |-> "none"] /\ before = [c \in Cmd |-> {}] /\ broken = {}
      /\ conns \in Seq(Conn) /\ mailbox \in Seq(Cmd) /\ executed \in Seq(Cmd) /\ Len(conns) = 0
  BY EmptySeq DEF Init
<1>2. Types
  <2>1. Waiting \in 0..Backlog
    BY <1>1, CommandAssumption DEF Waiting
  <2>2. result \in [Cmd -> Results] /\ before \in [Cmd -> SUBSET Cmd]
    BY <1>1 DEF Results
  <2> QED
    BY <1>1, <2>1, <2>2 DEF Types
<1> QED
  BY <1>1, <1>2 DEF IInv, Buffer, Order, Called, Done

\* In every state: the bridge's mailbox and the sniffer's queue of connections
\* keep to the order of the calls, buf holds the text of the connection being
\* read and of no other, and what was executed came before what may still be.
THEOREM Invariant == Spec => []IInv
<1>1. IInv /\ [Next]_vars => IInv'
  <2> SUFFICES ASSUME Types, Buffer, Order, Done, [Next]_vars
               PROVE  IInv'
    BY DEF IInv
  <2>1. Types'
    BY TypesStep
  <2>2. Buffer' /\ Order'
    BY <2>1, BufferStep, OrderStep
  <2>3. Done'
    BY <2>1, <2>2, ChannelStep, DoneStep
  <2> QED
    BY <2>1, <2>2, <2>3 DEF IInv
<1> QED
  BY <1>1, Start0, PTL DEF Spec

\* The queue of connections keeps within listen's backlog, and buf has one
\* command's text, of the connection that is read, when recv is called again.
THEOREM TypeCorrect == Spec => []TypeOK
<1>1. IInv => TypeOK
  BY Members DEF IInv, Types, Results, Buffer, TypeOK
<1> QED
  BY <1>1, Invariant, PTL

\* CppBridge and the command listener between them keep CommandChannel's
\* promise: through a full backlog, crashes, connections that break and callers
\* that give up, a command is executed once at most, after those called before
\* it that still can be, and never after connect_and_send returned an error.
THEOREM ImplementsChannel == Spec => ChannelSpec
<1>1. Init => Channel!Init
  <2> SUFFICES ASSUME Init
               PROVE  Channel!Init
    OBVIOUS
  <2>1. PendingAre
    BY Start0, PendingIs DEF IInv
  <2>2. Pending = {}
    BY <2>1 DEF PendingAre, Init
  <2> QED
    BY <2>2 DEF Init, Channel!Init
<1>2. IInv /\ IInv' /\ [Next]_vars => [Channel!Next]_(Channel!vars)
  BY ChannelStep DEF IInv
<1> QED
  BY <1>1, <1>2, Invariant, PTL DEF Spec, ChannelSpec, Channel!Spec

\* handle_command is called with a command once at most, with those executed
\* in the order in which their callers handed them over, and with none whose
\* caller was told of an error.
THEOREM ExecutedOnceInOrder == Spec => []OnceInOrder
<1>1. IInv => OnceInOrder
  <2> SUFFICES ASSUME Types, Order, Done
               PROVE  OnceInOrder
    BY DEF IInv
  <2>1. /\ \A i \in DOMAIN executed : executed[i] \in Cmd
        /\ \A i, j \in DOMAIN executed : i # j => i < j \/ j < i
    BY LenProperties DEF Types
  <2> QED
    BY <2>1, Distinct DEF Done, OnceInOrder
<1> QED
  BY <1>1, Invariant, PTL
=============================================================================
