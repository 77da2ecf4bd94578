------------------------------ MODULE RelayProofs ------------------------------
(***************************************************************************)
(* The relay passes every byte on once and in order and each end after the *)
(* bytes before it, for every number of bytes and every size of a queue.   *)
(***************************************************************************)
EXTENDS Relay, SequenceTheorems, TLAPS

\* p is a beginning of what side s wrote: the bytes 1, 2, ... up to some one.
Begins(p, s) == Len(p) <= wrote[s] /\ \A i \in 1..Len(p) : p[i] = i

\* Nothing of the stream of s is missing.
Whole(s) == Arrived(s) \o Underway(s) \o rq[s] = Written(s)

\* The part of StreamIntact that is inductive.  Once a connection is reset the
\* bytes it held are gone, but nothing more is put where they are missing.
Intact ==
    \A s \in Side :
        /\ ~failed /\ gone = {} => Whole(s)
        /\ Other(s) \notin gone => Begins(Arrived(s) \o Underway(s), s)
        /\ Begins(got[Other(s)], s)

\* Where the relay stands: it sends what came from an open side; a failure
\* closes both; a reset side, and one whose end was passed on, has nothing left.
Places ==
    /\ at = "send" => side \in open
    /\ failed => open = {}
    /\ \A s \in Side :
        /\ s \in gone => rq[s] = <<>>
        /\ Other(s) \in shut => s \notin open /\ rq[s] = <<>> /\ s \in fin \cup gone
        /\ s \notin open /\ ~failed => Other(s) \in shut

IInv == TypeOK /\ Places /\ Intact

-----------------------------------------------------------------------------
(* Sequences.                                                              *)

\* Taking the first of q and putting it after p leaves the whole as it was.
LEMMA PassOne ==
    ASSUME NEW S, NEW p \in Seq(S), NEW q \in Seq(S), q # <<>>
    PROVE  /\ Head(q) \in S /\ Tail(q) \in Seq(S) /\ Append(p, Head(q)) \in Seq(S)
           /\ Append(p, Head(q)) \o Tail(q) = p \o q
<1>1. Head(q) \in S /\ Tail(q) \in Seq(S) /\ <<Head(q)>> \in Seq(S)
  BY HeadTailProperties
<1>2. q = <<Head(q)>> \o Tail(q)
  <2>1. Len(q) \in Nat /\ 1 \in 1..Len(q) /\ Len(q) \in 1..Len(q)
    BY EmptySeq, LenProperties
  <2>2. SubSeq(q, 1, Len(q)) = <<q[1]>> \o SubSeq(q, 2, Len(q))
    BY <2>1, SubSeqRecursiveFirst
  <2> QED
    BY <2>2, SubSeqFull, TailIsSubSeq
<1>3. Append(p, Head(q)) = p \o <<Head(q)>>
  BY <1>1, AppendIsConcat
<1>4. Append(p, Head(q)) \in Seq(S)
  BY <1>1, AppendProperties
<1> QED
  BY <1>1, <1>2, <1>3, <1>4, ConcatAssociative

\* What is appended to the end of three parts is appended to the whole.
LEMMA AppendToLast ==
    ASSUME NEW S, NEW p \in Seq(S), NEW q \in Seq(S), NEW e \in S
    PROVE  p \o Append(q, e) = Append(p \o q, e)
BY ConcatAssociative, AppendIsConcat, ConcatProperties

\* The beginning of a beginning is one.
LEMMA BeginsShorter ==
    ASSUME NEW S, NEW p \in Seq(S), NEW q \in Seq(S), NEW s, wrote[s] \in Nat, Begins(p \o q, s)
    PROVE  Begins(p, s)
<1>1. Len(p) \in Nat /\ Len(q) \in Nat
  BY LenProperties
<1>2. /\ Len(p \o q) = Len(p) + Len(q)
      /\ \A i \in 1..Len(p) + Len(q) : (p \o q)[i] = IF i <= Len(p) THEN p[i] ELSE q[i - Len(p)]
  BY ConcatProperties
<1> QED
  BY <1>1, <1>2 DEF Begins

\* Written(s) begins with itself, and its beginnings are its prefixes.
LEMMA BeginsWritten ==
    ASSUME NEW s, wrote[s] \in 0..MaxBytes
    PROVE  /\ Written(s) \in Seq(Bytes) /\ Len(Written(s)) = wrote[s]
           /\ Begins(Written(s), s)
           /\ \A p \in Seq(Bytes) : Begins(p, s) => IsPrefix(p, Written(s))
<1>0. MaxBytes \in Nat /\ wrote[s] \in Nat
  BY RelayAssumption
<1>1. Written(s) \in Seq(Bytes) /\ Len(Written(s)) = wrote[s]
  BY <1>0 DEF Written, Bytes
<1>2. Begins(Written(s), s)
  BY <1>0, <1>1 DEF Begins, Written
<1>3. ASSUME NEW p \in Seq(Bytes), Begins(p, s)
      PROVE  IsPrefix(p, Written(s))
  <2>1. Len(p) \in Nat /\ Len(p) <= wrote[s] /\ \A i \in 1..Len(p) : p[i] = i
    BY <1>3 DEF Begins
  <2>2. SubSeq(p, 1, Len(p)) = p
    BY SubSeqFull
  <2>3. \A i \in 1..Len(p) : Written(s)[i] = i /\ i \in Bytes
    BY <1>0, <2>1, RelayAssumption DEF Written, Bytes
  <2>4. /\ SubSeq(Written(s), 1, Len(p)) \in Seq(Bytes)
        /\ Len(SubSeq(Written(s), 1, Len(p))) = Len(p)
        /\ \A i \in 1..Len(p) : SubSeq(Written(s), 1, Len(p))[i] = i
    BY <1>1, <2>1, <2>3
  <2>5. SubSeq(Written(s), 1, Len(p)) = p
    BY <2>1, <2>4, SeqEqual
  <2> QED
    BY <1>1, <2>1, <2>2, <2>5 DEF IsPrefix
<1> QED
  BY <1>1, <1>2, <1>3

-----------------------------------------------------------------------------
(* Types.                                                                  *)

\* Every step keeps every variable in its type.
LEMMA TypeStep ==
    ASSUME TypeOK, [Next]_vars
    PROVE  TypeOK'
<1> USE RelayAssumption DEF TypeOK
<1>0. /\ rq \in [Side -> Seq(Bytes)] /\ wq \in [Side -> Seq(Bytes)]
      /\ got \in [Side -> Seq(Bytes)] /\ Other(side) \in Side
  BY DEF Other, Side
<1>1. ASSUME NEW s \in Side, Write(s)
      PROVE  TypeOK'
  <2>1. wrote[s] + 1 \in Bytes /\ wrote[s] + 1 \in 0..MaxBytes /\ wrote[s] + 1 = wrote'[s]
    BY <1>1 DEF Write, Bytes
  <2>2. /\ Append(rq[s], wrote'[s]) \in Seq(Bytes)
        /\ Len(Append(rq[s], wrote'[s])) <= Room
    BY <1>0, <1>1, <2>1, AppendProperties, LenProperties DEF Write
  <2>3. rq' \in [Side -> Seq(Bytes)] /\ wrote' \in [Side -> 0..MaxBytes]
    BY <1>0, <1>1, <2>1, <2>2 DEF Write
  <2>4. \A t \in Side : Len(rq'[t]) <= Room /\ Len(wq'[t]) <= Room
    BY <1>0, <1>1, <2>2 DEF Write
  <2> QED
    BY <1>0, <1>1, <2>3, <2>4 DEF Write, relayVars
<1>2. ASSUME NEW s \in Side, Finish(s)
      PROVE  TypeOK'
  BY <1>2 DEF Finish, relayVars
<1>3. ASSUME NEW s \in Side, Read(s)
      PROVE  TypeOK'
  <2>1. /\ Append(got[s], Head(wq[s])) \in Seq(Bytes) /\ Tail(wq[s]) \in Seq(Bytes)
        /\ Len(Tail(wq[s])) <= Room
    BY <1>0, <1>3, AppendProperties, HeadTailProperties, LenProperties DEF Read
  <2>2. got' \in [Side -> Seq(Bytes)] /\ wq' \in [Side -> Seq(Bytes)]
    BY <1>0, <1>3, <2>1 DEF Read
  <2>3. \A t \in Side : Len(rq'[t]) <= Room /\ Len(wq'[t]) <= Room
    BY <1>0, <1>3, <2>1 DEF Read
  <2> QED
    BY <1>0, <1>3, <2>2, <2>3 DEF Read, relayVars
<1>4. ASSUME NEW s \in Side, Reset(s)
      PROVE  TypeOK'
  <2>1. <<>> \in Seq(Bytes) /\ Len(<<>>) = 0
    BY EmptySeq
  <2>2. rq' \in [Side -> Seq(Bytes)] /\ wq' \in [Side -> Seq(Bytes)]
    BY <1>0, <1>4, <2>1 DEF Reset
  <2>3. \A t \in Side : Len(rq'[t]) <= Room /\ Len(wq'[t]) <= Room
    BY <1>0, <1>4, <2>1 DEF Reset
  <2> QED
    BY <1>0, <1>4, <2>2, <2>3 DEF Reset, relayVars
<1>5. CASE Select
  BY <1>5 DEF Select, peerVars, Side
<1>6. CASE IdleTimeout
  BY <1>6 DEF IdleTimeout, peerVars
<1>7. CASE BothClosed
  BY <1>7 DEF BothClosed, peerVars
<1>8. CASE Skip
  BY <1>8 DEF Skip, NextTurn, peerVars, Side
<1>9. CASE RecvEnd
  BY <1>0, <1>9 DEF RecvEnd, NextTurn, peerVars, Side
<1>10. CASE Recv
  <2>1. PICK n \in 1..Len(rq[side]) :
            /\ buf' = SubSeq(rq[side], 1, n)
            /\ rq' = [rq EXCEPT ![side] = SubSeq(@, n + 1, Len(@))]
    BY <1>10 DEF Recv
  <2>2. /\ buf' \in Seq(Bytes) /\ buf' # <<>>
        /\ SubSeq(rq[side], n + 1, Len(rq[side])) \in Seq(Bytes)
        /\ Len(SubSeq(rq[side], n + 1, Len(rq[side]))) <= Room
    <3>1. rq[side] \in Seq(Bytes) /\ Len(rq[side]) \in Nat
      BY <1>0, LenProperties
    <3>2. \A i \in 1..Len(rq[side]) : rq[side][i] \in Bytes
      BY <3>1, ElementOfSeq
    <3>3. SubSeq(rq[side], 1, n) \in Seq(Bytes) /\ Len(SubSeq(rq[side], 1, n)) = n
      BY <3>1, <3>2, SubSeqProperties
    <3>4. /\ SubSeq(rq[side], n + 1, Len(rq[side])) \in Seq(Bytes)
          /\ Len(SubSeq(rq[side], n + 1, Len(rq[side]))) <= Len(rq[side])
      BY <3>1, <3>2, SubSeqProperties
    <3>5. n # 0 /\ Len(<<>>) = 0
      BY <3>1, EmptySeq
    <3>6. buf' \in Seq(Bytes) /\ buf' # <<>>
      BY <2>1, <3>3, <3>5
    <3>7. Len(rq[side]) <= Room
      BY <1>0
    <3>8. Len(SubSeq(rq[side], n + 1, Len(rq[side]))) <= Room
      BY <3>1, <3>4, <3>7, LenProperties
    <3> QED
      BY <3>4, <3>6, <3>8
  <2>3. rq' \in [Side -> Seq(Bytes)]
    BY <1>0, <2>1, <2>2
  <2>4. \A t \in Side : Len(rq'[t]) <= Room /\ Len(wq'[t]) <= Room
    BY <1>0, <1>10, <2>1, <2>2 DEF Recv
  <2> QED
    BY <1>0, <1>10, <2>2, <2>3, <2>4 DEF Recv, peerVars
<1>11. CASE Send
  <2>1. /\ Append(wq[Dst], Head(buf)) \in Seq(Bytes) /\ Tail(buf) \in Seq(Bytes)
        /\ Len(Append(wq[Dst], Head(buf))) <= Room
    BY <1>0, <1>11, AppendProperties, HeadTailProperties, LenProperties DEF Send, Dst
  <2>2. wq' \in [Side -> Seq(Bytes)]
    BY <1>0, <1>11, <2>1 DEF Send
  <2>3. \A t \in Side : Len(rq'[t]) <= Room /\ Len(wq'[t]) <= Room
    BY <1>0, <1>11, <2>1 DEF Send, Dst
  <2>4. /\ at' \in {"select", "recv", "send", "done"} /\ side' \in Side
        /\ (at' = "send" <=> buf' # <<>>)
    BY <1>11 DEF Send, NextTurn, Side
  <2> QED
    BY <1>0, <1>11, <2>1, <2>2, <2>3, <2>4 DEF Send, peerVars
<1>12. CASE SendFails
  BY <1>0, <1>12, EmptySeq DEF SendFails, NextTurn, peerVars, Side
<1>13. CASE UNCHANGED vars
  BY <1>13 DEF vars
<1> QED
  BY <1>1, <1>2, <1>3, <1>4, <1>5, <1>6, <1>7, <1>8, <1>9, <1>10, <1>11, <1>12, <1>13
     DEF Next, relay, Peer, Closed

\* The queues keep to their room, and the relay sends exactly while it has
\* something to send, whatever the peers do.
THEOREM TypeCorrect == Spec => []TypeOK
<1>1. Init => TypeOK
  <2>1. <<>> \in Seq(Bytes) /\ Len(<<>>) = 0 /\ Len(<<>>) <= Room
    BY RelayAssumption, EmptySeq
  <2>2. 0 \in 0..MaxBytes
    BY RelayAssumption
  <2>3. [s \in Side |-> <<>>] \in [Side -> Seq(Bytes)]
    BY <2>1
  <2>4. [s \in Side |-> 0] \in [Side -> 0..MaxBytes]
    BY <2>2
  <2> QED
    BY <2>1, <2>3, <2>4 DEF Init, TypeOK, Side
<1>2. TypeOK /\ [Next]_vars => TypeOK'
  BY TypeStep
<1> QED
  BY <1>1, <1>2, PTL DEF Spec

-----------------------------------------------------------------------------
(* The stream.                                                             *)

\* Every reachable step keeps the relay in its places.
LEMMA PlacesStep ==
    ASSUME TypeOK, Places, [Next]_vars
    PROVE  Places'
<1> USE DEF Places
<1>0. /\ rq \in [Side -> Seq(Bytes)] /\ side \in Side /\ Other(side) \in Side
      /\ \A s \in Side : Other(s) # s /\ Other(s) \in Side /\ Other(Other(s)) = s
  BY DEF TypeOK, Other, Side
<1>1. ASSUME NEW s \in Side, Write(s)
      PROVE  Places'
  <2>1. \A t \in Side : rq'[t] = IF t = s THEN Append(rq[s], wrote'[s]) ELSE rq[t]
    BY <1>0, <1>1 DEF Write
  <2>2. s \notin fin \cup gone
    BY <1>1 DEF Write
  <2> QED
    BY <1>0, <1>1, <2>1, <2>2 DEF Write, relayVars
<1>2. ASSUME NEW s \in Side, Finish(s)
      PROVE  Places'
  BY <1>0, <1>2 DEF Finish, relayVars
<1>3. ASSUME NEW s \in Side, Read(s)
      PROVE  Places'
  BY <1>0, <1>3 DEF Read, relayVars
<1>4. ASSUME NEW s \in Side, Reset(s)
      PROVE  Places'
  <2>1. \A t \in Side : rq'[t] = IF t = s THEN <<>> ELSE rq[t]
    BY <1>0, <1>4 DEF Reset
  <2> QED
    BY <1>0, <1>4, <2>1 DEF Reset, relayVars
<1>5. CASE Select \/ IdleTimeout \/ BothClosed \/ Skip
  <2>1. at' # "send" /\ UNCHANGED <<open, shut, failed, rq, fin, gone>>
    BY <1>5 DEF Select, IdleTimeout, BothClosed, Skip, NextTurn, peerVars
  <2> QED
    BY <2>1
<1>6. CASE RecvEnd
  <2>1. /\ at' # "send" /\ UNCHANGED <<failed, rq, fin, gone>>
        /\ rq[side] = <<>> /\ side \in fin \cup gone
        /\ shut' = shut \cup {Other(side)} /\ open' = open \ {side}
    BY <1>6 DEF RecvEnd, NextTurn, peerVars
  <2> QED
    BY <1>0, <2>1
<1>7. CASE Recv
  <2>1. /\ side' = side /\ side \in open /\ rq[side] # <<>>
        /\ UNCHANGED <<open, shut, failed, fin, gone>>
    <3>1. Len(<<>>) = 0
      BY EmptySeq
    <3> QED
      BY <1>7, <3>1 DEF Recv, peerVars
  <2>2. \A t \in Side : t # side => rq'[t] = rq[t]
    BY <1>0, <1>7 DEF Recv
  <2> QED
    BY <1>0, <2>1, <2>2
<1>8. CASE Send
  <2>1. /\ at' = "send" => at = "send" /\ side' = side
        /\ UNCHANGED <<open, shut, failed, rq, fin, gone>>
    BY <1>8 DEF Send, NextTurn, peerVars
  <2> QED
    BY <2>1
<1>9. CASE SendFails
  <2>1. /\ at' # "send" /\ open' = {} /\ failed'
        /\ UNCHANGED <<shut, rq, fin, gone>>
    BY <1>9 DEF SendFails, NextTurn, peerVars
  <2> QED
    BY <2>1
<1>10. CASE UNCHANGED vars
  BY <1>10 DEF vars
<1> QED
  BY <1>1, <1>2, <1>3, <1>4, <1>5, <1>6, <1>7, <1>8, <1>9, <1>10
     DEF Next, relay, Peer, Closed

\* Under IInv no step loses, doubles or reorders a byte of either stream.
LEMMA IntactStep ==
    ASSUME TypeOK, TypeOK', Places, Intact, [Next]_vars
    PROVE  Intact'
<1>0. /\ rq \in [Side -> Seq(Bytes)] /\ wq \in [Side -> Seq(Bytes)]
      /\ got \in [Side -> Seq(Bytes)] /\ wrote \in [Side -> 0..MaxBytes]
      /\ buf \in Seq(Bytes) /\ <<>> \in Seq(Bytes)
      /\ side \in Side /\ gone \subseteq Side /\ MaxBytes \in Nat
  BY RelayAssumption, EmptySeq DEF TypeOK
<1>1. \A s \in Side : /\ Other(s) # s /\ Other(s) \in Side /\ Other(Other(s)) = s
                      /\ \A t \in Side : t = s \/ t = Other(s)
  BY DEF Other, Side
<1>2. \A s \in Side : /\ Arrived(s) \in Seq(Bytes) /\ Underway(s) \in Seq(Bytes)
                      /\ Arrived(s) \o Underway(s) \in Seq(Bytes)
  BY <1>0, <1>1, ConcatProperties DEF Arrived, Underway
<1>b. \A p \in Seq(Bytes), q \in Seq(Bytes), e \in Bytes :
        p \o Append(q, e) = Append(p \o q, e)
  BY AppendToLast
<1>c. \A p \in Seq(Bytes), q \in Seq(Bytes) :
        q # <<>> => /\ Head(q) \in Bytes /\ Tail(q) \in Seq(Bytes)
                    /\ Append(p, Head(q)) \in Seq(Bytes)
                    /\ Append(p, Head(q)) \o Tail(q) = p \o q
  BY PassOne
<1>d. \A p \in Seq(Bytes), q \in Seq(Bytes), r \in Seq(Bytes) : (p \o q) \o r = p \o (q \o r)
  BY ConcatAssociative
\* What leaves all of a stream where it was leaves it intact.
<1>a. ASSUME NEW s \in Side, UNCHANGED <<failed, gone, wrote, got>>,
             Arrived(s)' \o Underway(s)' = Arrived(s) \o Underway(s), rq'[s] = rq[s]
      PROVE  /\ ~failed' /\ gone' = {} => Whole(s)'
             /\ Other(s) \notin gone' => Begins(Arrived(s) \o Underway(s), s)'
             /\ Begins(got[Other(s)], s)'
  BY <1>a DEF Intact, Whole, Begins, Written
<1>3. ASSUME NEW s \in Side, Write(s)
      PROVE  Intact'
  <2>1. /\ UNCHANGED <<relayVars, wq, got, fin, gone>> /\ wrote'[s] = wrote[s] + 1
        /\ rq'[s] = Append(rq[s], wrote[s] + 1)
        /\ \A t \in Side : t # s => wrote'[t] = wrote[t] /\ rq'[t] = rq[t]
    BY <1>0, <1>3 DEF Write
  <2>2. \A t \in Side : Arrived(t)' = Arrived(t) /\ Underway(t)' = Underway(t)
    BY <2>1 DEF Arrived, Underway, relayVars
  <2>n. \A t \in Side : wrote[t] \in Nat /\ wrote'[t] \in Nat /\ wrote[t] <= wrote'[t]
    <3>1. \A t \in Side : wrote[t] \in Nat
      BY <1>0
    <3> QED
      BY <2>1, <3>1
  <2>3. ASSUME NEW t \in Side, NEW p \in Seq(Bytes), Begins(p, t)
        PROVE  Len(p) <= wrote'[t] /\ \A i \in 1..Len(p) : p[i] = i
    <3>1. Len(p) \in Nat /\ Len(p) <= wrote[t] /\ \A i \in 1..Len(p) : p[i] = i
      BY <2>3, LenProperties DEF Begins
    <3> QED
      BY <2>n, <3>1
  <2>4. ASSUME Whole(s) PROVE Whole(s)'
    <3>1. wrote[s] + 1 \in Bytes
      BY <1>0, <1>3 DEF Write, Bytes
    <3>2. Whole(s)' <=> Append(Written(s), wrote[s] + 1) = Written(s)'
      <4>1. Arrived(s) \o Underway(s) \in Seq(Bytes) /\ rq[s] \in Seq(Bytes)
        BY <1>0, <1>2
      <4>2. (Arrived(s) \o Underway(s)) \o Append(rq[s], wrote[s] + 1)
              = Append((Arrived(s) \o Underway(s)) \o rq[s], wrote[s] + 1)
        BY <1>b, <3>1, <4>1, Zenon
      <4>3. (Arrived(s) \o Underway(s)) \o rq[s] = Written(s)
        BY <2>4 DEF Whole
      <4> QED
        BY <2>1, <2>2, <4>2, <4>3 DEF Whole
    <3>3. Written(s) \in Seq(Bytes) /\ Len(Written(s)) = wrote[s]
      BY <1>0, BeginsWritten
    <3>4. /\ Append(Written(s), wrote[s] + 1) \in Seq(Bytes)
          /\ Len(Append(Written(s), wrote[s] + 1)) = wrote[s] + 1
          /\ \A i \in 1..wrote[s] + 1 : Append(Written(s), wrote[s] + 1)[i] = i
      BY <2>n, <3>1, <3>3, AppendProperties DEF Written
    <3>5. /\ Written(s)' \in Seq(Bytes)
          /\ Len(Written(s)') = wrote[s] + 1
          /\ \A i \in 1..wrote[s] + 1 : Written(s)'[i] = i
      <4>1. Written(s)' = [i \in 1..wrote[s] + 1 |-> i]
        BY <2>1 DEF Written
      <4>2. wrote[s] + 1 \in Nat /\ \A i \in 1..wrote[s] + 1 : i \in Bytes
        BY <1>0, <2>n, <3>1 DEF Bytes
      <4> QED
        BY <4>1, <4>2
    <3> QED
      BY <3>2, <3>4, <3>5, SeqEqual
  <2>5. \A t \in Side : t # s => (Whole(t)' <=> Whole(t))
    BY <2>1, <2>2 DEF Whole, Written
  <2>6. failed' = failed /\ gone' = gone /\ got' = got
    BY <2>1 DEF relayVars
  <2> QED
    <3>1. \A t \in Side : Whole(t) => Whole(t)'
      BY <2>4, <2>5
    <3>2. ASSUME NEW t \in Side
          PROVE  /\ Other(t) \notin gone => Begins(Arrived(t) \o Underway(t), t)'
                 /\ Begins(got[Other(t)], t)'
      <4>1. got[Other(t)] \in Seq(Bytes) /\ Arrived(t) \o Underway(t) \in Seq(Bytes)
        BY <1>0, <1>1, <1>2
      <4>2. Begins(got[Other(t)], t)'
        BY <2>3, <2>6, <4>1 DEF Intact, Begins
      <4>3. ASSUME Other(t) \notin gone
            PROVE  Begins(Arrived(t) \o Underway(t), t)'
        <5>1. Begins(Arrived(t) \o Underway(t), t)
          BY <4>3 DEF Intact
        <5> QED
          BY <2>2, <2>3, <4>1, <5>1 DEF Begins
      <4> QED
        BY <4>2, <4>3
    <3> QED
      BY <2>6, <3>1, <3>2 DEF Intact
<1>4. ASSUME NEW s \in Side, Finish(s)
      PROVE  Intact'
  BY <1>4 DEF Finish, relayVars, Intact, Whole, Begins, Arrived, Underway, Written
<1>5. ASSUME NEW r \in Side, Read(r)
      PROVE  Intact'
  <2> DEFINE s == Other(r)
  <2>1. /\ UNCHANGED <<relayVars, rq, wrote, fin, gone>> /\ r \notin gone /\ wq[r] # <<>>
        /\ got'[r] = Append(got[r], Head(wq[r])) /\ wq'[r] = Tail(wq[r])
        /\ \A t \in Side : t # r => got'[t] = got[t] /\ wq'[t] = wq[t]
    BY <1>0, <1>5 DEF Read
  <2>2. /\ got'[r] \in Seq(Bytes) /\ wq'[r] \in Seq(Bytes)
        /\ got'[r] \o wq'[r] = got[r] \o wq[r]
    <3>1. got[r] \in Seq(Bytes) /\ wq[r] \in Seq(Bytes)
      BY <1>0
    <3>2. /\ Tail(wq[r]) \in Seq(Bytes) /\ Append(got[r], Head(wq[r])) \in Seq(Bytes)
          /\ Append(got[r], Head(wq[r])) \o Tail(wq[r]) = got[r] \o wq[r]
      BY <1>c, <2>1, <3>1, Zenon
    <3> QED
      BY <2>1, <3>2
  <2>3. \A t \in Side : Arrived(t)' = Arrived(t) /\ Underway(t)' = Underway(t)
    BY <1>0, <1>1, <2>1, <2>2 DEF Arrived, Underway, relayVars
  <2>4. Begins(got'[r], s)
    <3>1. Begins(Arrived(s) \o Underway(s), s) /\ Arrived(s) = got'[r] \o wq'[r]
      BY <1>1, <2>1, <2>2 DEF Intact, Arrived
    <3>2. s \in Side /\ wrote[s] \in Nat
      BY <1>0, <1>1
    <3>3. Begins(Arrived(s), s)
      BY <1>2, <3>1, <3>2, BeginsShorter
    <3> QED
      BY <2>2, <3>1, <3>2, <3>3, BeginsShorter
  <2>5. \A t \in Side : Begins(got[Other(t)], t)'
    BY <1>1, <2>1, <2>4 DEF Begins, Intact
  <2>6. UNCHANGED <<failed, gone, rq, wrote>>
    BY <2>1 DEF relayVars
  <2> QED
    BY <2>3, <2>5, <2>6 DEF Intact, Whole, Begins, Written
<1>6. ASSUME NEW r \in Side, Reset(r)
      PROVE  Intact'
  <2>1. /\ UNCHANGED <<relayVars, wrote, got, fin>> /\ gone' = gone \cup {r}
        /\ \A t \in Side : t # r => wq'[t] = wq[t]
    BY <1>0, <1>6 DEF Reset
  <2>2. ASSUME NEW t \in Side, Other(t) \notin gone'
        PROVE  Begins(Arrived(t) \o Underway(t), t)'
    <3>1. Arrived(t)' = Arrived(t) /\ Underway(t)' = Underway(t)
      BY <1>1, <2>1, <2>2 DEF Arrived, Underway, relayVars
    <3> QED
      BY <2>1, <2>2, <3>1 DEF Intact, Begins
  <2>3. \A t \in Side : Begins(got[Other(t)], t)'
    BY <2>1 DEF Intact, Begins
  <2> QED
    BY <2>1, <2>2, <2>3 DEF Intact
<1>7. CASE Select \/ IdleTimeout \/ BothClosed \/ Skip \/ RecvEnd
  <2>1. /\ at # "send" /\ at' # "send" /\ UNCHANGED <<failed, gone, wrote, got, rq, wq>>
    BY <1>7 DEF Select, IdleTimeout, BothClosed, Skip, RecvEnd, NextTurn, peerVars
  <2>2. \A s \in Side : Arrived(s)' = Arrived(s) /\ Underway(s)' = Underway(s)
    BY <2>1 DEF Arrived, Underway
  <2> QED
    BY <1>a, <2>1, <2>2 DEF Intact
<1>8. CASE Recv
  <2>1. PICK n \in 1..Len(rq[side]) :
            /\ buf' = SubSeq(rq[side], 1, n)
            /\ rq' = [rq EXCEPT ![side] = SubSeq(@, n + 1, Len(@))]
    BY <1>8 DEF Recv
  <2>2. /\ at = "recv" /\ at' = "send" /\ side \in open /\ side' = side
        /\ UNCHANGED <<failed, wq, wrote, got, gone>>
    BY <1>8 DEF Recv, peerVars
  <2>3. /\ Len(rq[side]) \in Nat /\ rq[side] # <<>>
        /\ rq'[side] = SubSeq(rq[side], n + 1, Len(rq[side]))
    BY <1>0, <2>1, LenProperties, EmptySeq
  <2>4. buf' \in Seq(Bytes) /\ rq'[side] \in Seq(Bytes) /\ buf' \o rq'[side] = rq[side]
    <3>1. SubSeq(rq[side], 1, n) \o SubSeq(rq[side], n + 1, Len(rq[side]))
            = SubSeq(rq[side], 1, Len(rq[side]))
      BY <1>0, <2>3, ConcatAdjacentSubSeq
    <3>2. buf' \in Seq(Bytes) /\ rq'[side] \in Seq(Bytes)
      BY <1>0 DEF TypeOK
    <3> QED
      BY <1>0, <2>1, <2>3, <3>1, <3>2, SubSeqFull
  <2>5. /\ \A s \in Side : Arrived(s)' = Arrived(s) /\ Underway(s) = <<>>
        /\ \A s \in Side : Underway(s)' = IF s = side THEN buf' ELSE <<>>
    BY <2>2 DEF Arrived, Underway
  <2>6. ~failed /\ side \notin gone
    BY <1>0, <2>2, <2>3 DEF Places
  <2>7. /\ gone = {} => Whole(side)'
        /\ Other(side) \notin gone => Begins(Arrived(side) \o Underway(side), side)'
    <3>1. SUFFICES ASSUME Other(side) \notin gone
                   PROVE  Whole(side)' /\ Begins(Arrived(side) \o Underway(side), side)'
      BY <1>0, <1>1
    <3>2. gone = {}
      <4>1. \A t \in gone : t = side \/ t = Other(side)
        BY <1>0, <1>1
      <4> QED
        BY <2>6, <3>1, <4>1
    <3>3. Arrived(side) \o rq[side] = Written(side)
      <4>1. Arrived(side) \o Underway(side) = Arrived(side)
        BY <1>0, <1>2, <2>5, ConcatEmptySeq
      <4> QED
        BY <1>0, <2>6, <3>2, <4>1 DEF Intact, Whole
    <3>4. (Arrived(side) \o buf') \o rq'[side] = Written(side)
      <4>1. Arrived(side) \in Seq(Bytes)
        BY <1>0, <1>2
      <4>2. (Arrived(side) \o buf') \o rq'[side] = Arrived(side) \o (buf' \o rq'[side])
        BY <1>d, <2>4, <4>1, Zenon
      <4> QED
        BY <2>4, <3>3, <4>2
    <3>5. Written(side)' = Written(side)
      BY <2>2 DEF Written
    <3>6. Begins(Arrived(side) \o buf', side)
      <4>1. Begins(Written(side), side)
        BY <1>0, BeginsWritten
      <4>2. Arrived(side) \o buf' \in Seq(Bytes) /\ wrote[side] \in Nat
        BY <1>0, <1>2, <2>4, ConcatProperties
      <4> QED
        BY <2>4, <3>4, <4>1, <4>2, BeginsShorter
    <3> QED
      BY <1>0, <2>2, <2>5, <3>4, <3>5, <3>6 DEF Whole, Begins
  <2>8. ASSUME NEW s \in Side, s # side
        PROVE  rq'[s] = rq[s] /\ Arrived(s)' \o Underway(s)' = Arrived(s) \o Underway(s)
    BY <1>0, <2>1, <2>5, <2>8
  <2> QED
    BY <1>a, <2>2, <2>6, <2>7, <2>8 DEF Intact, Begins
<1>9. CASE Send
  <2>1. /\ wq' = [wq EXCEPT ![Dst] = Append(@, Head(buf))] /\ buf' = Tail(buf)
        /\ at = "send" /\ buf # <<>> /\ UNCHANGED <<failed, rq, wrote, got, gone>>
    BY <1>9 DEF Send, peerVars, TypeOK
  <2>2. /\ buf' # <<>> => at' = "send" /\ side' = side
        /\ buf' = <<>> => at' # "send"
    BY <1>9 DEF Send, NextTurn
  <2>3. /\ \A s \in Side : Underway(s) = IF s = side THEN buf ELSE <<>>
        /\ \A s \in Side : Underway(s)' = IF s = side THEN Tail(buf) ELSE <<>>
    BY <2>1, <2>2 DEF Underway
  <2>4. ASSUME NEW s \in Side, s = side
        PROVE  Arrived(s)' \o Underway(s)' = Arrived(s) \o Underway(s)
    <3>1. /\ got[Other(s)] \in Seq(Bytes) /\ wq[Other(s)] \in Seq(Bytes)
          /\ Arrived(s) \in Seq(Bytes)
      BY <1>0, <1>1, <1>2
    <3>2. Arrived(s)' = got[Other(s)] \o Append(wq[Other(s)], Head(buf))
      BY <1>0, <1>1, <2>1, <2>4 DEF Arrived, Dst
    <3>3. /\ Head(buf) \in Bytes
          /\ Append(Arrived(s), Head(buf)) \o Tail(buf) = Arrived(s) \o buf
      BY <1>0, <2>1, <3>1, PassOne, HeadTailProperties
    <3>4. got[Other(s)] \o Append(wq[Other(s)], Head(buf))
            = Append(got[Other(s)] \o wq[Other(s)], Head(buf))
      BY <1>b, <3>1, <3>3, Zenon
    <3>5. Underway(s) = buf /\ Underway(s)' = Tail(buf)
      BY <2>3, <2>4
    <3> QED
      BY <3>2, <3>3, <3>4, <3>5 DEF Arrived
  <2>5. ASSUME NEW s \in Side, s # side
        PROVE  Arrived(s)' \o Underway(s)' = Arrived(s) \o Underway(s)
    <3>1. Other(s) # Dst
      BY <1>0, <1>1, <2>5 DEF Dst
    <3>2. Arrived(s)' = Arrived(s)
      BY <1>0, <1>1, <2>1, <3>1 DEF Arrived
    <3> QED
      BY <2>3, <2>5, <3>2
  <2> QED
    BY <1>a, <2>1, <2>4, <2>5 DEF Intact
<1>10. CASE SendFails
  <2>1. /\ failed' /\ at' # "send" /\ UNCHANGED <<rq, wq, wrote, got, gone>>
    BY <1>10 DEF SendFails, NextTurn, peerVars
  <2>2. \A s \in Side : Arrived(s)' \o Underway(s)' = Arrived(s)
    BY <1>0, <1>2, <2>1, ConcatEmptySeq DEF Arrived, Underway
  <2>3. ASSUME NEW s \in Side, Other(s) \notin gone
        PROVE  Begins(Arrived(s), s)
    BY <1>0, <1>2, <2>3, BeginsShorter DEF Intact
  <2> QED
    BY <2>1, <2>2, <2>3 DEF Intact, Begins
<1>11. CASE UNCHANGED vars
  BY <1>11 DEF vars, Intact, Whole, Begins, Arrived, Underway, Written
<1> QED
  BY <1>3, <1>4, <1>5, <1>6, <1>7, <1>8, <1>9, <1>10, <1>11 DEF Next, relay, Peer, Closed

\* What the relay holds of a stream, with where it stands, is an invariant.
THEOREM Invariant == Spec => []IInv
<1>1. Init => Places /\ Intact
  <2> SUFFICES ASSUME Init PROVE Places /\ Intact
    OBVIOUS
  <2>1. \A s \in Side : Arrived(s) \o Underway(s) \o rq[s] = <<>>
    BY EmptySeq, ConcatEmptySeq DEF Init, Arrived, Underway, Other, Side
  <2>2. \A s \in Side : Arrived(s) \o Underway(s) = <<>>
    BY EmptySeq, ConcatEmptySeq DEF Init, Arrived, Underway, Other, Side
  <2>3. \A s \in Side : Other(s) \in Side
    BY DEF Other, Side
  <2>4. \A s \in Side : got[Other(s)] = <<>> /\ wrote[s] = 0 /\ Written(s) = <<>>
    BY <2>3 DEF Init, Written
  <2>5. Len(<<>>) = 0
    BY EmptySeq
  <2>6. Places
    BY DEF Init, Places
  <2>7. \A s \in Side : Begins(<<>>, s)
    BY <2>4, <2>5 DEF Begins
  <2> QED
    BY <2>1, <2>2, <2>4, <2>6, <2>7 DEF Intact, Whole
<1>2. Places /\ Intact /\ TypeOK /\ TypeOK' /\ [Next]_vars => (Places /\ Intact)'
  BY PlacesStep, IntactStep
<1> QED
  BY <1>1, <1>2, TypeCorrect, PTL DEF Spec, IInv

\* Bytes arrive once and in order, whatever fails.
THEOREM BytesKeepOrder == Spec => []StreamIntact
<1>1. IInv => StreamIntact
  <2> SUFFICES ASSUME IInv, NEW s \in Side
               PROVE  /\ failed \/ gone # {} \/ Whole(s)
                      /\ IsPrefix(got[Other(s)], Written(s))
    BY DEF StreamIntact, Whole
  <2>1. got[Other(s)] \in Seq(Bytes) /\ wrote[s] \in 0..MaxBytes
    BY DEF IInv, TypeOK, Other, Side
  <2> QED
    BY <2>1, BeginsWritten DEF IInv, Intact
<1> QED
  BY <1>1, Invariant, PTL

\* An end is passed on after all that was written before it, and closes one
\* direction only.
THEOREM EndsComeLast == Spec => []HalfClose
<1>1. IInv => HalfClose
  <2> SUFFICES ASSUME IInv, NEW s \in Side, Other(s) \in shut, ~failed, gone = {}
               PROVE  Arrived(s) = Written(s)
    BY DEF HalfClose, IInv, Places
  <2>1. Underway(s) = <<>> /\ rq[s] = <<>>
    BY DEF IInv, Places, Underway
  <2>2. Arrived(s) \in Seq(Bytes)
    BY ConcatProperties DEF IInv, TypeOK, Arrived, Other, Side
  <2> QED
    BY <2>1, <2>2, ConcatEmptySeq DEF IInv, Intact, Whole
<1> QED
  BY <1>1, Invariant, PTL
=============================================================================
