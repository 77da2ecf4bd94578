--------------------------------- MODULE Relay ---------------------------------
(***************************************************************************)
(* The relay at the end of both proxying modes: one thread moves bytes     *)
(* between the client's socket a and the remote socket b until both have   *)
(* reached their end, select has seen nothing for 30 seconds, or a send    *)
(* fails.  recv and send block; the kernel queues a bounded number of      *)
(* bytes per socket and direction.  The remote socket was given a send     *)
(* timeout when it was dialled, the client's socket was not.               *)
(***************************************************************************)
EXTENDS Naturals, Sequences, SequencesExt

CONSTANTS
    MaxBytes,   \* bound: what each peer writes, numbered 1, 2, ...
    Room        \* what a socket queues in either direction

ASSUME RelayAssumption == MaxBytes \in Nat /\ Room \in Nat \ {0}

Side == {"a", "b"}
Other(s) == IF s = "a" THEN "b" ELSE "a"

VARIABLES
    at,       \* "select", "recv" or "send" for the side in turn, "done"
    side,     \* the side the loop's body reads from
    ready,    \* the sides select reported
    open,     \* a_open and b_open
    buf,      \* what was received and is not yet sent on
    rq,       \* what a peer wrote and the relay has not received
    wq,       \* what the relay sent and a peer has not read
    wrote,    \* how much each peer has written
    got,      \* what each peer has read
    fin,      \* the peers that have finished writing
    gone,     \* the peers whose connection is reset
    shut,     \* the sides the relay has shut down for writing
    failed    \* history: a send failed

vars == <<at, side, ready, open, buf, rq, wq, wrote, got, fin, gone, shut, failed>>
relayVars == <<at, side, ready, open, buf, shut, failed>>
peerVars == <<wrote, got, fin, gone>>

Init ==
    /\ at = "select" /\ side = "a" /\ ready = {} /\ open = Side
    /\ buf = <<>>
    /\ rq = [s \in Side |-> <<>>] /\ wq = [s \in Side |-> <<>>]
    /\ wrote = [s \in Side |-> 0] /\ got = [s \in Side |-> <<>>]
    /\ fin = {} /\ gone = {} /\ shut = {}
    /\ failed = FALSE

-----------------------------------------------------------------------------
(* The peers.                                                              *)

Write(s) ==
    /\ s \notin fin \cup gone /\ wrote[s] < MaxBytes
    /\ at # "done" /\ Len(rq[s]) < Room
    /\ wrote' = [wrote EXCEPT ![s] = @ + 1]
    /\ rq' = [rq EXCEPT ![s] = Append(@, wrote'[s])]
    /\ UNCHANGED <<relayVars, wq, got, fin, gone>>

Finish(s) ==
    /\ s \notin fin \cup gone
    /\ fin' = fin \cup {s}
    /\ UNCHANGED <<relayVars, rq, wq, wrote, got, gone>>

Read(s) ==
    /\ s \notin gone /\ wq[s] # <<>>
    /\ got' = [got EXCEPT ![s] = Append(@, Head(wq[s]))]
    /\ wq' = [wq EXCEPT ![s] = Tail(@)]
    /\ UNCHANGED <<relayVars, rq, wrote, fin, gone>>

\* A reset throws away what is queued in either direction.
Reset(s) ==
    /\ s \notin gone
    /\ gone' = gone \cup {s}
    /\ rq' = [rq EXCEPT ![s] = <<>>] /\ wq' = [wq EXCEPT ![s] = <<>>]
    /\ UNCHANGED <<relayVars, wrote, got, fin>>

-----------------------------------------------------------------------------
(* The relay.                                                              *)

\* recv would return at once: bytes, the end of the stream or an error.
Readable(s) == s \in open /\ (rq[s] # <<>> \/ s \in fin \cup gone)

Select ==
    /\ at = "select" /\ open # {}
    /\ \E s \in Side : Readable(s)
    /\ ready' = {s \in Side : Readable(s)}
    /\ at' = "recv" /\ side' = "a"
    /\ UNCHANGED <<open, buf, shut, failed, rq, wq, peerVars>>

\* Nothing for IDLE_TIMEOUT_S seconds.
IdleTimeout ==
    /\ at = "select" /\ open # {}
    /\ \A s \in Side : ~Readable(s)
    /\ at' = "done"
    /\ UNCHANGED <<side, ready, open, buf, shut, failed, rq, wq, peerVars>>

\* Slips, one before each definition it would spoil: ending with the first
\* direction, closing both at one's end, taking the end of the stream for no
\* bytes, and not sending the rest after a short count.  No specification uses
\* them.
EitherClosed ==
    /\ at = "select" /\ open # Side
    /\ at' = "done"
    /\ UNCHANGED <<side, ready, open, buf, shut, failed, rq, wq, peerVars>>

BothClosed ==
    /\ at = "select" /\ open = {}
    /\ at' = "done"
    /\ UNCHANGED <<side, ready, open, buf, shut, failed, rq, wq, peerVars>>

\* The first side's turn is followed by the second's, that by the next select.
NextTurn ==
    IF side = "a" THEN at' = "recv" /\ side' = "b"
                  ELSE at' = "select" /\ side' = "a"

Skip ==
    /\ at = "recv" /\ side \notin ready \cap open
    /\ NextTurn
    /\ UNCHANGED <<ready, open, buf, shut, failed, rq, wq, peerVars>>

EndClosesBoth ==
    /\ at = "recv" /\ side \in ready \cap open
    /\ rq[side] = <<>> /\ side \in fin \cup gone
    /\ shut' = shut \cup {Other(side)}
    /\ open' = {}
    /\ NextTurn
    /\ UNCHANGED <<ready, buf, failed, rq, wq, peerVars>>

RecvEnd ==
    /\ at = "recv" /\ side \in ready \cap open
    /\ rq[side] = <<>> /\ side \in fin \cup gone
    /\ shut' = shut \cup {Other(side)}
    /\ open' = open \ {side}
    /\ NextTurn
    /\ UNCHANGED <<ready, buf, failed, rq, wq, peerVars>>

RecvOfNothing ==
    /\ at = "recv" /\ side \in ready \cap open
    /\ \E n \in 0..Len(rq[side]) :
        /\ buf' = SubSeq(rq[side], 1, n)
        /\ rq' = [rq EXCEPT ![side] = SubSeq(@, n + 1, Len(@))]
    /\ at' = "send"
    /\ UNCHANGED <<side, ready, open, shut, failed, wq, peerVars>>

Recv ==
    /\ at = "recv" /\ side \in ready \cap open
    /\ \E n \in 1..Len(rq[side]) :
        /\ buf' = SubSeq(rq[side], 1, n)
        /\ rq' = [rq EXCEPT ![side] = SubSeq(@, n + 1, Len(@))]
    /\ at' = "send"
    /\ UNCHANGED <<side, ready, open, shut, failed, wq, peerVars>>

Dst == Other(side)

ShortCount ==
    /\ at = "send" /\ Dst \notin gone /\ Len(wq[Dst]) < Room
    /\ wq' = [wq EXCEPT ![Dst] = Append(@, Head(buf))]
    /\ buf' = <<>>
    /\ NextTurn
    /\ UNCHANGED <<ready, open, shut, failed, rq, peerVars>>

\* send, byte by byte as the kernel finds room, and the loop over short counts
Send ==
    /\ at = "send" /\ Dst \notin gone /\ Len(wq[Dst]) < Room
    /\ wq' = [wq EXCEPT ![Dst] = Append(@, Head(buf))]
    /\ buf' = Tail(buf)
    /\ IF buf' = <<>> THEN NextTurn ELSE UNCHANGED <<at, side>>
    /\ UNCHANGED <<ready, open, shut, failed, rq, peerVars>>

\* w <= 0: the destination is gone, or the remote side's SO_SNDTIMEO has passed
\* without room.  Both directions are given up.
SendFails ==
    /\ at = "send"
    /\ Dst \in gone \/ (Dst = "b" /\ Len(wq[Dst]) = Room)
    /\ open' = {} /\ buf' = <<>> /\ failed' = TRUE
    /\ NextTurn
    /\ UNCHANGED <<ready, shut, rq, wq, peerVars>>

relay == Select \/ IdleTimeout \/ BothClosed \/ Skip \/ RecvEnd \/ Recv \/ Send \/ SendFails

\* The caller has closed both sockets; the peers may still read.
Closed == at = "done" /\ UNCHANGED vars

Peer(s) == Write(s) \/ Finish(s) \/ Read(s) \/ Reset(s)

Next == relay \/ (\E s \in Side : Peer(s)) \/ Closed

Spec == Init /\ [][Next]_vars

\* The thread runs and its timeouts fire; nothing is assumed of the peers.
RelaySpec == Spec /\ WF_vars(relay)

\* Besides, the peers read what they are sent.
FairSpec == RelaySpec /\ \A s \in Side : WF_vars(Read(s))

-----------------------------------------------------------------------------
(* Properties.                                                             *)

Bytes == 1..MaxBytes

\* The queues keep to their room, and the relay is sending exactly while it has
\* bytes to send.
TypeOK ==
    /\ at \in {"select", "recv", "send", "done"} /\ side \in Side
    /\ ready \subseteq Side /\ open \subseteq Side
    /\ fin \subseteq Side /\ gone \subseteq Side /\ shut \subseteq Side
    /\ buf \in Seq(Bytes) /\ (at = "send" <=> buf # <<>>)
    /\ {rq, wq, got} \subseteq [Side -> Seq(Bytes)] /\ wrote \in [Side -> 0..MaxBytes]
    /\ \A s \in Side : Len(rq[s]) <= Room /\ Len(wq[s]) <= Room
    /\ failed \in BOOLEAN

Written(s) == [i \in 1..wrote[s] |-> i]
Underway(s) == IF at = "send" /\ side = s THEN buf ELSE <<>>
Arrived(s) == got[Other(s)] \o wq[Other(s)]

\* Whatever side s wrote is, in order and once, read by the other side, in a
\* queue or in the relay's hands, as long as no send failed and no connection
\* was reset; even then what the other side has read is an unbroken beginning.
StreamIntact ==
    \A s \in Side :
        /\ failed \/ gone # {} \/ Arrived(s) \o Underway(s) \o rq[s] = Written(s)
        /\ IsPrefix(got[Other(s)], Written(s))

\* "Handles half-close correctly": a side is told of the other's end only after
\* every byte written before it, and one direction's end leaves the other open.
HalfClose ==
    \A s \in Side :
        /\ Other(s) \in shut => s \in fin \cup gone
        /\ Other(s) \in shut /\ ~failed /\ gone = {} => Arrived(s) = Written(s)
        /\ s \notin open /\ ~failed => Other(s) \in shut

\* If the peers read, all that a peer wrote before it finished reaches the
\* other, unless a connection breaks; an idle timeout loses nothing.
Delivered ==
    \A s \in Side :
        s \in fin ~> (got[Other(s)] = Written(s) \/ failed \/ gone # {})

\* "Idle timeout: kill connection if no data flows for 30s": peers that have a
\* bounded number of bytes to write fall silent some day, and then the relay
\* ends.
IdleKilled == <>(at = "done")
=============================================================================
