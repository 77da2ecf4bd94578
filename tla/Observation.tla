----------------------------- MODULE Observation -----------------------------
(***************************************************************************)
(* What the sniffer makes of a message while it is still arriving.  Bytes  *)
(* come in segments that end anywhere; a proxying thread peeks at those    *)
(* that are there when it looks, and a captured packet may hold only the   *)
(* first of them.  The parsers are compared with the message the client    *)
(* meant, not with its bytes.                                              *)
(***************************************************************************)
EXTENDS Packets, SequencesExt

CONSTANTS
    Client, Server,   \* the two addresses
    Message,          \* what the two may send (see MessageAssumption)
    PeekSize          \* sizeof(peek)

VARIABLES
    message,   \* what is being sent
    there,     \* how many of its bytes have arrived
    look       \* the last look: whether there was one, how many bytes it saw, its events

vars == <<message, there, look>>

-----------------------------------------------------------------------------
(* The messages as bytes (RFC 8446, RFC 1035).                             *)

Zeros(n) == [i \in 1..n |-> 0]
Two(n)   == <<n \div 256, n % 256>>

Sni(name)  == [type |-> 0, data |-> Two(Len(name) + 3) \o <<0>> \o Two(Len(name)) \o name,
               name |-> name]
Ext(t, d)  == [type |-> t, data |-> d, name |-> NoName]
ExtBytes(exts) == FlattenSeq([i \in DOMAIN exts |->
                     Two(exts[i].type) \o Two(Len(exts[i].data)) \o exts[i].data])

HelloBytes(m) ==
    <<IF m.kind = "hello" THEN 22 ELSE 23, 3, 1, 0, 0, 1, 0, 0, 0, 3, 3>> \o Zeros(32)
        \o <<Len(m.session)>> \o m.session
        \o Two(Len(m.ciphers)) \o m.ciphers
        \o <<Len(m.methods)>> \o m.methods
        \o Two(Len(ExtBytes(m.exts))) \o ExtBytes(m.exts) \o m.after

DnsBytes(m) ==
    <<0, 7, IF m.kind = "answer" THEN 129 ELSE 1, 0, 0, 1>> \o Zeros(6)
        \o FlattenSeq([i \in DOMAIN m.labels |-> <<Len(m.labels[i])>> \o m.labels[i]])
        \o <<0, 0, 1, 0, 1>>

IsTls(m) == m.kind \in {"hello", "other"}
Bytes(m) == IF IsTls(m) THEN HelloBytes(m) ELSE DnsBytes(m)

\* The name the sender means.
Dotted(labels) ==
    FlattenSeq([i \in DOMAIN labels |-> (IF i = 1 THEN <<>> ELSE <<Dot>>) \o labels[i]])
TrueName(m) ==
    CASE m.kind = "other" -> NoName
      [] m.kind = "hello" -> FlattenSeq([i \in DOMAIN m.exts |-> m.exts[i].name])
      [] OTHER            -> Dotted(m.labels)

Byte      == 0..255
Fits(n)   == n < 65536     \* two bytes can say it
Extension == [type : Nat, data : Seq(Byte), name : Seq(Byte)]

\* A hello has any session id, cipher suites and compression methods, and its
\* extensions in any order; of type 0 is only server_name, which comes once.  All
\* lengths fit where they are sent.
IsHelloMessage(m) ==
    /\ m.kind \in {"hello", "other"}
    /\ m.session \in Seq(Byte) /\ Len(m.session) \in Byte
    /\ m.ciphers \in Seq(Byte) /\ Fits(Len(m.ciphers))
    /\ m.methods \in Seq(Byte) /\ Len(m.methods) \in Byte
    /\ m.exts \in Seq(Extension) /\ Fits(Len(ExtBytes(m.exts)))
    /\ \A i \in DOMAIN m.exts :
          /\ Fits(m.exts[i].type) /\ Fits(Len(m.exts[i].data))
          /\ IF m.exts[i].type = 0 THEN m.exts[i] = Sni(m.exts[i].name)
                                   ELSE m.exts[i].name = NoName
    /\ \A i, j \in DOMAIN m.exts : m.exts[i].type = 0 /\ m.exts[j].type = 0 => i = j
    /\ m.after \in Seq(Byte)

\* A label has 1 to 63 bytes.
IsDnsMessage(m) ==
    /\ m.kind \in {"query", "answer"} /\ m.labels \in Seq(Seq(Byte))
    /\ \A i \in DOMAIN m.labels : Len(m.labels[i]) \in 1..63

ASSUME MessageAssumption ==
    /\ Client # Server /\ PeekSize \in Nat
    /\ \A m \in Message : IsHelloMessage(m) \/ IsDnsMessage(m)

-----------------------------------------------------------------------------

Init ==
    /\ message \in Message
    /\ there = 0
    /\ look = [made |-> FALSE, saw |-> 0, events |-> {}]

Arrive ==
    /\ there < Len(Bytes(message))
    /\ there' = there + 1
    /\ UNCHANGED <<message, look>>

Looks(n, events) ==
    /\ look' = [made |-> TRUE, saw |-> n, events |-> events]
    /\ UNCHANGED <<message, there>>

\* The proxying modes: as much as fits is seen and stays where it is.
Peek ==
    /\ IsTls(message) /\ there > 0
    /\ LET n    == IF there < PeekSize THEN there ELSE PeekSize
           name == extract_sni(SubSeq(Bytes(message), 1, n))
       IN  Looks(n, {[ip |-> Client, domain |-> d] : d \in {name} \ {NoName}})

\* Sniffer mode: the first packet holds the bytes that are there.
EphemeralPort == 50000
Packet(m, n) ==
    LET out     == m.kind # "answer"
        service == IF IsTls(m) THEN 443 ELSE 53
    IN  [proto   |-> IF IsTls(m) THEN "tcp" ELSE "udp",
         src     |-> IF out THEN Client ELSE Server,
         dst     |-> IF out THEN Server ELSE Client,
         sport   |-> IF out THEN EphemeralPort ELSE service,
         dport   |-> IF out THEN service ELSE EphemeralPort,
         payload |-> SubSeq(Bytes(m), 1, n)]

Capture == Looks(there, pcap_packet_handler(Packet(message, there)))

Next == Arrive \/ Peek \/ Capture

Spec == Init /\ [][Next]_vars

-----------------------------------------------------------------------------
(* Properties.                                                             *)

\* An event has an address and a name, never an empty one.
TypeOK ==
    /\ message \in Message
    /\ there \in 0..Len(Bytes(message))
    /\ look.made \in BOOLEAN /\ look.saw \in 0..there
    /\ \A e \in look.events : e.ip \in {Client, Server} /\ e.domain \in Seq(0..255) \ {NoName}

\* Wherever a message is cut off, the sniffer takes the very name the client
\* means from it or none: never a part of it, nor bytes of something else.  It
\* is put to the client's account, unless a DNS server repeats the question.
NeverAPart ==
    \A e \in look.events :
        /\ e.domain = TrueName(message)
        /\ message.kind # "answer" => e.ip = Client

\* A message seen as a whole gives its name.
WholeIsNamed ==
    look.made /\ look.saw = Len(Bytes(message)) /\ TrueName(message) # NoName
        => look.events # {}

\* A name that could be seen can still be seen with more bytes there, whatever
\* follows it: looking later is never worse.
LaterLooksKeep ==
    [][look.events # {} /\ look'.saw >= look.saw => look'.events # {}]_vars
=============================================================================
