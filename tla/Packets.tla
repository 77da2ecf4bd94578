------------------------------- MODULE Packets -------------------------------
(***************************************************************************)
(* How the sniffer finds a host name in what a client sends: the two       *)
(* parsers over bytes and the handler of captured packets.  A payload is a *)
(* sequence of bytes; the code counts them from 0.  "No name" is <<>>, as  *)
(* it is the empty string in the code.  No specification uses the slips.   *)
(***************************************************************************)
EXTENDS Naturals, Sequences

At(d, i)  == d[i + 1]
U16(d, i) == 256 * At(d, i) + At(d, i + 1)
Slice(d, i, n) == SubSeq(d, i + 1, i + n)
NoName == <<>>
Dot == 46

-----------------------------------------------------------------------------
(* tls_parser.hpp: the SNI of a ClientHello.                               *)

IsHello(d) == Len(d) >= 43 /\ At(d, 0) = 22 /\ At(d, 1) = 3 /\ At(d, 5) = 1

\* Three parts, each with its length before it, and then the extensions.
AfterSession(d)     == 44 + At(d, 43)
SkipsNoCiphers(d)   == AfterSession(d) + 2    \* a slip: their length is not added
AfterCiphers(d)     == AfterSession(d) + 2 + U16(d, AfterSession(d))
AfterCompression(d) == AfterCiphers(d) + 1 + At(d, AfterCiphers(d))
ExtStart(d)         == AfterCompression(d) + 2

\* Each length is there to be read; the parts themselves may not be.
HasExtensions(d) ==
    /\ IsHello(d)
    /\ 43 < Len(d)
    /\ AfterSession(d) + 2 <= Len(d)
    /\ AfterCiphers(d) + 1 <= Len(d)
    /\ AfterCompression(d) + 2 <= Len(d)

\* A slip: bytes refused that do not end where the extensions do.
EndsExactly(d) ==
    LET says == ExtStart(d) + U16(d, AfterCompression(d))
    IN  IF says < Len(d) THEN 0 ELSE IF says > Len(d) THEN Len(d) ELSE says

\* The extensions end where they say, or where the bytes do.
ExtEnd(d) ==
    LET says == ExtStart(d) + U16(d, AfterCompression(d))
    IN  IF says > Len(d) THEN Len(d) ELSE says

\* A slip: the name is clipped to what is there.
ClippedName(d, pos) ==
    LET n == U16(d, pos + 3)
    IN  IF pos + 5 <= ExtEnd(d) /\ At(d, pos + 2) = 0
        THEN SubSeq(d, pos + 6, IF pos + 5 + n > ExtEnd(d) THEN ExtEnd(d) ELSE pos + 5 + n)
        ELSE NoName

\* The host name of the server_name extension whose data begins at pos.
ServerName(d, pos) ==
    IF /\ pos + 5 <= ExtEnd(d)
       /\ At(d, pos + 2) = 0
       /\ pos + 5 + U16(d, pos + 3) <= ExtEnd(d)
    THEN Slice(d, pos + 5, U16(d, pos + 3))
    ELSE NoName

\* The first extension of type 0 decides; what comes after it is not looked at.
extract_sni(d) ==
    LET walk[pos \in Nat] ==
            IF pos + 4 > ExtEnd(d) THEN NoName
            ELSE IF U16(d, pos) = 0 THEN ServerName(d, pos + 4)
            ELSE walk[pos + 4 + U16(d, pos + 2)]
    IN  IF HasExtensions(d) THEN walk[ExtStart(d)] ELSE NoName

-----------------------------------------------------------------------------
(* dns_parser.hpp: the name of the first question.                         *)

\* The labels from pos on, each followed by a dot, and whether they end
\* properly, which a compression pointer does too.
Labels(d) ==
    LET walk[pos \in Nat] ==
            IF pos >= Len(d) \/ (At(d, pos) \in 1..191 /\ pos + 1 + At(d, pos) > Len(d))
            THEN [ends |-> FALSE, text |-> <<>>]
            ELSE IF At(d, pos) \notin 1..191
            THEN [ends |-> TRUE, text |-> <<>>]
            ELSE LET rest == walk[pos + 1 + At(d, pos)]
                 IN  [rest EXCEPT !.text = Slice(d, pos + 1, At(d, pos)) \o <<Dot>> \o @]
    IN  walk[12]

Question(d) == Len(d) >= 12 /\ U16(d, 4) > 0

extract_query_domain(d) ==
    LET found == Labels(d)
    IN  IF Question(d) /\ found.ends /\ found.text # <<>>
        THEN SubSeq(found.text, 1, Len(found.text) - 1)
        ELSE NoName

-----------------------------------------------------------------------------
(* Sniffer mode: one captured packet.                                      *)

\* A slip: an event without a name.
EmptyNameToo(p) ==
    {[ip |-> p.src, domain |-> IF p.proto = "udp" THEN extract_query_domain(p.payload)
                                                  ELSE extract_sni(p.payload)]}

\* The events, none or one, of packet p; the sender is taken for the client,
\* of a DNS answer too.
pcap_packet_handler(p) ==
    LET name == IF p.proto = "udp" /\ 53 \in {p.sport, p.dport}
                THEN extract_query_domain(p.payload)
                ELSE IF p.proto = "tcp" /\ p.dport = 443 /\ p.payload # <<>>
                THEN extract_sni(p.payload)
                ELSE NoName
    IN  {[ip |-> p.src, domain |-> n] : n \in {name} \ {NoName}}
=============================================================================
