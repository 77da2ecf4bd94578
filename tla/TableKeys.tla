------------------------------ MODULE TableKeys ------------------------------
(***************************************************************************)
(* The keys of the sniffer's two enforcement tables.  The code keys both   *)
(* by the string "owner:domain", where the owner is a client address or    *)
(* the word "global" and the domain is a host name or a wildcard "*.name". *)
(* A host name is an abstract value here; what the code computes from its  *)
(* characters (does it end with ".name"?) is the relation Below.           *)
(***************************************************************************)
EXTENDS Naturals, Functions

CONSTANTS
    Ip,      \* client addresses
    Name,    \* host names
    Below    \* Below[x]: the names that end with ".x"

ASSUME KeysAssumption ==
    /\ "global" \notin Ip
    /\ Below \in [Name -> SUBSET Name]
    /\ \A x \in Name : x \notin Below[x]
    /\ \A x, y \in Name : y \in Below[x] => Below[y] \subseteq Below[x]

Owner == Ip \cup {"global"}

\* A domain as a command or a table key spells it: "name" or "*.name".
Pattern == [wild : BOOLEAN, name : Name]
Exact(d) == [wild |-> FALSE, name |-> d]
Wild(x)  == [wild |-> TRUE, name |-> x]

Key == [owner : Owner, dom : Pattern]
KeyOf(o, p) == [owner |-> o, dom |-> p]

\* Does the spelled domain p end with ".x"?  "*.x" itself does, "x" does not.
EndsUnder(p, x) == p.name \in Below[x] \/ (p.wild /\ p.name = x)

\* Does the wildcard "*.x" stand for host name d?
WildMatches(x, d) == d \in Below[x] \/ d = x

\* What a key means to a reader: it covers host name d of client ip.
Covers(k, ip, d) ==
    /\ k.owner \in {ip, "global"}
    /\ IF k.dom.wild THEN WildMatches(k.dom.name, d) ELSE k.dom.name = d

-----------------------------------------------------------------------------
(* Tables as partial functions from keys to entries with an until_ts.      *)

NoTable == [k \in {} |-> [until_ts |-> 0]]
Put(t, k, e) == [j \in DOMAIN t \cup {k} |-> IF j = k THEN e ELSE t[j]]
Drop(t, K)   == Restrict(t, DOMAIN t \ K)

\* 0 is a permanent entry; any other entry lives until its second arrives.
Live(e, ts) == e.until_ts = 0 \/ ts < e.until_ts
LivePart(t, ts) == Restrict(t, {k \in DOMAIN t : Live(t[k], ts)})
=============================================================================
