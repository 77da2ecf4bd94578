------------------------------- MODULE ProxyConn -------------------------------
(***************************************************************************)
(* The sniffer's two proxying modes.  In "proxy" mode a client names its   *)
(* destination in a SOCKS5 request; in "tproxy" mode the kernel knows the  *)
(* destination address.  Either way a thread checks the destination, dials *)
(* it, peeks at the client's first bytes on port 443 for the server name   *)
(* (SNI), reports the connection to Elixir and relays.                     *)
(* The command thread changes the block table between any two steps; what  *)
(* is_blocked answers is the set blocked here (see BlockTable).            *)
(***************************************************************************)
EXTENDS Naturals, FiniteSets

CONSTANTS
    Conn,      \* client connections
    Ip,        \* client addresses
    Host,      \* what a request or an SNI may name: host names and addresses
    NoName     \* a ClientHello without SNI, or no ClientHello at all

ASSUME ConnAssumption == NoName \notin Host

VARIABLES
    mode,       \* g_cfg.mode
    blocked,    \* the pairs <<ip, host>> for which is_blocked answers true
    pc,         \* where each connection's handler stands
    peer_ip, dest_host, https,   \* who connects, to what, and whether to port 443
    observed,   \* observed_domain
    cfd, rfd,   \* whether the handler holds an open client or remote socket
    reported,   \* whether the event went to send_event
    open        \* history: hosts not blocked for the peer at some moment since accept

proxyVars == <<mode, blocked, pc, peer_ip, dest_host, https, observed, cfd, rfd, reported, open>>
request == <<peer_ip, dest_host, https>>

ProxyInit ==
    /\ mode \in {"proxy", "tproxy"}
    /\ blocked = {}
    /\ pc = [c \in Conn |-> "new"]
    /\ peer_ip \in [Conn -> Ip]
    /\ dest_host \in [Conn -> Host]
    /\ https \in [Conn -> BOOLEAN]
    /\ observed = dest_host
    /\ cfd = [c \in Conn |-> FALSE]
    /\ rfd = [c \in Conn |-> FALSE]
    /\ reported = [c \in Conn |-> FALSE]
    /\ open = [c \in Conn |-> {}]

is_blocked(c, h) == <<peer_ip[c], h>> \in blocked

\* close(cfd) and, once there is a remote socket, close(rfd)
CloseAll(c) ==
    /\ cfd' = [cfd EXCEPT ![c] = FALSE]
    /\ rfd' = [rfd EXCEPT ![c] = FALSE]

-----------------------------------------------------------------------------
(* The command thread.                                                     *)

Block(ip, h) ==
    /\ blocked' = blocked \cup {<<ip, h>>}
    /\ UNCHANGED <<mode, pc, request, observed, cfd, rfd, reported, open>>

Unblock(ip, h) ==
    /\ blocked' = blocked \ {<<ip, h>>}
    /\ open' = [c \in Conn |-> IF peer_ip[c] = ip THEN open[c] \cup {h} ELSE open[c]]
    /\ UNCHANGED <<mode, pc, request, observed, cfd, rfd, reported>>

-----------------------------------------------------------------------------
(* A connection.                                                           *)

Accept(c) ==
    /\ pc[c] = "new"
    /\ cfd' = [cfd EXCEPT ![c] = TRUE]
    /\ open' = [open EXCEPT ![c] = {h \in Host : ~is_blocked(c, h)}]
    /\ pc' = [pc EXCEPT ![c] = "request"]
    /\ UNCHANGED <<mode, blocked, request, observed, rfd, reported>>

\* No or a malformed greeting or request, a command or address type that is
\* not supported, or no original destination.
BadRequest(c) ==
    /\ pc[c] = "request"
    /\ CloseAll(c)
    /\ pc' = [pc EXCEPT ![c] = "done"]
    /\ UNCHANGED <<mode, blocked, request, observed, reported, open>>

\* The request is read and its destination checked.
Check(c) ==
    /\ pc[c] = "request"
    /\ IF is_blocked(c, dest_host[c])
       THEN CloseAll(c) /\ pc' = [pc EXCEPT ![c] = "done"]
       ELSE UNCHANGED <<cfd, rfd>> /\ pc' = [pc EXCEPT ![c] = "dial"]
    /\ UNCHANGED <<mode, blocked, request, observed, reported, open>>

\* connect_remote, directly or through the upstream SOCKS5 proxy
Dial(c) ==
    /\ pc[c] = "dial"
    /\ rfd' = [rfd EXCEPT ![c] = TRUE]
    /\ pc' = [pc EXCEPT ![c] = IF https[c] THEN "peek" ELSE "event"]
    /\ UNCHANGED <<mode, blocked, request, observed, cfd, reported, open>>

DialFails(c) ==
    /\ pc[c] = "dial"
    /\ CloseAll(c)
    /\ pc' = [pc EXCEPT ![c] = "done"]
    /\ UNCHANGED <<mode, blocked, request, observed, reported, open>>

\* Slips the two definitions below could contain: an empty name kept, the
\* address checked once more in place of the name, the remote socket left open.
\* No specification uses them.
PeekKeepsEmpty(c, sni) ==
    /\ pc[c] = "peek"
    /\ observed' = [observed EXCEPT ![c] = sni]
    /\ pc' = [pc EXCEPT ![c] = IF mode = "tproxy" THEN "recheck" ELSE "event"]
    /\ UNCHANGED <<mode, blocked, request, cfd, rfd, reported, open>>

RecheckOfAddress(c) ==
    /\ pc[c] = "recheck"
    /\ IF is_blocked(c, dest_host[c])
       THEN CloseAll(c) /\ pc' = [pc EXCEPT ![c] = "done"]
       ELSE UNCHANGED <<cfd, rfd>> /\ pc' = [pc EXCEPT ![c] = "event"]
    /\ UNCHANGED <<mode, blocked, request, observed, reported, open>>

RecheckLeaks(c) ==
    /\ pc[c] = "recheck"
    /\ IF is_blocked(c, observed[c])
       THEN cfd' = [cfd EXCEPT ![c] = FALSE] /\ pc' = [pc EXCEPT ![c] = "done"]
       ELSE UNCHANGED cfd /\ pc' = [pc EXCEPT ![c] = "event"]
    /\ UNCHANGED <<mode, blocked, request, observed, rfd, reported, open>>

\* The client's first bytes, seen without being consumed, name a server or not.
Peek(c, sni) ==
    /\ pc[c] = "peek"
    /\ observed' = [observed EXCEPT ![c] = IF sni = NoName THEN dest_host[c] ELSE sni]
    /\ pc' = [pc EXCEPT ![c] = IF mode = "tproxy" THEN "recheck" ELSE "event"]
    /\ UNCHANGED <<mode, blocked, request, cfd, rfd, reported, open>>

\* "Re-check block with real SNI", in tproxy mode only
Recheck(c) ==
    /\ pc[c] = "recheck"
    /\ IF is_blocked(c, observed[c])
       THEN CloseAll(c) /\ pc' = [pc EXCEPT ![c] = "done"]
       ELSE UNCHANGED <<cfd, rfd>> /\ pc' = [pc EXCEPT ![c] = "event"]
    /\ UNCHANGED <<mode, blocked, request, observed, reported, open>>

\* handle_domain_event: no event is sent for what is blocked; the handler then
\* relays in either case.
Event(c) ==
    /\ pc[c] = "event"
    /\ reported' = [reported EXCEPT ![c] = ~is_blocked(c, observed[c])]
    /\ pc' = [pc EXCEPT ![c] = "relay"]
    /\ UNCHANGED <<mode, blocked, request, observed, cfd, rfd, open>>

RelayEnds(c) ==
    /\ pc[c] = "relay"
    /\ CloseAll(c)
    /\ pc' = [pc EXCEPT ![c] = "done"]
    /\ UNCHANGED <<mode, blocked, request, observed, reported, open>>

Handler(c) ==
    \/ Accept(c)
    \/ BadRequest(c)
    \/ Check(c)
    \/ Dial(c)
    \/ DialFails(c)
    \/ \E sni \in Host \cup {NoName} : Peek(c, sni)
    \/ Recheck(c)
    \/ Event(c)
    \/ RelayEnds(c)

ProxyNext ==
    \/ \E c \in Conn : Handler(c)
    \/ \E ip \in Ip, h \in Host : Block(ip, h) \/ Unblock(ip, h)

ProxySpec == ProxyInit /\ [][ProxyNext]_proxyVars

-----------------------------------------------------------------------------
(* Properties.                                                             *)

Dialled == {"peek", "recheck", "event", "relay"}

\* A connection always has a host to be judged by, an unnamed ClientHello
\* included, and is under the client's own address.
ProxyTypeOK ==
    /\ mode \in {"proxy", "tproxy"}
    /\ blocked \subseteq Ip \X Host
    /\ pc \in [Conn -> {"new", "request", "dial", "done"} \cup Dialled]
    /\ peer_ip \in [Conn -> Ip] /\ dest_host \in [Conn -> Host] /\ https \in [Conn -> BOOLEAN]
    /\ observed \in [Conn -> Host]
    /\ cfd \in [Conn -> BOOLEAN] /\ rfd \in [Conn -> BOOLEAN]
    /\ reported \in [Conn -> BOOLEAN]
    /\ open \in [Conn -> SUBSET Host]

\* On each of the handlers' many ways out both sockets are closed, and none is
\* closed before: no path leaks a descriptor or relays over a closed one.
SocketsPaired ==
    \A c \in Conn :
        /\ cfd[c] <=> pc[c] \notin {"new", "done"}
        /\ rfd[c] <=> pc[c] \in Dialled

\* A host that has been blocked for the client ever since it connected is
\* neither relayed to nor reported, whichever way the command thread's changes
\* fall between the checks.  In tproxy mode this holds of the name the client
\* sends as well as of the address it dials.
RefusedWhileBlocked ==
    \A c \in Conn :
        /\ pc[c] = "relay" => dest_host[c] \in open[c]
        /\ pc[c] = "relay" /\ mode = "tproxy" => observed[c] \in open[c]
        /\ reported[c] => observed[c] \in open[c]
=============================================================================
