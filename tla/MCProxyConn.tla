---- MODULE MCProxyConn ----
(* Connections and hosts are interchangeable. *)
EXTENDS ProxyConn, TLC
Symmetry == Permutations(Conn) \cup Permutations(Host)
====
