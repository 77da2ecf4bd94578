---- MODULE MCTproxyPool ----
(* No symmetry: the runs of the pool check liveness. *)
EXTENDS TproxyPool
====
