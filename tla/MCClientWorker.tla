---- MODULE MCClientWorker ----
(* Two days of four seconds, two names, one of them limited. *)
EXTENDS ClientWorker
CONSTANTS limited, free
Names == {limited, free}
LimitedNames == {limited}
====
