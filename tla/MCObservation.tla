---- MODULE MCObservation ----
(* Two names; server_name among padding, which is zeros, and an empty
   extension, in any order; with and without a session id or a record after;
   one cipher suite and compression method, two, or none. *)
EXTENDS Observation
h == <<104>>
ab == <<97, 46, 98, 98>>
Fillers == {Ext(21, Zeros(5)), Ext(2570, <<>>)}
ExtLists ==
    LET sni == {Sni(n) : n \in {h, ab}}
    IN  {<<>>} \cup {<<s>> : s \in sni \cup Fillers}
          \cup {<<s, f>> : s \in sni, f \in Fillers} \cup {<<f, s>> : s \in sni, f \in Fillers}
          \cup {<<f, s, g>> : s \in sni, f, g \in Fillers}
Fronts == {[s |-> <<>>, c |-> <<19, 1>>, m |-> <<0>>],
           [s |-> <<7, 0>>, c |-> <<19, 1, 0, 0>>, m |-> <<1, 0>>],
           [s |-> <<0>>, c |-> <<>>, m |-> <<>>]}
Hellos == {[kind |-> k, session |-> f.s, ciphers |-> f.c, methods |-> f.m, exts |-> x, after |-> a] :
             k \in {"hello", "other"}, f \in Fronts, x \in ExtLists, a \in {<<>>, <<20, 3, 3, 0>>}}
Questions == {[kind |-> k, labels |-> l] :
                k \in {"query", "answer"}, l \in {<<>>, <<h>>, <<h, <<98, 98>>>>, <<<<99>>, h, h>>}}
Messages == Hellos \cup Questions
====
