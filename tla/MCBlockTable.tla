---- MODULE MCBlockTable ----
(* One client, a name, its subdomain, and two table entries at a time. *)
EXTENDS BlockTable, TLC

CONSTANTS c1, apex, sub

MCIp == {c1}
MCName == {apex, sub}
MCBelow == (apex :> {sub}) @@ (sub :> {})
====
