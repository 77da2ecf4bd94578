------------------------------ MODULE TaskQueue ------------------------------
(***************************************************************************)
(* What the tproxy thread pool promises to the accept loop: connections    *)
(* are taken up one at a time in the order they were handed in, each once, *)
(* and once the pool is closed nothing more is handed in, while what was   *)
(* handed in before is still taken up.                                     *)
(***************************************************************************)
EXTENDS Sequences

CONSTANT Task

VARIABLES
    queue,    \* handed in and not taken up
    taken,    \* every connection taken up so far, in order
    open      \* whether more may be handed in

vars == <<queue, taken, open>>

Init == queue = <<>> /\ taken = <<>> /\ open = TRUE

HandIn(t) ==
    /\ open
    /\ queue' = Append(queue, t)
    /\ UNCHANGED <<taken, open>>

TakeUp ==
    /\ queue # <<>>
    /\ taken' = Append(taken, Head(queue))
    /\ queue' = Tail(queue)
    /\ UNCHANGED open

Close == open' = FALSE /\ UNCHANGED <<queue, taken>>

Next == (\E t \in Task : HandIn(t)) \/ TakeUp \/ Close

Spec == Init /\ [][Next]_vars
=============================================================================
