---------------------------- MODULE CommandChannel ----------------------------
(***************************************************************************)
(* What a caller of CppBridge may rely on: a command is executed once at   *)
(* most, after those handed over before it, and never after the caller was *)
(* told that it failed.  It may be lost, whatever the caller was told.     *)
(***************************************************************************)
EXTENDS Sequences

CONSTANT Cmd

VARIABLES
    result,     \* what the caller of each command knows
    before,     \* history: the commands handed over before each
    pending,    \* the commands that may still be executed
    executed

vars == <<result, before, pending, executed>>

Init ==
    /\ result = [c \in Cmd |-> "none"]
    /\ before = [c \in Cmd |-> {}]
    /\ pending = {} /\ executed = <<>>

Issue(c) ==
    /\ result[c] = "none"
    /\ result' = [result EXCEPT ![c] = "waits"]
    /\ before' = [before EXCEPT ![c] = {d \in Cmd : result[d] # "none"}]
    /\ pending' = pending \cup {c}
    /\ UNCHANGED executed

\* A caller that gives up knows nothing: its command may yet be executed.
Answer(c) ==
    /\ result[c] = "waits"
    /\ \E r \in {"ok", "timeout"} : result' = [result EXCEPT ![c] = r]
    /\ UNCHANGED <<before, pending, executed>>

\* Given up, and the caller told so if it still waits.
Refuse(c) ==
    /\ c \in pending
    /\ result' = IF result[c] = "waits" THEN [result EXCEPT ![c] = "error"] ELSE result
    /\ pending' = pending \ {c}
    /\ UNCHANGED <<before, executed>>

\* Nothing that may still be executed was handed over before it.
Execute(c) ==
    /\ c \in pending /\ before[c] \cap pending = {}
    /\ executed' = Append(executed, c)
    /\ pending' = pending \ {c}
    /\ UNCHANGED <<result, before>>

Lose ==
    /\ pending' \in SUBSET pending
    /\ UNCHANGED <<result, before, executed>>

Next == Lose \/ \E c \in Cmd : Issue(c) \/ Answer(c) \/ Refuse(c) \/ Execute(c)

Spec == Init /\ [][Next]_vars
=============================================================================
