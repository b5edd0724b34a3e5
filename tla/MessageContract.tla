---------------------------- MODULE MessageContract ----------------------------
(***************************************************************************)
(* What the sender of a prompt or of a parent message is promised: the     *)
(* text enters the conversation at most once, only while its receipt is    *)
(* unanswered, and the receipt is answered at most once.                   *)
(***************************************************************************)
EXTENDS Naturals

CONSTANT Inputs

VARIABLES
    status,     \* of each input: "new", "owed" (an answer) or "answered"
    pushes      \* times its text was pushed

vars == <<status, pushes>>

Owed == {i \in Inputs : status[i] = "owed"}

Init ==
    /\ status = [i \in Inputs |-> "new"]
    /\ pushes = [i \in Inputs |-> 0]

Accept(i) ==
    /\ status[i] = "new"
    /\ status' = [status EXCEPT ![i] = "owed"]
    /\ UNCHANGED pushes

Push(S) ==
    /\ \A i \in S : pushes[i] = 0
    /\ pushes' = [i \in Inputs |-> IF i \in S THEN 1 ELSE pushes[i]]
    /\ UNCHANGED status

Answer(S) ==
    /\ status' = [i \in Inputs |-> IF i \in S THEN "answered" ELSE status[i]]
    /\ UNCHANGED pushes

Next ==
    \/ \E i \in Inputs : Accept(i)
    \/ \E S \in SUBSET Owed : Push(S) \/ Answer(S)

Spec == Init /\ [][Next]_vars
================================================================================
