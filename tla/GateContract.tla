---------------------------- MODULE GateContract ----------------------------
(***************************************************************************)
(* What one run of the rapid gate promises to whoever reads its result: it  *)
(* judges the N stages one after the other, a failed stage does not keep    *)
(* the later ones from being judged, and the run ends with exit code 0 or 1 *)
(* according to all of them, never to some of them.  A run may also die,    *)
(* and then it has no exit code of its own.                                 *)
(***************************************************************************)
EXTENDS Integers, Sequences

CONSTANTS
    Run,  \* the runs, each with its own result
    N     \* how many stages a run has

VARIABLES
    judged,  \* per run: the verdicts so far, in the order of the stages
    alive,   \* per run: it is under way
    exit     \* per run: its exit code, -1 while it has none

vars == <<judged, alive, exit>>

Init ==
    /\ judged = [r \in Run |-> <<>>]
    /\ alive = [r \in Run |-> FALSE]
    /\ exit = [r \in Run |-> -1]

Begin(r) ==
    /\ ~alive[r]
    /\ alive' = [alive EXCEPT ![r] = TRUE]
    /\ judged' = [judged EXCEPT ![r] = <<>>]
    /\ exit' = [exit EXCEPT ![r] = -1]

JudgeNext(r) ==
    /\ alive[r] /\ Len(judged[r]) < N
    /\ \E v \in {"passed", "failed"} :
        judged' = [judged EXCEPT ![r] = Append(@, v)]
    /\ UNCHANGED <<alive, exit>>

Verdict(r) == IF \A n \in 1..N : judged[r][n] = "passed" THEN 0 ELSE 1

End(r) ==
    /\ alive[r] /\ Len(judged[r]) = N
    /\ alive' = [alive EXCEPT ![r] = FALSE]
    /\ exit' = [exit EXCEPT ![r] = Verdict(r)]
    /\ UNCHANGED judged

Die(r) ==
    /\ alive[r]
    /\ alive' = [alive EXCEPT ![r] = FALSE]
    /\ UNCHANGED <<judged, exit>>

Next == \E r \in Run : Begin(r) \/ JudgeNext(r) \/ End(r) \/ Die(r)

Spec == Init /\ [][Next]_vars
=============================================================================
