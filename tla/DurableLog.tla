------------------------------ MODULE DurableLog ------------------------------
(***************************************************************************)
(* What one file of the journal promises its writer: lines are added at    *)
(* the end, what was acknowledged stays as it is, and only lines nobody    *)
(* acknowledged may disappear, from the end.                               *)
(***************************************************************************)
EXTENDS Naturals, Sequences

VARIABLES
    log,                \* the complete lines of the file
    committed           \* how many of them were acknowledged

Init == committed = Len(log)

Extend ==
    /\ Len(log') = Len(log) + 1
    /\ SubSeq(log', 1, Len(log)) = log
    /\ UNCHANGED committed

Commit ==
    /\ committed' \in committed..Len(log)
    /\ UNCHANGED log

Lose ==
    /\ \E n \in committed..Len(log) : log' = SubSeq(log, 1, n)
    /\ UNCHANGED committed

Next == Extend \/ Commit \/ Lose

Spec == Init /\ [][Next]_<<log, committed>>

=============================================================================
