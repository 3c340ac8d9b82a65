------------------------------ MODULE MCTerms ------------------------------
(* A few processes for TLC to check Terms on.                               *)
EXTENDS Terms

CONSTANTS
    Far,            \* those on a machine of their own; the others share one
    Groups          \* the processes that may ever start together

Machines == [p \in Procs |-> IF p \in Far THEN p ELSE None]

\* One group of them starts, each process when it will.
GroupInit ==
    \E group \in Groups :
        /\ Empty
        /\ proc = [p \in Procs |-> IF p \in group THEN NewProc ELSE [NewProc EXCEPT !.step = "done"]]

GroupSpec == GroupInit /\ [][Next]_vars
FairSpec == GroupSpec /\ Fairness
=============================================================================
