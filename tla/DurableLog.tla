----------------------------- MODULE DurableLog -----------------------------
(***************************************************************************)
(* What the commit path promises (replica.rs, Lake::commits): the lake is   *)
(* one log of changes.  A change that was acknowledged, or that is in the   *)
(* bucket, has its place in the log for good: no crash, takeover or         *)
(* recovery removes it, replaces it or slips another one in before it.      *)
(***************************************************************************)
EXTENDS Sequences

CONSTANT Change         \* the changes (the values of the commits)

VARIABLE decided        \* the changes decided so far, by commit number

Init == decided = <<>>

\* One more change is decided, at the end.
Decide == \E c \in Change : decided' = Append(decided, c)

Next == Decide

Spec == Init /\ [][Next]_decided
=============================================================================
