----------------------------- MODULE MCRowLocks -----------------------------
(* A few owners for TLC to check RowLocks on.                               *)
EXTENDS RowLocks, TLC

CONSTANT Table1         \* the only table

OneTable == [o \in Autos |-> Table1]

\* Every owner holds a key of its own, after a statement whose call is not counted, and no two the same.
Holding ==
    \E f \in {g \in [Owners -> Keys] : \A o, p \in Owners : o # p => g[o] # g[p]} :
        /\ tab = [holder |-> [k \in Keys |-> IF \E o \in Owners : f[o] = k
                                             THEN CHOOSE o \in Owners : f[o] = k ELSE Nobody],
                  queue |-> [k \in Keys |-> <<>>],
                  held |-> [o \in Owners |-> {f[o]}], leases |-> [o \in Owners |-> Lease],
                  ended |-> [o \in Owners |-> 0], waiting |-> [o \in Owners |-> Nobody],
                  won |-> {}, flying |-> [x \in Tables |-> {}], closed |-> [x \in Tables |-> 0],
                  swept |-> Lease]
        /\ sweeping = {}
        /\ call = [c \in Calls |-> NewCall]
        /\ own = [o \in Owners |-> [step |-> "open", last |-> 0, has |-> {f[o]}, limit |-> 0, sure |-> TRUE]]
        /\ gate = Open

\* From no locks at all, or from there.
EitherSpec == (Init \/ Holding) /\ [][Next]_vars

Symmetry == Permutations(Autos) \cup Permutations(Owners \ Autos)
=============================================================================
