--------------------------- MODULE MCSequenceValues ---------------------------
(* A few calls for TLC to check SequenceValues on.                          *)
EXTENDS SequenceValues, TLC

Up    == [start |-> 1, increment |-> 1, min |-> 1, max |-> 3, cycle |-> FALSE]
Round == [start |-> 2, increment |-> -1, min |-> 1, max |-> 2, cycle |-> TRUE]
TwoShapes == {Up, Round}
ToOne     == {[value |-> 1, called |-> FALSE]}

\* A sequence was made; a node where a call runs took its first block, and gave the first of its two values.
Made == [s \in Names |-> IF s = AName THEN [shape |-> Up, last |-> 2, called |-> TRUE, version |-> 1, life |-> 1]
                                     ELSE Nothing]
MadeInit ==
    /\ nodeOf \in [Calls -> Nodes]
    /\ cat = [n |-> 3, seq |-> Made]
    /\ flying = <<>>
    /\ held = [s \in Names |-> Unknown]
    /\ seen = [i \in Nodes |-> Made]
    /\ \E i \in {nodeOf[x] : x \in Calls} :
        /\ blocks = [[j \in Nodes |-> [s \in Names |-> NoBlock]] EXCEPT
                        ![i][AName] = [version |-> 2, next |-> 2, left |-> 1, step |-> 1, life |-> 1]]
        /\ given = [[j \in Nodes |-> <<>>] EXCEPT
                        ![i] = <<[name |-> AName, value |-> 1, step |-> 1, life |-> 1, version |-> 2, after |-> 0]>>]
    /\ lock = [i \in Nodes |-> Nothing]
    /\ call = [x \in Calls |-> NoCall]
    /\ told = [i \in Nodes |-> [s \in Names |-> 0]]
    /\ takeovers = 0
MadeSpec == MadeInit /\ [][Next]_vars

Symmetry == {p @@ q : p \in Permutations(Calls), q \in Permutations(Nodes)}
=============================================================================
