------------------------- MODULE MCReplicatedCommit -------------------------
(* Small clusters for TLC to check ReplicatedCommit on.                     *)
EXTENDS ReplicatedCommit, TLC

CONSTANT First          \* the node that leads at first

\* Every node was started with --replicas 2 (3).
Two   == [n \in Nodes |-> 2]
Three == [n \in Nodes |-> 3]

\* Only the first leader was started with --ack replicated.
OnlyFirst == [n \in Nodes |-> IF n = First THEN 2 ELSE 1]

\* A cluster at work: First leads term 1, every other node follows it and is
\* listed as a member (change 1, in the bucket), and their copies count.
Working ==
    LET rest == Nodes \ {First}
        list == <<[by |-> 1, m |-> {rest}]>>
    IN  /\ bucket = list
        /\ fence = 1
        /\ owner = <<First>>
        /\ proc = [n \in Nodes |-> [role |-> IF n = First THEN "leading" ELSE "follower",
                                    term |-> 1, epoch |-> IF n = First THEN 1 ELSE 0]]
        /\ lead = [n \in Nodes |-> IF n # First THEN NoLead ELSE
                      [NoLead EXCEPT !.log = list, !.sent = 1, !.close = TRUE, !.committed = 1,
                                     !.flushed = 1, !.durable = 1, !.counting = rest]]
        /\ fol = [n \in Nodes |-> IF n = First THEN [NewFol({}) EXCEPT !.seen = 1] ELSE
                     [NewFol({}) EXCEPT !.seen = 1, !.run = <<1, 1>>, !.conn = 1,
                                        !.sterm = 1, !.last = 1]]
        /\ held = [n \in Nodes |-> {}]
        /\ wire = {}
        /\ acked = {[id |-> 1, change |-> list[1]]}
        /\ crashes = 0

WorkingSpec == Working /\ [][Next]_vars
FairSpec == WorkingSpec /\ Fairness

\* The same cluster restarting: First streamed change 2, and one follower kept
\* it, when the leader's process ended; its new one has claimed the term back.
Restarting ==
    LET rest   == Nodes \ {First}
        list   == <<[by |-> 1, m |-> {rest}]>>
    IN  \E f \in rest :
            /\ bucket = list
            /\ fence = 1
            /\ owner = <<First>>
            /\ proc = [n \in Nodes |-> [role |-> IF n = First THEN "opening" ELSE "follower",
                                        term |-> 1, epoch |-> 0]]
            /\ lead = [n \in Nodes |-> NoLead]
            /\ fol = [n \in Nodes |-> IF n = First THEN NewFol({}) ELSE
                         [NewFol({}) EXCEPT !.seen = 1, !.conn = 1, !.sterm = 1,
                                            !.run = IF n = f THEN <<1, 2>> ELSE <<1, 1>>,
                                            !.last = IF n = f THEN 2 ELSE 1]]
            /\ held = [n \in Nodes |-> IF n # f THEN {} ELSE
                          {[id |-> 2, term |-> 1, change |-> [by |-> 1, m |-> NoList]]}]
            /\ wire = {}
            /\ acked = {[id |-> 1, change |-> list[1]]}
            /\ crashes = 0

RestartingSpec == Restarting /\ [][Next]_vars

Symmetry == Permutations(Nodes)
SymmetryOfRest == Permutations(Nodes \ {First})
=============================================================================
