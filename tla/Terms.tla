-------------------------------- MODULE Terms --------------------------------
(***************************************************************************)
(* Who leads a lake (terms.rs, and its callers in cluster.rs).  A term is a *)
(* number with a record in the bucket, put if absent; its claimer marks it  *)
(* alive there, and holds a lock file on its machine.  Nodes (pondra serve) *)
(* join, follow, take over and restart; one-off writers wait until the lake *)
(* is free, lead it for a moment and let it go.  Records of old terms are   *)
(* pruned.  A look at the holder is one step, and what follows from it are  *)
(* others, each a request of the bucket, so that it may be old by then.     *)
(*                                                                          *)
(* There is no clock: a mark goes stale, a ring stays unanswered, a beat is *)
(* missed or a restart takes too long only where the claimer is gone or has *)
(* been slow (Stall), and then at any time.                                 *)
(***************************************************************************)
EXTENDS Naturals, FiniteSets

CONSTANTS
    Nodes,          \* the nodes, known by their addresses
    OneOffs,        \* one-off writers, whose records have no address
    Machine,        \* the machine each of them runs on
    Apart,          \* those no other can reach, nor they the others (another network)
    Replicating,    \* nodes started with --ack replicated: silence isn't their end
    Keep,           \* KEEP: the newest terms whose records stay
    PruneWhole,     \* FALSE: a delete of a prune may fail
    MaxTerm,        \* bound: numbers that are claimed
    MaxFaults,      \* bound: crashes, restarts, stops, stalls and failing claims
    None

Procs   == Nodes \cup OneOffs
Numbers == 1 .. MaxTerm

ASSUME Constants ==
    /\ Nodes \cap OneOffs = {}
    /\ None \notin Procs
    /\ Apart \subseteq Procs
    /\ Replicating \subseteq Nodes
    /\ Keep \in Nat \ {0}
    /\ MaxTerm \in Nat /\ MaxFaults \in Nat
    /\ PruneWhole \in BOOLEAN

VARIABLES
    term,           \* cluster/term/{n}: its claimer, or None
    mark,           \* cluster/alive/{n}: the terms with a mark
    left,           \* cluster/left/{n}: the terms that stepped down
    late,           \* marks in flight of tasks that have ended
    lock,           \* the lock file of each claim, on its claimer's machine
    deafs,          \* RUNG: the terms whose claimers a process rang in vain
    proc,           \* the processes
    faults

vars == <<term, mark, left, late, lock, deafs, proc, faults>>

Steps == {"off", "look", "ring", "claim", "put", "lead", "leaving", "follow", "done"}

\* A process: where it is; the term it looks at, claims, leads or follows, and whose it is; what its claim
\* listed, and which of its two requests are done; whether it heard from the claimer it rang (a mark) or
\* follows (an answer to a beat) since; whether it is a follower, which restarts after its claim; and whether
\* it has been slower, since its claim, than others give it.
Proc == [step : Steps, n : 0 .. MaxTerm + 1, by : Procs \cup {None}, listed : SUBSET Numbers,
         did : {"none", "list", "mark"}, heard : BOOLEAN, again : BOOLEAN, slow : BOOLEAN]

TypeOK ==
    /\ term \in [Numbers -> Procs \cup {None}]
    /\ mark \in SUBSET Numbers
    /\ left \in SUBSET Numbers
    /\ late \in SUBSET Numbers
    /\ lock \in [Procs -> [Numbers -> {"none", "held", "back", "free"}]]
    /\ deafs \in [Procs -> SUBSET Numbers]
    /\ proc \in [Procs -> Proc]
    /\ faults \in 0 .. MaxFaults

NewProc == [step |-> "off", n |-> 0, by |-> None, listed |-> {}, did |-> "none",
            heard |-> FALSE, again |-> FALSE, slow |-> FALSE]

\* Nothing in the bucket yet.
Empty ==
    /\ term = [n \in Numbers |-> None]
    /\ mark = {}
    /\ left = {}
    /\ late = {}
    /\ lock = [p \in Procs |-> [n \in Numbers |-> "none"]]
    /\ deafs = [p \in Procs |-> {}]
    /\ faults = 0

Init == Empty /\ proc = [p \in Procs |-> NewProc]

-----------------------------------------------------------------------------
(* What the bucket and the machine say.                                     *)

Recorded == {n \in Numbers : term[n] # None}

\* latest: the number of the newest record, or 0.
Newest == CHOOSE n \in Recorded \cup {0} : \A k \in Recorded : k <= n

\* gone_here: p finds the lock file of q's claim of n on its machine, and nobody holds it.
GoneHere(p, q, n) == q \in Procs /\ Machine[p] = Machine[q] /\ lock[q][n] = "free"

\* superseded: the next term has a record, or this one has none any more.  (Mutant: the next alone is asked for.)
OnlyNext(m)   == m + 1 \in Recorded
Superseded(m) == (m + 1 \in Recorded) \/ (m \notin Recorded)

\* Is p the claimer of n, at work on it or coming back to it, and in time?
InTime(p, n) ==
    /\ ~proc[p].slow
    /\ \/ proc[p].n = n /\ proc[p].step \in {"put", "lead", "leaving"}
       \/ lock[p][n] = "back" /\ proc[p].step = "look"

Leads(p, n) == proc[p].step = "lead" /\ proc[p].n = n

\* answers: the leader of n's door answers p.
Answers(p, q, n) == q \in Nodes /\ {p, q} \cap Apart = {} /\ Leads(q, n)

Fault == faults < MaxFaults /\ faults' = faults + 1

At(p, step) == proc[p].step = step

\* To another look; a process that runs again looks with nothing in memory (node::restart).
Looking(p) == [NewProc EXCEPT !.step = "look", !.slow = proc[p].slow]
Forgotten(p) == [deafs EXCEPT ![p] = {}]

\* say: the lock files of a process that restarts tell that it comes back.
SayBack(p) == [lock EXCEPT ![p] = [n \in Numbers |-> IF @[n] = "held" THEN "back" ELSE @[n]]]

-----------------------------------------------------------------------------
(* holder: who holds the lake?                                              *)

Start(p) ==
    /\ At(p, "off")
    /\ proc' = [proc EXCEPT ![p] = Looking(p)]
    /\ UNCHANGED <<term, mark, left, late, lock, deafs, faults>>

\* alive says no of q's term n: the lock file, what p heard, the mark, and stepped_down.
LooksGone(p, q, n) == GoneHere(p, q, n) \/ n \in deafs[p] \/ n \notin mark \/ n \in left

\* alive may say no: the mark, or what the lock file says of a restart, may be 30 s old if q isn't in time.
\* (Mutant: a mark is never too old.)
NeverTooOld(p, q, n) == LooksGone(p, q, n)
MayBeGone(p, q, n)   == LooksGone(p, q, n) \/ ~InTime(q, n)

\* coming_back: the lock file of p's term is held by its process on its way out, or says that it restarts, and
\* since when: it may be too late for that.  (Mutant: whoever starts at its address takes it back.)
HasLock(p, n)    == lock[p][n] # "none"
ComingBack(p, n) == lock[p][n] \in {"held", "back"}
TooLate(p, n)    == lock[p][n] = "back" /\ proc[p].slow

\* The newest term is this node's own, and hasn't stepped down.
Own(p) == p \in Nodes /\ Recorded # {} /\ term[Newest] = p /\ Newest \notin left

\* It claims the number after n.
ClaimAfter(p, n) == proc' = [proc EXCEPT ![p].step = "claim", ![p].n = n + 1, ![p].by = None]

\* relock: its lock file is held again, and says nothing.
Relock(p, n) == [lock EXCEPT ![p][n] = "held"]

\* join: it comes back to its own term ...
TakeBack(p) ==
    /\ At(p, "look") /\ Own(p) /\ ComingBack(p, Newest)
    /\ proc' = [proc EXCEPT ![p].step = "lead", ![p].n = Newest, ![p].by = p]
    /\ lock' = Relock(p, Newest)
    /\ UNCHANGED <<term, mark, left, late, deafs, faults>>

\* ... or takes the next, started again after it ended.
NotBack(p) ==
    /\ At(p, "look") /\ Own(p) /\ (ComingBack(p, Newest) => TooLate(p, Newest))
    /\ ClaimAfter(p, Newest)
    /\ UNCHANGED <<term, mark, left, late, lock, deafs, faults>>

\* Nobody holds it: the next number is claimed (join, claim_one_off).
Free(p) ==
    /\ At(p, "look") /\ ~Own(p)
    /\ Recorded # {} => MayBeGone(p, term[Newest], Newest)
    /\ ClaimAfter(p, Newest)
    /\ UNCHANGED <<term, mark, left, late, lock, deafs, faults>>

\* Another holds it.
Held(p) == At(p, "look") /\ ~Own(p) /\ Recorded # {} /\ ~LooksGone(p, term[Newest], Newest)

\* What it follows or rings is the newest.  (Mutant: the one after.)
WaitingNext(p, step) == [proc[p] EXCEPT !.step = step, !.n = Newest + 1, !.by = term[Newest]]
Waiting(p, step)     == [proc[p] EXCEPT !.step = step, !.n = Newest, !.by = term[Newest]]
Following(r) == [r EXCEPT !.step = "follow", !.again = TRUE, !.heard = FALSE]

\* A node that finds a leader that answers follows it.
FollowLeader(p) ==
    /\ Held(p) /\ p \in Nodes /\ Answers(p, term[Newest], Newest)
    /\ proc' = [proc EXCEPT ![p] = Following(Waiting(p, "follow"))]
    /\ UNCHANGED <<term, mark, left, late, lock, deafs, faults>>

\* A live holder refuses a one-off writer (claim_one_off's live), or records what it has (deliver).
Served(p) ==
    /\ Held(p) /\ p \in OneOffs
    /\ proc' = [proc EXCEPT ![p] = [NewProc EXCEPT !.step = "done"]]
    /\ UNCHANGED <<term, mark, left, late, lock, deafs, faults>>

-----------------------------------------------------------------------------
(* deaf: a claimer elsewhere is rung, and marks its term or is gone.        *)

\* Ear::ring, where an answer tells: q marks its term when rung, and isn't on p's machine.
MayRing(p, q, n) == q \notin Replicating /\ ~(Machine[p] = Machine[q] /\ lock[q][n] # "none")

\* p rings a holder that doesn't answer it, before it waits for it or follows it.
Ring(p) ==
    /\ Held(p) /\ (p \in Nodes => ~Answers(p, term[Newest], Newest))
    /\ MayRing(p, term[Newest], Newest)
    /\ proc' = [proc EXCEPT ![p] = Waiting(p, "ring")]
    /\ UNCHANGED <<term, mark, left, late, lock, deafs, faults>>

\* deaf says no at once: its answer wouldn't tell, it answered lately, or the bucket refused the ring.  (One that
\* waits for a recorder looks again.)
NoRing(p) ==
    /\ Held(p) /\ p \in Nodes /\ term[Newest] \in Nodes
    /\ ~Answers(p, term[Newest], Newest)
    /\ proc' = [proc EXCEPT ![p] = Following(Waiting(p, "follow"))]
    /\ UNCHANGED <<term, mark, left, late, lock, deafs, faults>>

\* A follower that never reached its leader rings it, too.
RingLeader(p) ==
    /\ At(p, "follow") /\ ~proc[p].heard /\ ~Answers(p, proc[p].by, proc[p].n)
    /\ ~LooksGone(p, proc[p].by, proc[p].n) /\ MayRing(p, proc[p].by, proc[p].n)
    /\ proc' = [proc EXCEPT ![p].step = "ring"]
    /\ UNCHANGED <<term, mark, left, late, lock, deafs, faults>>

\* Ear::gone says no: the term was marked since, or let go.  A node follows its leader, a recorder is looked at again.
Heard(p) ==
    /\ At(p, "ring")
    /\ proc[p].heard \/ proc[p].n \notin mark
    /\ proc' = [proc EXCEPT ![p] =
          IF p \in Nodes /\ proc[p].by \in Nodes THEN Following(@) ELSE Looking(p)]
    /\ UNCHANGED <<term, mark, left, late, lock, deafs, faults>>

\* Ear::gone says yes: HEARD passed without a mark.  (A claimer in time marks its term by then.)
Deaf(p) ==
    /\ At(p, "ring") /\ ~proc[p].heard /\ proc[p].n \in mark
    /\ ~InTime(proc[p].by, proc[p].n)
    /\ deafs' = [deafs EXCEPT ![p] = @ \cup {proc[p].n}]
    /\ proc' = [proc EXCEPT ![p] = IF @.again THEN Following(@) ELSE Looking(p)]
    /\ UNCHANGED <<term, mark, left, late, lock, faults>>

-----------------------------------------------------------------------------
(* claim: the record, then the listing and the mark at once, then prune.    *)

\* A claim that won nothing: a follower restarts, the others look again.
NotWon(p) ==
    /\ proc' = [proc EXCEPT ![p] = Looking(p)]
    /\ deafs' = IF proc[p].again THEN Forgotten(p) ELSE deafs

\* Put if absent.
Put(p) ==
    /\ At(p, "claim") /\ proc[p].n \in Numbers
    /\ LET n == proc[p].n
       IN  IF term[n] # None
           THEN /\ NotWon(p)
                /\ UNCHANGED <<term, lock>>
           ELSE /\ proc' = [proc EXCEPT ![p].step = "put", ![p].by = p, ![p].slow = FALSE]
                /\ term' = [term EXCEPT ![n] = p]
                /\ lock' = [lock EXCEPT ![p][n] = "held"]
                /\ UNCHANGED deafs
    /\ UNCHANGED <<mark, left, late, faults>>

\* A mark of n, which whoever rang its claimer sees.
Marked(n) == [p \in Procs |-> IF At(p, "ring") /\ proc[p].n = n THEN [proc[p] EXCEPT !.heard = TRUE] ELSE proc[p]]

\* The listing is the first of the two to be done.
ListFirst(p) ==
    /\ At(p, "put") /\ proc[p].did = "none"
    /\ proc' = [proc EXCEPT ![p].listed = Recorded, ![p].did = "list"]
    /\ UNCHANGED <<term, mark, left, late, lock, deafs, faults>>

\* The mark is.
MarkFirst(p) ==
    /\ At(p, "put") /\ proc[p].did = "none"
    /\ mark' = mark \cup {proc[p].n}
    /\ proc' = [Marked(proc[p].n) EXCEPT ![p].did = "mark"]
    /\ UNCHANGED <<term, left, late, lock, deafs, faults>>

\* The claim's listing, and the marks, once both are done.
Listed(p) == IF proc[p].did = "list" THEN proc[p].listed ELSE Recorded
BothDone(p) == IF proc[p].did = "list" THEN mark \cup {proc[p].n} ELSE mark

\* A newer term is in the listing: this claim was made from an older view, or lost a race.
\* (Mutant: whoever put its record leads, whatever the listing has.)
NoneNewer(p)   == FALSE
NewerListed(p) == \E k \in Listed(p) : k > proc[p].n

StepAside(p) ==
    /\ At(p, "put") /\ proc[p].did # "none"
    /\ NewerListed(p)
    /\ mark' = mark \ {proc[p].n}
    /\ lock' = [lock EXCEPT ![p][proc[p].n] = "none"]
    /\ NotWon(p)
    /\ UNCHANGED <<term, left, late, faults>>

\* The listing or the mark failed: the record stays, the lock file goes.
ClaimFails(p) ==
    /\ At(p, "put") /\ Fault
    /\ lock' = [lock EXCEPT ![p][proc[p].n] = "none"]
    /\ proc' = [proc EXCEPT ![p] = IF proc[p].again THEN Looking(p) ELSE NewProc]
    /\ deafs' = Forgotten(p)
    /\ UNCHANGED <<term, mark, left, late>>

\* Below the newest Keep terms, of which n is the newest.  (Mutant: off by one.)
OneLess(n)    == {k \in Numbers : k + Keep < n + 2}
BelowFloor(n) == {k \in Numbers : k + Keep < n + 1}

\* prune, and the claim's return: a follower restarts into its term, the others lead it at once.
Prune(p) ==
    /\ At(p, "put") /\ proc[p].did # "none"
    /\ ~NewerListed(p)
    /\ LET below == IF Cardinality(Listed(p)) > 2 * Keep THEN BelowFloor(proc[p].n) ELSE {}
       IN  \E gone \in {below} \cup (IF PruneWhole THEN {} ELSE SUBSET below) :
               /\ term' = [k \in Numbers |-> IF k \in gone \cap Listed(p) THEN None ELSE term[k]]
               /\ mark' = BothDone(p) \ gone
               /\ left' = left \ gone
    /\ IF proc[p].again
       THEN /\ proc' = [Marked(proc[p].n) EXCEPT ![p] = Looking(p)]
            /\ lock' = SayBack(p)
            /\ deafs' = Forgotten(p)
       ELSE /\ proc' = [Marked(proc[p].n) EXCEPT ![p] = [NewProc EXCEPT !.step = "lead", !.n = proc[p].n, !.by = p,
                                                                        !.slow = proc[p].slow]]
            /\ UNCHANGED <<lock, deafs>>
    /\ UNCHANGED <<late, faults>>

-----------------------------------------------------------------------------
(* Leading, and letting go.                                                 *)

\* mark_every and keep_alive: a mark, when due or rung; a node looks whether it is superseded, and restarts.
Mark(p) ==
    /\ At(p, "lead")
    /\ mark' = mark \cup {proc[p].n}
    /\ IF p \in Nodes /\ Superseded(proc[p].n)
       THEN /\ proc' = [Marked(proc[p].n) EXCEPT ![p] = Looking(p)]
            /\ lock' = SayBack(p)
            /\ deafs' = Forgotten(p)
       ELSE /\ proc' = Marked(proc[p].n)
            /\ UNCHANGED <<lock, deafs>>
    /\ UNCHANGED <<term, left, late, faults>>

\* A leader restarts itself for another reason: the lake couldn't be opened, or a commit was fenced.
Restart(p) ==
    /\ At(p, "lead") /\ p \in Nodes /\ Fault
    /\ proc' = [proc EXCEPT ![p] = Looking(p)]
    /\ lock' = SayBack(p)
    /\ deafs' = Forgotten(p)
    /\ UNCHANGED <<term, mark, left, late>>

\* step_down: it says so first.  (A mark may be in flight as its task ends.)
Stop(p) ==
    /\ At(p, "lead") /\ p \in Nodes /\ Fault
    /\ left' = left \cup {proc[p].n}
    /\ proc' = [proc EXCEPT ![p].step = "leaving"]
    /\ late' \in {late, late \cup {proc[p].n}}
    /\ UNCHANGED <<term, mark, lock, deafs>>

\* release, of a leader that stepped down or of a one-off writer that is done (a mark of its may be in flight, too);
\* one that was fenced starts over.
Release(p) ==
    /\ At(p, "leaving") \/ (At(p, "lead") /\ p \in OneOffs)
    /\ mark' = mark \ {proc[p].n}
    /\ lock' = [lock EXCEPT ![p][proc[p].n] = "none"]
    /\ \E to \in {"done", "look"} :
          /\ proc' = [proc EXCEPT ![p] = IF p \in Nodes THEN NewProc ELSE [NewProc EXCEPT !.step = to]]
          /\ IF p \in OneOffs /\ to = "look" THEN Fault ELSE UNCHANGED faults
    /\ late' \in {late, IF p \in OneOffs THEN late \cup {proc[p].n} ELSE late}
    /\ UNCHANGED <<term, left, deafs>>

Land(n) ==
    /\ n \in late
    /\ late' = late \ {n}
    /\ mark' = mark \cup {n}
    /\ proc' = Marked(n)
    /\ UNCHANGED <<term, left, lock, deafs, faults>>

-----------------------------------------------------------------------------
(* Following.                                                               *)

\* A beat is answered.
Beat(p) ==
    /\ At(p, "follow") /\ ~proc[p].heard /\ Answers(p, proc[p].by, proc[p].n)
    /\ proc' = [proc EXCEPT ![p].heard = TRUE]
    /\ UNCHANGED <<term, mark, left, late, lock, deafs, faults>>

\* The leader doesn't answer any more, or too late, or says that it is cut off; one that never answered this node
\* is lost once it is gone (alive).
LeaderLost(p) ==
    IF Answers(p, proc[p].by, proc[p].n) THEN proc[proc[p].by].slow
    ELSE proc[p].heard \/ MayBeGone(p, proc[p].by, proc[p].n)

\* follow: a newer term is followed, or the next one claimed.
TakeOver(p) ==
    /\ At(p, "follow") /\ LeaderLost(p)
    /\ IF Newest > proc[p].n
       THEN /\ proc' = [proc EXCEPT ![p] = Looking(p)]
            /\ deafs' = Forgotten(p)
       ELSE /\ ClaimAfter(p, proc[p].n)
            /\ UNCHANGED deafs
    /\ UNCHANGED <<term, mark, left, late, lock, faults>>

\* follow: another term answers at the leader's address.
OtherTerm(p) ==
    /\ At(p, "follow")
    /\ \E n \in Numbers : n # proc[p].n /\ Answers(p, proc[p].by, n)
    /\ proc' = [proc EXCEPT ![p] = Looking(p)]
    /\ deafs' = Forgotten(p)
    /\ UNCHANGED <<term, mark, left, late, lock, faults>>

-----------------------------------------------------------------------------
(* Time and failures.                                                       *)

\* A claimer is slower than the others give it: paused, or cut off from the bucket.
Stall(p) ==
    /\ proc[p].step \in {"put", "lead"} /\ ~proc[p].slow /\ Fault
    /\ proc' = [proc EXCEPT ![p].slow = TRUE]
    /\ UNCHANGED <<term, mark, left, late, lock, deafs>>

\* Killed: the lock file stays, and nobody holds it.
Crash(p) ==
    /\ proc[p].step \notin {"off", "done"} /\ Fault
    /\ proc' = [proc EXCEPT ![p] = [NewProc EXCEPT !.slow = \E n \in Numbers : lock[p][n] = "back"]]
    /\ lock' = [lock EXCEPT ![p] = [n \in Numbers |-> IF @[n] = "held" THEN "free" ELSE @[n]]]
    /\ deafs' = Forgotten(p)
    /\ UNCHANGED <<term, mark, left, late>>

-----------------------------------------------------------------------------

Going(p) ==
    \/ TakeBack(p) \/ NotBack(p) \/ Free(p) \/ FollowLeader(p) \/ Ring(p) \/ NoRing(p) \/ RingLeader(p) \/ Heard(p) \/ Deaf(p)
    \/ Put(p) \/ ListFirst(p) \/ MarkFirst(p) \/ StepAside(p) \/ Prune(p)
    \/ Release(p) \/ Beat(p) \/ TakeOver(p) \/ OtherTerm(p)

Next ==
    \/ \E p \in Procs : Going(p) \/ Mark(p)
    \/ \E p \in Procs : Start(p) \/ Served(p) \/ ClaimFails(p) \/ Restart(p) \/ Stop(p) \/ Stall(p) \/ Crash(p)
    \/ \E n \in Numbers : Land(n)

Spec == Init /\ [][Next]_vars

\* A process's tasks go on, and a mark or a restart nobody keeps up gets old.
Fairness == \A p \in Procs : WF_vars(Going(p)) /\ WF_vars(Mark(p)) /\ SF_vars(Free(p)) /\ SF_vars(TakeOver(p))

-----------------------------------------------------------------------------

\* No two processes lead one term, though its number is pruned and claimed again, or its leader restarts
\* into it while others look (claim, coming_back).
OneOwner ==
    \A p, q \in Procs : \A n \in Numbers : Leads(p, n) /\ Leads(q, n) => p = q

\* A leader of the newest term that is in time looks alive to everyone, whatever they rang, read or removed,
\* and whatever became of its number, its mark and its lock file before (alive, gone_here, deaf).
LeaderLooksAlive ==
    \A q \in Procs : At(q, "lead") /\ ~proc[q].slow /\ proc[q].n = Newest =>
        LET n == proc[q].n
        IN  /\ n \in mark /\ n \notin left
            /\ \A p \in Procs : n \notin deafs[p] /\ ~GoneHere(p, q, n)

\* A leader with a newer term in the bucket finds itself superseded when it looks, whatever was pruned
\* meanwhile, unless its number was claimed again (superseded).
NewerIsSeen ==
    \A p \in Nodes : At(p, "lead") /\ proc[p].n < Newest =>
        Superseded(proc[p].n) \/ term[proc[p].n] \notin {p, None}

\* The newest number never goes back: no prune takes it, however old the claim that prunes.
NewestStays == [][Newest' >= Newest]_vars

\* A lake that some process waits for, or follows, is led again, in the end: no dead holder's mark, lock file or
\* record, and no ring, leaves everyone waiting for it (alive, deaf, follow).
LedAgain ==
    (\E p \in Procs : proc[p].step \in {"look", "follow"}) ~>
        \/ \E q \in Procs : Leads(q, Newest)
        \/ \A p \in Procs : proc[p].step \in {"off", "done"}
        \/ Newest = MaxTerm
=============================================================================
