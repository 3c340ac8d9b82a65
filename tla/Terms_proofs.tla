----------------------------- MODULE Terms_proofs -----------------------------
(***************************************************************************)
(* What holds of terms for any nodes, one-off writers, machines and         *)
(* networks, any number of terms, and any crashes and stalls: two processes *)
(* never lead one term, the newest number never goes back, and a leader     *)
(* with a newer term in the bucket finds itself superseded.                 *)
(*                                                                         *)
(* All of them follow from what a claim may rely on: the record of the term *)
(* it put is there until a newer one is (PutInv).  Whoever then saw no      *)
(* newer one knows that its own record stands.                             *)
(***************************************************************************)
EXTENDS Terms, WellFoundedInduction, TLAPS

-----------------------------------------------------------------------------
(* The inductive invariant                                                 *)

\* p claims, leads or lets go of n, which has its record, or had it.
Trying      == {"put", "lead", "leaving"}
Tried(p, n) == proc[p].step \in Trying /\ proc[p].n = n

\* p's claim has its listing; p owns n once that has nothing newer.
HasList(p)    == proc[p].step = "put" /\ proc[p].did = "list"
Sure(p, n) ==
    /\ proc[p].n = n
    /\ \/ proc[p].step \in {"lead", "leaving"}
       \/ HasList(p) /\ \A k \in proc[p].listed : k <= n

\* What a process knows of is recorded, or was.
KnownInv ==
    \A p \in Procs :
        /\ proc[p].step = "claim" => proc[p].n \in 1 .. Newest + 1
        /\ proc[p].step \in {"ring", "follow"} => proc[p].n <= Newest
        /\ proc[p].step \in Trying => proc[p].n \in Numbers
        /\ HasList(p) => \A k \in proc[p].listed : k <= Newest
        /\ proc[p].step # "put" => proc[p].did = "none"

\* A record stays at least until a newer one is there.
PutInv == \A p \in Procs : \A n \in Numbers : Tried(p, n) => term[n] = p \/ Newest > n

\* One process owns a term.
OwnInv == \A p, q \in Procs : \A n \in Numbers : Sure(p, n) /\ Sure(q, n) => p = q

\* The term after an owner's, if there is a newer one, is there as long as the owner's is: prunes take the oldest.
SeenInv ==
    \A p \in Procs : \A n \in Numbers : Sure(p, n) /\ term[n] = p =>
        /\ n < Newest => n + 1 \in Recorded
        /\ \A q \in Procs : HasList(q) /\ n + 1 \in proc[q].listed => n \in proc[q].listed

IInv == TypeOK /\ KnownInv /\ PutInv /\ OwnInv

-----------------------------------------------------------------------------
(* The newest number                                                       *)

\* A bounded set of numbers has a largest one, or is empty.
LEMMA LargestIs ==
  ASSUME NEW S \in SUBSET Numbers
  PROVE  \E x \in S \cup {0} : \A y \in S : y <= x
<1> USE Constants DEF Constants
<1> DEFINE T == {MaxTerm - x : x \in S \cup {0}}
<1>1. T \in SUBSET Nat
  BY DEF Numbers
<1>2. T # {}
  OBVIOUS
<1> HIDE DEF T
<1>3. PICK d \in T : \A y \in T : ~ (<<y, d>> \in OpToRel(<, Nat))
  BY <1>1, <1>2, NatLessThanWellFounded, WFMin
<1>4. \A y \in T : ~ (y < d)
  <2> TAKE y \in T
  <2>1. y \in Nat /\ d \in Nat
    BY <1>1
  <2> QED
    BY <1>3, <2>1 DEF OpToRel
<1>5. PICK x \in S \cup {0} : d = MaxTerm - x
  BY DEF T
<1>6. \A y \in S : ~ (MaxTerm - y < MaxTerm - x)
  BY <1>4, <1>5 DEF T
<1>7. \A y \in S : y \in Nat
  BY DEF Numbers
<1>8. x \in Nat
  BY DEF Numbers
<1> QED
  BY <1>5, <1>6, <1>7, <1>8

LargestOf(S) == CHOOSE n \in S \cup {0} : \A k \in S : k <= n

\* The largest of some numbers is one of them, or 0, and nothing else is.
LEMMA LargestOfIs ==
  ASSUME NEW S \in SUBSET Numbers
  PROVE  /\ LargestOf(S) \in S \cup {0}
         /\ LargestOf(S) \in 0 .. MaxTerm
         /\ \A k \in S : k <= LargestOf(S)
         /\ \A m \in S \cup {0} : (\A k \in S : k <= m) => m = LargestOf(S)
<1> USE Constants DEF Constants
<1>1. LargestOf(S) \in S \cup {0} /\ \A k \in S : k <= LargestOf(S)
  BY LargestIs DEF LargestOf
<1>2. LargestOf(S) \in 0 .. MaxTerm
  <2>1. \A n \in S \cup {0} : n \in 0 .. MaxTerm
    BY DEF Numbers
  <2> QED
    BY <1>1, <2>1
<1>3. ASSUME NEW m \in S \cup {0}, \A k \in S : k <= m
      PROVE  m = LargestOf(S)
  <2>1. m \in Nat /\ \A k \in S : k \in Nat /\ k > 0
    BY DEF Numbers
  <2> QED
    BY <1>1, <1>2, <1>3, <2>1
<1> QED
  BY <1>1, <1>2, <1>3

\* Newest, now and after a step.
LEMMA NewestIs ==
  /\ Newest \in Recorded \cup {0} /\ Newest \in 0 .. MaxTerm
  /\ \A k \in Recorded : k <= Newest
  /\ \A m \in Recorded \cup {0} : (\A k \in Recorded : k <= m) => m = Newest
<1>1. Recorded \in SUBSET Numbers
  BY DEF Recorded
<1> QED
  BY <1>1, LargestOfIs DEF Newest, LargestOf

LEMMA NewestAfter ==
  /\ Newest' \in Recorded' \cup {0} /\ Newest' \in 0 .. MaxTerm
  /\ \A k \in Recorded' : k <= Newest'
  /\ \A m \in Recorded' \cup {0} : (\A k \in Recorded' : k <= m) => m = Newest'
<1>1. Recorded' \in SUBSET Numbers
  BY DEF Recorded
<1> QED
  BY <1>1, LargestOfIs DEF Newest, LargestOf

LEMMA NewestSame == ASSUME term' = term PROVE Newest' = Newest /\ Recorded' = Recorded
  BY DEF Newest, Recorded

-----------------------------------------------------------------------------
(* What steps do                                                           *)

\* A process is where it was; it claims, leads and owns nothing, and knows of a number that is there; it lets
\* its term go; or its mark was written first.
Same(q) ==
    /\ proc'[q].step = proc[q].step /\ proc'[q].n = proc[q].n
    /\ proc'[q].listed = proc[q].listed /\ proc'[q].did = proc[q].did
Aside(q) ==
    /\ proc'[q].did = "none"
    /\ \/ proc'[q].step \in {"off", "look", "done"}
       \/ proc'[q].step = "claim" /\ proc'[q].n \in 1 .. Newest + 1
       \/ proc'[q].step \in {"ring", "follow"} /\ proc'[q].n <= Newest
       \/ proc[q].step = "lead" /\ proc'[q].step = "leaving" /\ proc'[q].n = proc[q].n
MarkedNow(q) == proc[q].step = "put" /\ proc'[q].step = "put" /\ proc'[q].did = "mark" /\ proc'[q].n = proc[q].n

\* The steps that leave the records alone, and by which nobody comes to own one.
Quiet == term' = term /\ \A q \in Procs : Same(q) \/ Aside(q) \/ MarkedNow(q)

\* The others: a record is put; a claim has its listing; it is done, and removes old records; a leader is back.
PutIt(p) ==
    /\ proc[p].step = "claim" /\ proc[p].n \in Numbers /\ term[proc[p].n] = None
    /\ term' = [term EXCEPT ![proc[p].n] = p]
    /\ proc'[p].step = "put" /\ proc'[p].n = proc[p].n /\ proc'[p].did = "none"
ListIt(p) ==
    /\ proc[p].step = "put" /\ proc[p].did = "none"
    /\ term' = term
    /\ proc'[p].step = "put" /\ proc'[p].n = proc[p].n /\ proc'[p].did = "list" /\ proc'[p].listed = Recorded
Without(gone) == term' = [k \in Numbers |-> IF k \in gone THEN None ELSE term[k]]
PruneIt(p) ==
    /\ proc[p].step = "put" /\ proc[p].did # "none" /\ ~NewerListed(p)
    /\ \E gone \in SUBSET (BelowFloor(proc[p].n) \cap Listed(p)) :
          /\ Without(gone)
          /\ PruneWhole => gone = {} \/ gone = BelowFloor(proc[p].n) \cap Listed(p)
    /\ proc'[p].did = "none"
    /\ \/ proc'[p].step = "look"
       \/ proc'[p].step = "lead" /\ proc'[p].n = proc[p].n
BackIt(p) ==
    /\ Recorded # {} /\ term[Newest] = p
    /\ term' = term
    /\ proc'[p].step = "lead" /\ proc'[p].n = Newest /\ proc'[p].did = "none"

Effect == Quiet \/ \E p \in Procs : /\ PutIt(p) \/ ListIt(p) \/ PruneIt(p) \/ BackIt(p)
                                   /\ \A q \in Procs \ {p} : Same(q)

\* The records of processes.
LEMMA ProcTypes ==
  ASSUME TypeOK, NEW p \in Procs
  PROVE  /\ NewProc \in Proc /\ NewProc.step = "off" /\ NewProc.did = "none"
         /\ [NewProc EXCEPT !.step = "done"] \in Proc
         /\ Looking(p) \in Proc /\ Looking(p).step = "look" /\ Looking(p).did = "none"
<1>1. proc[p].slow \in BOOLEAN
  BY DEF TypeOK, Proc
<1>2. NewProc \in Proc /\ NewProc.step = "off" /\ NewProc.did = "none"
  <2>1. 0 \in 0 .. MaxTerm + 1
    BY Constants DEF Constants
  <2> QED
    BY <2>1 DEF NewProc, Proc, Steps
<1>3. \A step \in Steps : \A b \in BOOLEAN :
         /\ [NewProc EXCEPT !.step = step, !.slow = b] \in Proc
         /\ [NewProc EXCEPT !.step = step, !.slow = b].step = step
         /\ [NewProc EXCEPT !.step = step, !.slow = b].did = "none"
  BY <1>2 DEF Proc
<1>4. [NewProc EXCEPT !.step = "done"] \in Proc
  BY <1>2 DEF Proc, Steps
<1> QED
  BY <1>1, <1>2, <1>3, <1>4, ZenonT(60) DEF Looking, Steps

LEMMA FollowingTypes ==
  ASSUME NEW r \in Proc
  PROVE  /\ Following(r) \in Proc /\ Following(r).step = "follow"
         /\ Following(r).n = r.n /\ Following(r).by = r.by /\ Following(r).did = r.did
  BY DEF Following, Proc, Steps

LEMMA WaitingTypes ==
  ASSUME TypeOK, NEW p \in Procs, NEW step \in {"ring", "follow"}, Recorded # {}
  PROVE  /\ Waiting(p, step) \in Proc /\ Waiting(p, step).step = step
         /\ Waiting(p, step).n = Newest /\ Waiting(p, step).by = term[Newest]
         /\ Waiting(p, step).did = proc[p].did
<1>1. proc[p] \in Proc
  BY DEF TypeOK
<1>2. Newest \in 0 .. MaxTerm + 1 /\ Newest \in Recorded \cup {0} /\ \A k \in Recorded : k <= Newest
  BY NewestIs, Constants DEF Constants
<1>3. Newest \in Numbers
  BY <1>2 DEF Recorded, Numbers
<1>4. term[Newest] \in Procs \cup {None}
  BY <1>3 DEF TypeOK
<1> QED
  BY <1>1, <1>2, <1>4 DEF Waiting, Proc, Steps

LEMMA MarkedTypes ==
  ASSUME TypeOK, NEW n
  PROVE  /\ Marked(n) \in [Procs -> Proc]
         /\ \A q \in Procs : /\ Marked(n)[q].step = proc[q].step /\ Marked(n)[q].n = proc[q].n
                            /\ Marked(n)[q].by = proc[q].by /\ Marked(n)[q].listed = proc[q].listed
                            /\ Marked(n)[q].did = proc[q].did /\ Marked(n)[q].slow = proc[q].slow
                            /\ Marked(n)[q].again = proc[q].again
<1>1. ASSUME NEW q \in Procs
      PROVE  /\ Marked(n)[q] \in Proc
             /\ Marked(n)[q].step = proc[q].step /\ Marked(n)[q].n = proc[q].n
             /\ Marked(n)[q].by = proc[q].by /\ Marked(n)[q].listed = proc[q].listed
             /\ Marked(n)[q].did = proc[q].did /\ Marked(n)[q].slow = proc[q].slow
             /\ Marked(n)[q].again = proc[q].again
  <2>1. proc[q] \in Proc
    BY DEF TypeOK
  <2> QED
    BY <2>1 DEF Marked, Proc
<1>2. Marked(n) = [q \in Procs |-> Marked(n)[q]]
  BY DEF Marked
<1> QED
  BY <1>1, <1>2

LEMMA LockTypes ==
  ASSUME TypeOK, NEW p \in Procs, NEW n \in Numbers
  PROVE  /\ SayBack(p) \in [Procs -> [Numbers -> {"none", "held", "back", "free"}]]
         /\ Relock(p, n) \in [Procs -> [Numbers -> {"none", "held", "back", "free"}]]
         /\ [lock EXCEPT ![p][n] = "none"] \in [Procs -> [Numbers -> {"none", "held", "back", "free"}]]
         /\ Forgotten(p) \in [Procs -> SUBSET Numbers]
<1>1. lock[p] \in [Numbers -> {"none", "held", "back", "free"}]
  BY DEF TypeOK
<1>2. [k \in Numbers |-> IF lock[p][k] = "held" THEN "back" ELSE lock[p][k]]
        \in [Numbers -> {"none", "held", "back", "free"}]
  BY <1>1
<1>3. SayBack(p) = [lock EXCEPT ![p] = [k \in Numbers |-> IF lock[p][k] = "held" THEN "back" ELSE lock[p][k]]]
  BY DEF SayBack, TypeOK
<1>4. SayBack(p) \in [Procs -> [Numbers -> {"none", "held", "back", "free"}]]
  BY <1>2, <1>3 DEF TypeOK
<1>5. Relock(p, n) \in [Procs -> [Numbers -> {"none", "held", "back", "free"}]]
  BY <1>1 DEF Relock, TypeOK
<1> QED
  BY <1>1, <1>4, <1>5 DEF Forgotten, TypeOK

\* A step that moves one process aside.
LEMMA AsideIs ==
  ASSUME TypeOK, NEW p \in Procs, NEW r \in Proc, proc' = [proc EXCEPT ![p] = r], term' = term,
         r.did = "none",
         \/ r.step \in {"off", "look", "done"}
         \/ r.step = "claim" /\ r.n \in 1 .. Newest + 1
         \/ r.step \in {"ring", "follow"} /\ r.n <= Newest
         \/ proc[p].step = "lead" /\ r.step = "leaving" /\ r.n = proc[p].n
  PROVE  proc' \in [Procs -> Proc] /\ term' \in [Numbers -> Procs \cup {None}] /\ Quiet
<1>1. proc' \in [Procs -> Proc] /\ proc'[p] = r /\ \A q \in Procs \ {p} : proc'[q] = proc[q]
  BY DEF TypeOK
<1>2. Aside(p)
  BY <1>1 DEF Aside
<1>3. \A q \in Procs \ {p} : Same(q)
  BY <1>1 DEF Same
<1> QED
  BY <1>1, <1>2, <1>3 DEF Quiet, TypeOK

\* A step that leaves every process where it is.
LEMMA SameIs ==
  ASSUME TypeOK, proc' \in [Procs -> Proc], term' = term,
         \A q \in Procs : /\ proc'[q].step = proc[q].step /\ proc'[q].n = proc[q].n
                          /\ proc'[q].listed = proc[q].listed /\ proc'[q].did = proc[q].did
  PROVE  term' \in [Numbers -> Procs \cup {None}] /\ Quiet
  BY DEF Quiet, Same, TypeOK

\* A mark of n.
LEMMA MarkedIs ==
  ASSUME TypeOK, NEW n, proc' = Marked(n), term' = term
  PROVE  proc' \in [Procs -> Proc] /\ term' \in [Numbers -> Procs \cup {None}] /\ Quiet
  BY MarkedTypes, SameIs

\* A claim of the number after n.
LEMMA ClaimAfterIs ==
  ASSUME TypeOK, KnownInv, NEW p \in Procs, proc[p].step # "put", NEW n \in 0 .. MaxTerm, n <= Newest,
         ClaimAfter(p, n), term' = term
  PROVE  proc' \in [Procs -> Proc] /\ term' \in [Numbers -> Procs \cup {None}] /\ Quiet
<1>1. n + 1 \in 0 .. MaxTerm + 1 /\ n + 1 \in 1 .. Newest + 1
  BY NewestIs, Constants DEF Constants
<1>2. proc[p] \in Proc /\ proc[p].did = "none"
  BY DEF TypeOK, KnownInv
<1> DEFINE r == [proc[p] EXCEPT !.step = "claim", !.n = n + 1, !.by = None]
<1>3. r \in Proc /\ r.step = "claim" /\ r.n = n + 1 /\ r.did = "none"
  BY <1>1, <1>2 DEF Proc, Steps
<1>4. proc' = [proc EXCEPT ![p] = r]
  BY DEF ClaimAfter
<1> HIDE DEF r
<1> QED
  BY <1>1, <1>3, <1>4, AsideIs

\* Looking for a holder.
LEMMA LookSteps ==
  ASSUME TypeOK, KnownInv, NEW p \in Procs,
         Start(p) \/ NotBack(p) \/ Free(p) \/ FollowLeader(p) \/ Served(p) \/ Ring(p) \/ NoRing(p)
  PROVE  TypeOK' /\ Quiet
<1>1. CASE Start(p)
  BY <1>1, ProcTypes, AsideIs DEF Start, TypeOK
<1>2. CASE NotBack(p) \/ Free(p)
  <2>1. proc[p].step # "put" /\ ClaimAfter(p, Newest) /\ UNCHANGED <<term, mark, left, late, lock, deafs, faults>>
    BY <1>2 DEF NotBack, Free, At
  <2>2. proc' \in [Procs -> Proc] /\ Quiet
    BY <2>1, NewestIs, ClaimAfterIs
  <2> QED
    BY <2>1, <2>2 DEF TypeOK
<1>3. CASE FollowLeader(p) \/ NoRing(p)
  <2>1. /\ Recorded # {} /\ proc' = [proc EXCEPT ![p] = Following(Waiting(p, "follow"))]
        /\ UNCHANGED <<term, mark, left, late, lock, deafs, faults>> /\ proc[p].step = "look"
    BY <1>3 DEF FollowLeader, NoRing, Held, At
  <2>2. proc[p].did = "none"
    BY <2>1 DEF KnownInv
  <2>3. /\ Following(Waiting(p, "follow")) \in Proc /\ Following(Waiting(p, "follow")).step = "follow"
        /\ Following(Waiting(p, "follow")).n = Newest /\ Following(Waiting(p, "follow")).did = "none"
    BY <2>1, <2>2, WaitingTypes, FollowingTypes
  <2>5. Newest <= Newest
    BY NewestIs, Constants DEF Constants
  <2>4. proc' \in [Procs -> Proc] /\ Quiet
    BY <2>1, <2>3, <2>5, AsideIs
  <2> QED
    BY <2>1, <2>4 DEF TypeOK
<1>4. CASE Served(p)
  BY <1>4, ProcTypes, AsideIs DEF Served, TypeOK, NewProc
<1>5. CASE Ring(p)
  <2>1. /\ Recorded # {} /\ proc' = [proc EXCEPT ![p] = Waiting(p, "ring")]
        /\ UNCHANGED <<term, mark, left, late, lock, deafs, faults>> /\ proc[p].step = "look"
    BY <1>5 DEF Ring, Held, At
  <2>2. /\ Waiting(p, "ring") \in Proc /\ Waiting(p, "ring").step = "ring"
        /\ Waiting(p, "ring").n = Newest /\ Waiting(p, "ring").did = "none"
    BY <2>1, WaitingTypes DEF KnownInv
  <2>4. Newest <= Newest
    BY NewestIs, Constants DEF Constants
  <2>3. proc' \in [Procs -> Proc] /\ Quiet
    BY <2>1, <2>2, <2>4, AsideIs
  <2> QED
    BY <2>1, <2>3 DEF TypeOK
<1> QED
  BY <1>1, <1>2, <1>3, <1>4, <1>5

\* Ringing it.
LEMMA RingSteps ==
  ASSUME TypeOK, KnownInv, NEW p \in Procs, RingLeader(p) \/ Heard(p) \/ Deaf(p)
  PROVE  TypeOK' /\ Quiet
<1>1. /\ proc[p] \in Proc /\ proc[p].did = "none" /\ proc[p].n <= Newest
      /\ proc[p].n \in 0 .. MaxTerm + 1 /\ proc[p].step \in {"ring", "follow"}
      /\ UNCHANGED <<term, mark, left, late, lock, faults>>
  BY DEF RingLeader, Heard, Deaf, At, KnownInv, TypeOK, Proc
<1>2. ASSUME NEW r \in Proc, proc' = [proc EXCEPT ![p] = r], r.did = "none",
             r.step = "look" \/ (r.step \in {"ring", "follow"} /\ r.n = proc[p].n)
      PROVE  proc' \in [Procs -> Proc] /\ Quiet
  BY <1>1, <1>2, AsideIs
<1>3. /\ Following(proc[p]) \in Proc /\ Following(proc[p]).step = "follow"
      /\ Following(proc[p]).n = proc[p].n /\ Following(proc[p]).did = "none"
      /\ Looking(p) \in Proc /\ Looking(p).step = "look" /\ Looking(p).did = "none"
  BY <1>1, FollowingTypes, ProcTypes
<1>4. CASE RingLeader(p)
  <2> DEFINE r == [proc[p] EXCEPT !.step = "ring"]
  <2>1. r \in Proc /\ r.step = "ring" /\ r.n = proc[p].n /\ r.did = "none"
    BY <1>1 DEF Proc, Steps
  <2>2. proc' = [proc EXCEPT ![p] = r] /\ deafs' = deafs
    BY <1>4 DEF RingLeader
  <2> HIDE DEF r
  <2>3. proc' \in [Procs -> Proc] /\ Quiet
    BY <2>1, <2>2, <1>2
  <2> QED
    BY <1>1, <2>2, <2>3 DEF TypeOK
<1>5. CASE Heard(p)
  <2> DEFINE r == IF p \in Nodes /\ proc[p].by \in Nodes THEN Following(proc[p]) ELSE Looking(p)
  <2>1. r \in Proc /\ r.did = "none" /\ (r.step = "look" \/ (r.step = "follow" /\ r.n = proc[p].n))
    BY <1>3
  <2>2. proc' = [proc EXCEPT ![p] = r] /\ deafs' = deafs
    BY <1>5 DEF Heard, TypeOK
  <2> HIDE DEF r
  <2>3. proc' \in [Procs -> Proc] /\ Quiet
    BY <2>1, <2>2, <1>2
  <2> QED
    BY <1>1, <2>2, <2>3 DEF TypeOK
<1>6. CASE Deaf(p)
  <2> DEFINE r == IF proc[p].again THEN Following(proc[p]) ELSE Looking(p)
  <2>1. r \in Proc /\ r.did = "none" /\ (r.step = "look" \/ (r.step = "follow" /\ r.n = proc[p].n))
    BY <1>3
  <2>2. proc' = [proc EXCEPT ![p] = r] /\ deafs' = [deafs EXCEPT ![p] = @ \cup {proc[p].n}]
    BY <1>6 DEF Deaf, TypeOK
  <2> HIDE DEF r
  <2>3. proc' \in [Procs -> Proc] /\ Quiet
    BY <2>1, <2>2, <1>2
  <2>4. proc[p].n \in Numbers
    BY <1>6 DEF Deaf, TypeOK
  <2>5. deafs' \in [Procs -> SUBSET Numbers]
    BY <2>2, <2>4 DEF TypeOK
  <2> QED
    BY <1>1, <2>3, <2>5 DEF TypeOK
<1> QED
  BY <1>4, <1>5, <1>6

\* A claim that comes to nothing.
LEMMA NotWonIs ==
  ASSUME TypeOK, NEW p \in Procs, NotWon(p), term' = term
  PROVE  /\ proc' \in [Procs -> Proc] /\ term' \in [Numbers -> Procs \cup {None}] /\ Quiet
         /\ deafs' \in [Procs -> SUBSET Numbers]
<1>1. proc' \in [Procs -> Proc] /\ Quiet /\ term' \in [Numbers -> Procs \cup {None}]
  BY ProcTypes, AsideIs DEF NotWon
<1>2. deafs' \in [Procs -> SUBSET Numbers]
  BY DEF NotWon, Forgotten, TypeOK
<1> QED
  BY <1>1, <1>2

\* Claiming.
LEMMA PutStep ==
  ASSUME TypeOK, KnownInv, NEW p \in Procs, Put(p)
  PROVE  TypeOK' /\ (Quiet \/ (PutIt(p) /\ \A q \in Procs \ {p} : Same(q)))
<1> DEFINE n == proc[p].n
           r == [proc[p] EXCEPT !.step = "put", !.by = p, !.slow = FALSE]
<1>1. n \in Numbers /\ proc[p].step = "claim" /\ proc[p].did = "none" /\ proc[p] \in Proc
  BY DEF Put, At, TypeOK, KnownInv
<1>2. UNCHANGED <<mark, left, late, faults>>
  BY DEF Put
<1>3. CASE term[n] # None
  <2>1. NotWon(p) /\ UNCHANGED <<term, lock>>
    BY <1>3 DEF Put
  <2> QED
    BY <2>1, <1>2, NotWonIs DEF TypeOK
<1>4. CASE term[n] = None
  <2>1. /\ proc' = [proc EXCEPT ![p] = r]
        /\ term' = [term EXCEPT ![n] = p]
        /\ lock' = [lock EXCEPT ![p][n] = "held"]
        /\ deafs' = deafs
    BY <1>4 DEF Put
  <2>2. r \in Proc /\ r.step = "put" /\ r.n = n /\ r.did = "none"
    BY <1>1 DEF Proc, Steps
  <2> HIDE DEF r
  <2>3. proc' \in [Procs -> Proc] /\ proc'[p] = r /\ \A q \in Procs \ {p} : proc'[q] = proc[q]
    BY <2>1, <2>2 DEF TypeOK
  <2>4. term' \in [Numbers -> Procs \cup {None}]
    BY <2>1, <1>1 DEF TypeOK
  <2>5. lock' \in [Procs -> [Numbers -> {"none", "held", "back", "free"}]]
    BY <2>1, <1>1, LockTypes DEF Relock
  <2>6. TypeOK'
    BY <1>2, <2>1, <2>3, <2>4, <2>5 DEF TypeOK
  <2>7. PutIt(p)
    BY <1>1, <1>4, <2>1, <2>2, <2>3 DEF PutIt
  <2>8. \A q \in Procs \ {p} : Same(q)
    BY <2>3 DEF Same
  <2> QED
    BY <2>6, <2>7, <2>8
<1> QED
  BY <1>3, <1>4

LEMMA ListStep ==
  ASSUME TypeOK, KnownInv, NEW p \in Procs, ListFirst(p)
  PROVE  TypeOK' /\ ListIt(p) /\ \A q \in Procs \ {p} : Same(q)
<1> DEFINE r == [proc[p] EXCEPT !.listed = Recorded, !.did = "list"]
<1>1. proc[p].step = "put" /\ proc[p].did = "none" /\ proc[p] \in Proc
  BY DEF ListFirst, At, TypeOK
<1>2. proc' = [proc EXCEPT ![p] = r] /\ UNCHANGED <<term, mark, left, late, lock, deafs, faults>>
  BY DEF ListFirst, TypeOK
<1>3. Recorded \in SUBSET Numbers
  BY DEF Recorded
<1>4. r \in Proc /\ r.step = "put" /\ r.n = proc[p].n /\ r.did = "list" /\ r.listed = Recorded
  BY <1>1, <1>3 DEF Proc
<1> HIDE DEF r
<1>5. proc' \in [Procs -> Proc] /\ proc'[p] = r /\ \A q \in Procs \ {p} : proc'[q] = proc[q]
  BY <1>2, <1>4 DEF TypeOK
<1> QED
  BY <1>1, <1>2, <1>4, <1>5 DEF TypeOK, ListIt, Same

LEMMA ClaimSteps ==
  ASSUME TypeOK, KnownInv, NEW p \in Procs, MarkFirst(p) \/ StepAside(p) \/ ClaimFails(p)
  PROVE  TypeOK' /\ Quiet
<1>1. proc[p] \in Proc /\ proc[p].step = "put" /\ proc[p].n \in Numbers
  BY DEF MarkFirst, StepAside, ClaimFails, At, TypeOK, KnownInv, Trying
<1>2. CASE MarkFirst(p)
  <2> DEFINE r == [Marked(proc[p].n)[p] EXCEPT !.did = "mark"]
  <2>1. r \in Proc /\ r.step = "put" /\ r.n = proc[p].n /\ r.did = "mark"
    BY <1>1, MarkedTypes DEF Proc
  <2>2. /\ proc' = [Marked(proc[p].n) EXCEPT ![p] = r] /\ mark' = mark \cup {proc[p].n}
        /\ UNCHANGED <<term, left, late, lock, deafs, faults>>
    BY <1>2, MarkedTypes DEF MarkFirst
  <2> HIDE DEF r
  <2>3. proc' \in [Procs -> Proc] /\ proc'[p] = r /\ \A q \in Procs \ {p} : proc'[q] = Marked(proc[p].n)[q]
    BY <2>1, <2>2, MarkedTypes
  <2>4. MarkedNow(p)
    BY <1>1, <2>1, <2>3 DEF MarkedNow
  <2>5. \A q \in Procs \ {p} : Same(q)
    BY <2>3, MarkedTypes DEF Same
  <2> QED
    BY <1>1, <2>2, <2>3, <2>4, <2>5 DEF TypeOK, Quiet
<1>3. CASE StepAside(p)
  <2>1. /\ mark' = mark \ {proc[p].n} /\ lock' = [lock EXCEPT ![p][proc[p].n] = "none"]
        /\ NotWon(p) /\ UNCHANGED <<term, left, late, faults>>
    BY <1>3 DEF StepAside
  <2>2. lock' \in [Procs -> [Numbers -> {"none", "held", "back", "free"}]]
    BY <2>1, <1>1, LockTypes
  <2> QED
    BY <2>1, <2>2, NotWonIs DEF TypeOK
<1>4. CASE ClaimFails(p)
  <2> DEFINE r == IF proc[p].again THEN Looking(p) ELSE NewProc
  <2>1. r \in Proc /\ r.step \in {"look", "off"} /\ r.did = "none"
    BY ProcTypes
  <2>2. /\ proc' = [proc EXCEPT ![p] = r] /\ lock' = [lock EXCEPT ![p][proc[p].n] = "none"]
        /\ deafs' = Forgotten(p) /\ UNCHANGED <<term, mark, left, late>> /\ Fault
    BY <1>4 DEF ClaimFails
  <2> HIDE DEF r
  <2>3. /\ lock' \in [Procs -> [Numbers -> {"none", "held", "back", "free"}]]
        /\ deafs' \in [Procs -> SUBSET Numbers]
    BY <2>2, <1>1, LockTypes
  <2>4. faults' \in 0 .. MaxFaults
    BY <2>2, Constants DEF Fault, TypeOK, Constants
  <2>5. proc' \in [Procs -> Proc] /\ Quiet
    BY <2>1, <2>2, AsideIs
  <2> QED
    BY <2>2, <2>3, <2>4, <2>5 DEF TypeOK
<1> QED
  BY <1>2, <1>3, <1>4

LEMMA PruneStep ==
  ASSUME TypeOK, KnownInv, NEW p \in Procs, Prune(p)
  PROVE  TypeOK' /\ PruneIt(p) /\ \A q \in Procs \ {p} : Same(q)
<1> DEFINE n == proc[p].n
           below == IF Cardinality(Listed(p)) > 2 * Keep THEN BelowFloor(n) ELSE {}
           lead == [NewProc EXCEPT !.step = "lead", !.n = n, !.by = p, !.slow = proc[p].slow]
           r == IF proc[p].again THEN Looking(p) ELSE lead
<1>1. /\ proc[p] \in Proc /\ proc[p].step = "put" /\ proc[p].did # "none" /\ n \in Numbers
      /\ ~NewerListed(p) /\ UNCHANGED <<late, faults>>
  BY DEF Prune, At, TypeOK, KnownInv, Trying
<1>2. PICK gone \in {below} \cup (IF PruneWhole THEN {} ELSE SUBSET below) :
         /\ term' = [k \in Numbers |-> IF k \in gone \cap Listed(p) THEN None ELSE term[k]]
         /\ mark' = BothDone(p) \ gone
         /\ left' = left \ gone
  BY DEF Prune
<1>3. gone \subseteq BelowFloor(n) /\ (PruneWhole => gone = {} \/ gone = BelowFloor(n))
  BY <1>2
<1>4. Without(gone \cap Listed(p))
  BY <1>2 DEF Without
<1>5. term' \in [Numbers -> Procs \cup {None}]
  BY <1>2 DEF TypeOK
<1>6. mark' \in SUBSET Numbers /\ left' \in SUBSET Numbers
  BY <1>1, <1>2 DEF TypeOK, BothDone
<1>7. lead \in Proc /\ lead.step = "lead" /\ lead.n = n /\ lead.did = "none"
  BY <1>1, ProcTypes, ZenonT(60) DEF Proc, Steps, NewProc
<1>8. r \in Proc /\ r.did = "none" /\ (r.step = "look" \/ (r.step = "lead" /\ r.n = n))
  BY <1>7, ProcTypes
<1>9. proc' = [Marked(n) EXCEPT ![p] = r]
  BY <1>1 DEF Prune
<1>10. lock' \in [Procs -> [Numbers -> {"none", "held", "back", "free"}]] /\ deafs' \in [Procs -> SUBSET Numbers]
  <2>1. CASE proc[p].again
    BY <1>1, <2>1, LockTypes DEF Prune
  <2>2. CASE ~proc[p].again
    BY <2>2 DEF Prune, TypeOK
  <2> QED
    BY <2>1, <2>2
<1> HIDE DEF r, n, below, lead
<1>11. proc' \in [Procs -> Proc] /\ proc'[p] = r /\ \A q \in Procs \ {p} : proc'[q] = Marked(n)[q]
  BY <1>8, <1>9, MarkedTypes
<1>12. \A q \in Procs \ {p} : Same(q)
  BY <1>11, MarkedTypes DEF Same
<1>13. TypeOK'
  BY <1>1, <1>5, <1>6, <1>10, <1>11 DEF TypeOK
<1>14. gone \cap Listed(p) \in SUBSET (BelowFloor(n) \cap Listed(p))
  BY <1>3
<1>15. PruneWhole => gone \cap Listed(p) = {} \/ gone \cap Listed(p) = BelowFloor(n) \cap Listed(p)
  BY <1>3
<1>16. PruneIt(p)
  BY <1>1, <1>4, <1>8, <1>11, <1>14, <1>15 DEF PruneIt, n
<1> QED
  BY <1>12, <1>13, <1>16

LEMMA BackStep ==
  ASSUME TypeOK, KnownInv, NEW p \in Procs, TakeBack(p)
  PROVE  TypeOK' /\ BackIt(p) /\ \A q \in Procs \ {p} : Same(q)
<1> DEFINE r == [proc[p] EXCEPT !.step = "lead", !.n = Newest, !.by = p]
<1>1. /\ proc[p] \in Proc /\ proc[p].did = "none" /\ Recorded # {} /\ term[Newest] = p
      /\ proc' = [proc EXCEPT ![p] = r] /\ lock' = Relock(p, Newest)
      /\ UNCHANGED <<term, mark, left, late, deafs, faults>>
  BY DEF TakeBack, At, Own, TypeOK, KnownInv
<1>2. Newest \in Recorded
  BY <1>1, NewestIs, Constants DEF Recorded, Numbers, Constants
<1>3. Newest \in Numbers /\ Newest \in 0 .. MaxTerm + 1
  BY <1>2, Constants DEF Recorded, Numbers, Constants
<1>4. r \in Proc /\ r.step = "lead" /\ r.n = Newest /\ r.did = "none"
  BY <1>1, <1>3 DEF Proc, Steps
<1> HIDE DEF r
<1>5. proc' \in [Procs -> Proc] /\ proc'[p] = r /\ \A q \in Procs \ {p} : proc'[q] = proc[q]
  BY <1>1, <1>4 DEF TypeOK
<1>6. lock' \in [Procs -> [Numbers -> {"none", "held", "back", "free"}]]
  BY <1>1, <1>3, LockTypes
<1> QED
  BY <1>1, <1>4, <1>5, <1>6 DEF TypeOK, BackIt, Same

\* Leading, and letting go.
LEMMA LeadSteps ==
  ASSUME TypeOK, KnownInv, NEW p \in Procs, Mark(p) \/ Restart(p) \/ Stop(p) \/ Release(p)
  PROVE  TypeOK' /\ Quiet
<1>1. /\ proc[p] \in Proc /\ proc[p].step \in {"lead", "leaving"} /\ proc[p].did = "none" /\ proc[p].n \in Numbers
      /\ term' = term
  BY DEF Mark, Restart, Stop, Release, At, TypeOK, KnownInv, Trying
<1>2. CASE Mark(p)
  <2>1. mark' = mark \cup {proc[p].n} /\ UNCHANGED <<left, late, faults>>
    BY <1>2 DEF Mark
  <2>2. CASE proc' = Marked(proc[p].n) /\ UNCHANGED <<lock, deafs>>
    BY <1>1, <2>1, <2>2, MarkedIs DEF TypeOK
  <2>3. CASE /\ proc' = [Marked(proc[p].n) EXCEPT ![p] = Looking(p)]
             /\ lock' = SayBack(p) /\ deafs' = Forgotten(p)
    <3>1. /\ proc' \in [Procs -> Proc] /\ proc'[p] = Looking(p)
          /\ \A q \in Procs \ {p} : proc'[q] = Marked(proc[p].n)[q]
      BY <2>3, ProcTypes, MarkedTypes
    <3>2. Aside(p)
      BY <3>1, ProcTypes DEF Aside
    <3>3. \A q \in Procs \ {p} : Same(q)
      BY <3>1, MarkedTypes DEF Same
    <3>4. lock' \in [Procs -> [Numbers -> {"none", "held", "back", "free"}]] /\ deafs' \in [Procs -> SUBSET Numbers]
      BY <1>1, <2>3, LockTypes
    <3> QED
      BY <1>1, <2>1, <3>1, <3>2, <3>3, <3>4 DEF TypeOK, Quiet
  <2> QED
    BY <1>2, <2>2, <2>3 DEF Mark
<1>3. ASSUME Fault
      PROVE  faults' \in 0 .. MaxFaults
  BY <1>3, Constants DEF Fault, TypeOK, Constants
<1>4. CASE Restart(p)
  <2>1. /\ proc' = [proc EXCEPT ![p] = Looking(p)] /\ lock' = SayBack(p) /\ deafs' = Forgotten(p)
        /\ UNCHANGED <<mark, left, late>> /\ Fault
    BY <1>4 DEF Restart
  <2>2. proc' \in [Procs -> Proc] /\ Quiet
    BY <1>1, <2>1, ProcTypes, AsideIs
  <2>3. lock' \in [Procs -> [Numbers -> {"none", "held", "back", "free"}]] /\ deafs' \in [Procs -> SUBSET Numbers]
    BY <1>1, <2>1, LockTypes
  <2> QED
    BY <1>1, <1>3, <2>1, <2>2, <2>3 DEF TypeOK
<1>5. CASE Stop(p)
  <2> DEFINE r == [proc[p] EXCEPT !.step = "leaving"]
  <2>1. r \in Proc /\ r.step = "leaving" /\ r.n = proc[p].n /\ r.did = "none"
    BY <1>1 DEF Proc, Steps
  <2>2. /\ proc' = [proc EXCEPT ![p] = r] /\ proc[p].step = "lead" /\ Fault
        /\ left' = left \cup {proc[p].n} /\ late' \in {late, late \cup {proc[p].n}}
        /\ UNCHANGED <<mark, lock, deafs>>
    BY <1>5 DEF Stop, At
  <2> HIDE DEF r
  <2>3. proc' \in [Procs -> Proc] /\ Quiet
    BY <1>1, <2>1, <2>2, AsideIs
  <2> QED
    BY <1>1, <1>3, <2>2, <2>3 DEF TypeOK
<1>6. CASE Release(p)
  <2>1. PICK to \in {"done", "look"} :
           /\ proc' = [proc EXCEPT ![p] = IF p \in Nodes THEN NewProc ELSE [NewProc EXCEPT !.step = to]]
           /\ Fault \/ UNCHANGED faults
    BY <1>6 DEF Release
  <2>2. /\ mark' = mark \ {proc[p].n} /\ lock' = [lock EXCEPT ![p][proc[p].n] = "none"]
        /\ late' \in {late, late \cup {proc[p].n}} /\ UNCHANGED <<left, deafs>>
    BY <1>6 DEF Release
  <2> DEFINE r == IF p \in Nodes THEN NewProc ELSE [NewProc EXCEPT !.step = to]
  <2>3. r \in Proc /\ r.step \in {"off", "look", "done"} /\ r.did = "none"
    BY ProcTypes DEF Proc, Steps
  <2>4. proc' = [proc EXCEPT ![p] = r]
    BY <2>1
  <2> HIDE DEF r
  <2>5. proc' \in [Procs -> Proc] /\ Quiet
    BY <1>1, <2>3, <2>4, AsideIs
  <2>6. lock' \in [Procs -> [Numbers -> {"none", "held", "back", "free"}]]
    BY <1>1, <2>2, LockTypes
  <2>7. faults' \in 0 .. MaxFaults
    BY <1>3, <2>1 DEF TypeOK
  <2> QED
    BY <1>1, <2>2, <2>5, <2>6, <2>7 DEF TypeOK
<1> QED
  BY <1>2, <1>4, <1>5, <1>6

\* Following.
LEMMA FollowSteps ==
  ASSUME TypeOK, KnownInv, NEW p \in Procs, Beat(p) \/ TakeOver(p) \/ OtherTerm(p)
  PROVE  TypeOK' /\ Quiet
<1>1. /\ proc[p] \in Proc /\ proc[p].step = "follow" /\ proc[p].did = "none" /\ proc[p].n <= Newest
      /\ proc[p].n \in 0 .. MaxTerm + 1 /\ UNCHANGED <<term, mark, left, late, lock, faults>>
  BY DEF Beat, TakeOver, OtherTerm, At, TypeOK, KnownInv, Proc
<1>2. CASE Beat(p)
  <2> DEFINE r == [proc[p] EXCEPT !.heard = TRUE]
  <2>1. r \in Proc /\ r.step = "follow" /\ r.n = proc[p].n /\ r.did = "none"
    BY <1>1 DEF Proc
  <2>2. proc' = [proc EXCEPT ![p] = r] /\ deafs' = deafs
    BY <1>2 DEF Beat
  <2> HIDE DEF r
  <2>3. proc' \in [Procs -> Proc] /\ Quiet
    BY <1>1, <2>1, <2>2, AsideIs
  <2> QED
    BY <1>1, <2>2, <2>3 DEF TypeOK
<1>3. CASE proc' = [proc EXCEPT ![p] = Looking(p)] /\ deafs' = Forgotten(p)
  <2>1. proc' \in [Procs -> Proc] /\ Quiet
    BY <1>1, <1>3, ProcTypes, AsideIs
  <2> QED
    BY <1>1, <1>3, <2>1 DEF TypeOK, Forgotten
<1>4. CASE ~(Newest > proc[p].n) /\ ClaimAfter(p, proc[p].n) /\ deafs' = deafs
  <2>1. proc[p].n \in 0 .. MaxTerm
    BY <1>1, NewestIs, Constants DEF Constants
  <2>2. proc' \in [Procs -> Proc] /\ Quiet
    BY <1>1, <1>4, <2>1, ClaimAfterIs
  <2> QED
    BY <1>1, <1>4, <2>2 DEF TypeOK
<1> QED
  BY <1>2, <1>3, <1>4 DEF TakeOver, OtherTerm

\* Time and failures.
LEMMA TimeSteps ==
  ASSUME TypeOK, KnownInv, (\E p \in Procs : Stall(p) \/ Crash(p)) \/ (\E n \in Numbers : Land(n))
  PROVE  TypeOK' /\ Quiet
<1>1. ASSUME NEW p \in Procs, Stall(p)
      PROVE  TypeOK' /\ Quiet
  <2> DEFINE r == [proc[p] EXCEPT !.slow = TRUE]
  <2>1. proc[p] \in Proc
    BY DEF TypeOK
  <2>2. /\ r \in Proc /\ r.step = proc[p].step /\ r.n = proc[p].n
        /\ r.listed = proc[p].listed /\ r.did = proc[p].did
    BY <2>1 DEF Proc
  <2>3. proc' = [proc EXCEPT ![p] = r] /\ Fault /\ UNCHANGED <<term, mark, left, late, lock, deafs>>
    BY <1>1 DEF Stall
  <2> HIDE DEF r
  <2>4. proc' \in [Procs -> Proc] /\ proc'[p] = r /\ \A q \in Procs \ {p} : proc'[q] = proc[q]
    BY <2>2, <2>3 DEF TypeOK
  <2>5. Quiet
    BY <2>2, <2>3, <2>4, SameIs
  <2>6. faults' \in 0 .. MaxFaults
    BY <2>3, Constants DEF Fault, TypeOK, Constants
  <2> QED
    BY <2>3, <2>4, <2>5, <2>6 DEF TypeOK
<1>2. ASSUME NEW p \in Procs, Crash(p)
      PROVE  TypeOK' /\ Quiet
  <2> DEFINE r == [NewProc EXCEPT !.slow = \E n \in Numbers : lock[p][n] = "back"]
             free == [n \in Numbers |-> IF lock[p][n] = "held" THEN "free" ELSE lock[p][n]]
  <2>1. r \in Proc /\ r.step = "off" /\ r.did = "none"
    BY ProcTypes DEF Proc
  <2>2. /\ proc' = [proc EXCEPT ![p] = r] /\ Fault /\ UNCHANGED <<term, mark, left, late>>
        /\ lock' = [lock EXCEPT ![p] = free] /\ deafs' = Forgotten(p)
    BY <1>2 DEF Crash, TypeOK
  <2>3. free \in [Numbers -> {"none", "held", "back", "free"}]
    BY DEF TypeOK
  <2> HIDE DEF r, free
  <2>4. proc' \in [Procs -> Proc] /\ Quiet
    BY <2>1, <2>2, AsideIs
  <2>5. faults' \in 0 .. MaxFaults
    BY <2>2, Constants DEF Fault, TypeOK, Constants
  <2> QED
    BY <2>2, <2>3, <2>4, <2>5 DEF TypeOK, Forgotten
<1>3. ASSUME NEW n \in Numbers, Land(n)
      PROVE  TypeOK' /\ Quiet
  BY <1>3, MarkedIs DEF Land, TypeOK
<1> QED
  BY <1>1, <1>2, <1>3

\* Every step is of one of these kinds.
LEMMA Effects ==
  ASSUME TypeOK, KnownInv, [Next]_vars
  PROVE  TypeOK' /\ Effect
<1>1. CASE UNCHANGED vars
  BY <1>1 DEF vars, TypeOK, Effect, Quiet, Same
<1>2. ASSUME NEW p \in Procs, Going(p)
      PROVE  TypeOK' /\ Effect
  BY <1>2, LookSteps, RingSteps, PutStep, ListStep, ClaimSteps, PruneStep, BackStep, LeadSteps, FollowSteps
     DEF Going, Effect
<1>3. ASSUME NEW p \in Procs, Mark(p) \/ Start(p) \/ Served(p) \/ ClaimFails(p) \/ Restart(p) \/ Stop(p)
      PROVE  TypeOK' /\ Effect
  BY <1>3, LookSteps, ClaimSteps, LeadSteps DEF Effect
<1>4. CASE (\E p \in Procs : Stall(p) \/ Crash(p)) \/ (\E n \in Numbers : Land(n))
  BY <1>4, TimeSteps DEF Effect
<1> QED
  BY <1>1, <1>2, <1>3, <1>4 DEF Next

-----------------------------------------------------------------------------
(* What they preserve                                                      *)

\* A record that is put may be the newest.
LEMMA PutNewest ==
  ASSUME TypeOK, KnownInv, NEW p \in Procs, PutIt(p)
  PROVE  /\ Recorded' = Recorded \cup {proc[p].n}
         /\ Newest' >= Newest /\ Newest' >= proc[p].n
         /\ Newest' = Newest \/ (Newest' = proc[p].n /\ proc[p].n = Newest + 1)
<1> DEFINE n == proc[p].n
<1>1. n \in Numbers /\ n \in 1 .. Newest + 1 /\ p # None
  BY Constants DEF PutIt, KnownInv, Constants
<1>2. Recorded' = Recorded \cup {n}
  BY <1>1 DEF Recorded, PutIt, TypeOK
<1>3. /\ Newest \in Recorded \cup {0} /\ Newest \in Nat /\ n \in Nat /\ Newest' \in Nat
      /\ \A k \in Recorded : k <= Newest
      /\ Newest' \in Recorded \cup {n, 0} /\ \A k \in Recorded \cup {n} : k <= Newest'
  BY <1>1, <1>2, NewestIs, NewestAfter, Constants DEF Constants
<1> HIDE DEF n
<1>4. Newest' >= Newest /\ Newest' >= n
  BY <1>3
<1>5. Newest' = Newest \/ Newest' = n
  BY <1>3, <1>4
<1>6. Newest' = n => n = Newest \/ n = Newest + 1
  BY <1>1, <1>3, <1>4
<1> QED
  BY <1>2, <1>4, <1>5, <1>6 DEF n

\* A prune takes no record of its claim's term nor of a newer one, so that the newest stays.
LEMMA PruneKeeps ==
  ASSUME TypeOK, KnownInv, PutInv, NEW p \in Procs, proc[p].step = "put",
         NEW gone \in SUBSET BelowFloor(proc[p].n), Without(gone)
  PROVE  /\ Newest' = Newest /\ Newest >= proc[p].n
         /\ \A k \in gone : k < proc[p].n
         /\ \A k \in Numbers : term'[k] = IF k \in gone THEN None ELSE term[k]
         /\ Recorded' = Recorded \ gone
<1> DEFINE n == proc[p].n
<1>1. n \in Numbers /\ Tried(p, n)
  BY DEF KnownInv, Tried, Trying
<1>2. \A k \in gone : k \in Nat /\ k < n
  BY <1>1, Constants DEF BelowFloor, Numbers, Constants
<1>3. Newest >= n
  <2>1. CASE term[n] = p
    <3>1. n \in Recorded
      BY <1>1, <2>1, Constants DEF Recorded, Constants
    <3> QED
      BY <3>1, NewestIs, Constants DEF Recorded, Numbers, Constants
  <2>2. CASE Newest > n
    BY <2>2, <1>1, NewestIs, Constants DEF Numbers, Constants
  <2> QED
    BY <1>1, <2>1, <2>2 DEF PutInv
<1>4. \A k \in Numbers : term'[k] = IF k \in gone THEN None ELSE term[k]
  BY DEF Without
<1>5. Recorded' = Recorded \ gone
  BY <1>4 DEF Recorded
<1>6. Newest \in Recorded \cup {0} /\ Newest \in Nat /\ n \in Nat /\ \A k \in Recorded : k <= Newest
  BY <1>1, NewestIs, Constants DEF Numbers, Constants
<1> HIDE DEF n
<1>7. Newest \notin gone
  BY <1>2, <1>3, <1>6
<1>8. Newest \in Recorded' \cup {0} /\ \A k \in Recorded' : k <= Newest
  BY <1>5, <1>6, <1>7
<1>9. Newest' = Newest
  BY <1>8, NewestAfter
<1> QED
  BY <1>2, <1>3, <1>4, <1>5, <1>9 DEF n

\* A process that is where it was, or was marked, tries and owns what it did.
LEMMA SameTries ==
  ASSUME NEW q \in Procs, Same(q) \/ MarkedNow(q)
  PROVE  /\ \A n : Tried(q, n)' <=> Tried(q, n)
         /\ \A n \in Numbers : Sure(q, n)' => Sure(q, n)
         /\ HasList(q)' => HasList(q) /\ proc'[q].listed = proc[q].listed
  BY DEF Same, MarkedNow, Tried, Sure, HasList, Trying

\* One that goes aside tries and owns nothing, unless it lets its term go.
LEMMA AsideTries ==
  ASSUME NEW q \in Procs, Aside(q)
  PROVE  /\ \A n : Tried(q, n)' => Tried(q, n)
         /\ \A n \in Numbers : Sure(q, n)' => Sure(q, n)
         /\ ~HasList(q)'
  BY DEF Aside, Tried, Sure, HasList, Trying

\* The newest number never goes back.
LEMMA NewestGrows ==
  ASSUME TypeOK, KnownInv, PutInv, Effect
  PROVE  Newest' >= Newest
<1>1. Newest \in Nat
  BY NewestIs
<1>2. CASE term' = term
  BY <1>1, <1>2, NewestSame
<1>3. ASSUME NEW p \in Procs, PutIt(p)
      PROVE  Newest' >= Newest
  BY <1>3, PutNewest
<1>4. ASSUME NEW p \in Procs, PruneIt(p)
      PROVE  Newest' >= Newest
  BY <1>1, <1>4, PruneKeeps DEF PruneIt
<1> QED
  BY <1>2, <1>3, <1>4 DEF Effect, Quiet, ListIt, BackIt

LEMMA KnownKept ==
  ASSUME TypeOK, TypeOK', KnownInv, PutInv, Effect
  PROVE  KnownInv'
<1> SUFFICES ASSUME NEW q \in Procs
             PROVE  /\ proc'[q].step = "claim" => proc'[q].n \in 1 .. Newest' + 1
                    /\ proc'[q].step \in {"ring", "follow"} => proc'[q].n <= Newest'
                    /\ proc'[q].step \in Trying => proc'[q].n \in Numbers
                    /\ HasList(q)' => \A k \in proc'[q].listed : k <= Newest'
                    /\ proc'[q].step # "put" => proc'[q].did = "none"
  BY DEF KnownInv
<1>1. Newest \in Nat /\ Newest' \in Nat /\ Newest' >= Newest
  BY NewestIs, NewestAfter, NewestGrows
<1>2. proc[q].n \in Nat /\ \A k \in proc[q].listed : k \in Nat
  BY Constants DEF TypeOK, Proc, Numbers, Constants
<1>3. CASE Same(q) \/ MarkedNow(q)
  BY <1>1, <1>2, <1>3 DEF Same, MarkedNow, KnownInv, HasList, Trying
<1>4. CASE Aside(q)
  <2>1. proc'[q].n \in 1 .. Newest + 1 => proc'[q].n \in 1 .. Newest' + 1
    BY <1>1
  <2>2. CASE proc'[q].step \in {"off", "look", "done"}
    BY <1>4, <2>2 DEF Aside, HasList, Trying
  <2>3. CASE proc'[q].step = "claim" /\ proc'[q].n \in 1 .. Newest + 1
    BY <1>4, <2>1, <2>3 DEF Aside, HasList, Trying
  <2>4. CASE proc'[q].step \in {"ring", "follow"} /\ proc'[q].n <= Newest
    <3>1. proc'[q].n <= Newest'
      <4>1. proc'[q].n \in Int
        BY DEF TypeOK, Proc
      <4> QED
        BY <1>1, <2>4, <4>1
    <3> QED
      BY <1>4, <2>4, <3>1 DEF Aside, HasList, Trying
  <2>5. CASE proc[q].step = "lead" /\ proc'[q].step = "leaving" /\ proc'[q].n = proc[q].n
    BY <1>4, <2>5 DEF Aside, HasList, Trying, KnownInv
  <2> QED
    BY <1>4, <2>2, <2>3, <2>4, <2>5 DEF Aside
<1>5. CASE PutIt(q) \/ ListIt(q) \/ PruneIt(q) \/ BackIt(q)
  <2>1. CASE PutIt(q)
    BY <2>1 DEF PutIt, HasList, Trying
  <2>2. CASE ListIt(q)
    BY <1>1, <2>2, NewestIs, NewestSame DEF ListIt, HasList, Trying, KnownInv
  <2>3. CASE PruneIt(q)
    BY <2>3 DEF PruneIt, HasList, Trying, KnownInv
  <2>4. CASE BackIt(q)
    <3>1. Newest \in Numbers
      BY <2>4, NewestIs DEF BackIt, Recorded, Numbers
    <3> QED
      BY <2>4, <3>1 DEF BackIt, HasList, Trying
  <2> QED
    BY <1>5, <2>1, <2>2, <2>3, <2>4
<1> QED
  BY <1>3, <1>4, <1>5 DEF Effect, Quiet

LEMMA PutKept ==
  ASSUME TypeOK, TypeOK', KnownInv, PutInv, Effect
  PROVE  PutInv'
<1> SUFFICES ASSUME NEW q \in Procs, NEW n \in Numbers, Tried(q, n)'
             PROVE  term'[n] = q \/ Newest' > n
  BY DEF PutInv
<1>1. Newest \in Nat /\ Newest' \in Nat /\ n \in Nat /\ Newest' >= Newest
  BY NewestIs, NewestAfter, NewestGrows DEF Numbers
\* It tried before, and the record it had then may only go to a newer one ...
<1>2. CASE Tried(q, n)
  <2>1. term[n] = q \/ Newest > n
    BY <1>2 DEF PutInv
  <2>2. CASE Newest > n
    BY <1>1, <2>2
  <2>3. CASE term' = term
    BY <1>1, <2>1, <2>3
  <2>4. ASSUME term[n] = q, NEW p \in Procs, PutIt(p)
        PROVE  term'[n] = q
    <3>1. proc[p].n # n
      BY <2>4, Constants DEF PutIt, Constants
    <3> QED
      BY <2>4, <3>1 DEF PutIt, TypeOK
  <2>5. ASSUME term[n] = q, NEW p \in Procs, PruneIt(p)
        PROVE  term'[n] = q \/ Newest' > n
    <3>1. PICK gone \in SUBSET BelowFloor(proc[p].n) : Without(gone)
      BY <2>5 DEF PruneIt
    <3>2. /\ Newest' = Newest /\ Newest >= proc[p].n
          /\ \A k \in gone : k < proc[p].n
          /\ term'[n] = IF n \in gone THEN None ELSE term[n]
      BY <2>5, <3>1, PruneKeeps DEF PruneIt
    <3>3. proc[p].n \in Nat
      BY DEF TypeOK, Proc
    <3> QED
      BY <1>1, <2>5, <3>2, <3>3
  <2> QED
    BY <2>1, <2>2, <2>3, <2>4, <2>5 DEF Effect, Quiet, ListIt, BackIt
\* ... or it put the record now, or took it back as the newest.
<1>3. CASE PutIt(q)
  BY <1>3 DEF PutIt, Tried, TypeOK
<1>4. CASE BackIt(q)
  BY <1>4 DEF BackIt, Tried
<1>5. CASE ListIt(q) \/ PruneIt(q)
  BY <1>2, <1>5 DEF ListIt, PruneIt, Tried, Trying
<1>6. CASE Same(q) \/ Aside(q) \/ MarkedNow(q)
  BY <1>2, <1>6, SameTries, AsideTries
<1> QED
  BY <1>3, <1>4, <1>5, <1>6 DEF Effect, Quiet

\* Who comes to own a term owns the newest one, whose record it put.
LEMMA OwnsNewest ==
  ASSUME TypeOK, KnownInv, PutInv, NEW q \in Procs, NEW n \in Numbers, Sure(q, n)', ~Sure(q, n), Effect
  PROVE  /\ Newest' = n /\ Newest = n /\ term[n] = q /\ term'[n] = q
         /\ \A p \in Procs \ {q} : Same(p)
         /\ ListIt(q) \/ PruneIt(q) \/ BackIt(q)
<1>1. n \in Nat /\ Newest \in Nat /\ \A k \in Recorded : k <= Newest
  BY NewestIs DEF Numbers
<1>2. ~(Same(q) \/ Aside(q) \/ MarkedNow(q))
  BY SameTries, AsideTries
<1>3. /\ PutIt(q) \/ ListIt(q) \/ PruneIt(q) \/ BackIt(q)
      /\ \A p \in Procs \ {q} : Same(p)
  BY <1>2 DEF Effect, Quiet
<1>4. ~PutIt(q)
  BY DEF PutIt, Sure, HasList
<1>5. CASE BackIt(q)
  BY <1>3, <1>5, NewestSame DEF BackIt, Sure, HasList
<1>6. CASE ListIt(q)
  <2>1. /\ term' = term /\ proc[q].n = n /\ proc[q].step = "put"
        /\ \A k \in Recorded : k <= n
    BY <1>6 DEF ListIt, Sure, HasList
  <2>2. ~(Newest > n)
    BY <1>1, <2>1, NewestIs DEF Numbers
  <2>3. term[n] = q
    BY <2>1, <2>2 DEF PutInv, Tried, Trying
  <2>4. n \in Recorded
    BY <2>3, Constants DEF Recorded, Constants
  <2>5. Newest = n
    BY <1>1, <2>2, <2>4
  <2> QED
    BY <1>3, <1>6, <2>1, <2>3, <2>5, NewestSame
<1>7. CASE PruneIt(q)
  <2>1. proc[q].n = n /\ proc[q].step = "put" /\ proc[q].did # "none" /\ ~NewerListed(q)
    BY <1>7 DEF PruneIt, Sure, HasList
  <2>2. proc[q].did = "mark"
    <3>1. proc[q].did \in {"list", "mark"}
      BY <2>1 DEF TypeOK, Proc
    <3>2. proc[q].did # "list"
      <4>1. \A k \in proc[q].listed : k \in Nat
        BY DEF TypeOK, Proc, Numbers
      <4> QED
        BY <1>1, <2>1, <4>1 DEF NewerListed, Listed, Sure, HasList
    <3> QED
      BY <3>1, <3>2
  <2>3. \A k \in Recorded : ~(k > n)
    BY <2>1, <2>2 DEF NewerListed, Listed
  <2>4. ~(Newest > n)
    BY <1>1, <2>3, NewestIs
  <2>5. term[n] = q
    BY <2>1, <2>4 DEF PutInv, Tried, Trying
  <2>6. n \in Recorded
    BY <2>5, Constants DEF Recorded, Constants
  <2>7. Newest = n
    BY <1>1, <2>4, <2>6
  <2>8. PICK gone \in SUBSET BelowFloor(proc[q].n) : Without(gone)
    BY <1>7 DEF PruneIt
  <2>9. Newest' = Newest /\ term'[n] = term[n]
    <3>1. n \notin gone
      BY <1>1, <2>1, <2>8, PruneKeeps
    <3> QED
      BY <2>1, <2>8, <3>1, PruneKeeps
  <2> QED
    BY <1>3, <1>7, <2>5, <2>7, <2>9
<1> QED
  BY <1>3, <1>4, <1>5, <1>6, <1>7

LEMMA OwnKept ==
  ASSUME TypeOK, KnownInv, PutInv, OwnInv, Effect
  PROVE  OwnInv'
<1> SUFFICES ASSUME NEW p \in Procs, NEW q \in Procs, NEW n \in Numbers, Sure(p, n)', Sure(q, n)', p # q
             PROVE  FALSE
  BY DEF OwnInv
<1>1. ASSUME NEW a \in Procs, NEW b \in Procs, a # b, Sure(a, n)', ~Sure(a, n), Sure(b, n)'
      PROVE  FALSE
  <2>1. Newest = n /\ term[n] = a /\ Same(b)
    BY <1>1, OwnsNewest
  <2>2. Sure(b, n)
    BY <1>1, <2>1, SameTries
  <2>3. Tried(b, n)
    BY <2>2 DEF Sure, Tried, HasList, Trying
  <2> QED
    BY <1>1, <2>1, <2>3 DEF PutInv, Numbers
<1> QED
  BY <1>1 DEF OwnInv

LEMMA SeenKept ==
  ASSUME TypeOK, KnownInv, PutInv, SeenInv, PruneWhole, Effect
  PROVE  SeenInv'
<1> SUFFICES ASSUME NEW p \in Procs, NEW n \in Numbers, Sure(p, n)', term'[n] = p
             PROVE  /\ n < Newest' => n + 1 \in Recorded'
                    /\ \A q \in Procs : HasList(q)' /\ n + 1 \in proc'[q].listed => n \in proc'[q].listed
  BY DEF SeenInv
<1>1. n \in Nat /\ Newest \in Nat /\ p # None
  BY NewestIs, Constants DEF Numbers, Constants
<1>2. CASE ~Sure(p, n)
  <2>1. /\ Newest' = n /\ Newest = n /\ \A q \in Procs \ {p} : Same(q)
        /\ ListIt(p) \/ PruneIt(p) \/ BackIt(p)
    BY <1>2, OwnsNewest
  <2>2. \A q \in Procs \ {p} : HasList(q)' => \A k \in proc'[q].listed : k <= n
    BY <2>1, SameTries DEF KnownInv
  <2>3. HasList(p)' => proc'[p].listed = Recorded
    BY <2>1 DEF ListIt, PruneIt, BackIt, HasList
  <2>4. \A k \in Recorded : k <= n
    BY <2>1, NewestIs
  <2>5. \A q \in Procs : HasList(q)' => n + 1 \notin proc'[q].listed
    BY <1>1, <2>2, <2>3, <2>4
  <2> QED
    BY <1>1, <2>1, <2>5
<1>3. CASE Sure(p, n)
  <2>1. term[n] = p
    <3>1. ~PutIt(p)
      BY <1>3 DEF PutIt, Sure, HasList
    <3>2. ASSUME NEW r \in Procs \ {p}, PutIt(r)
          PROVE  term[n] = p
      BY <3>2 DEF PutIt, TypeOK
    <3>3. ASSUME NEW r \in Procs, PruneIt(r)
          PROVE  term[n] = p
      BY <1>1, <3>3 DEF PruneIt, Without
    <3> QED
      BY <3>1, <3>2, <3>3 DEF Effect, Quiet, ListIt, BackIt
  <2>2. n \in Recorded
    BY <1>1, <2>1 DEF Recorded
  <2>3. /\ n < Newest => n + 1 \in Recorded
        /\ \A q \in Procs : HasList(q) /\ n + 1 \in proc[q].listed => n \in proc[q].listed
    BY <1>3, <2>1 DEF SeenInv
  <2>4. ASSUME NEW q \in Procs, HasList(q)', n + 1 \in proc'[q].listed
        PROVE  n \in proc'[q].listed
    <3>1. CASE Same(q) \/ MarkedNow(q)
      BY <2>3, <2>4, <3>1, SameTries
    <3>2. CASE ListIt(q)
      BY <2>2, <3>2 DEF ListIt
    <3>3. ~Aside(q) /\ ~PutIt(q) /\ ~PruneIt(q) /\ ~BackIt(q)
      BY <2>4 DEF Aside, PutIt, PruneIt, BackIt, HasList
    <3> QED
      BY <3>1, <3>2, <3>3 DEF Effect, Quiet
  <2>5. ASSUME n < Newest'
        PROVE  n + 1 \in Recorded'
    <3>1. CASE term' = term
      BY <2>3, <2>5, <3>1, NewestSame
    <3>2. ASSUME NEW r \in Procs, PutIt(r)
          PROVE  n + 1 \in Recorded'
      <4>1. /\ Recorded' = Recorded \cup {proc[r].n}
            /\ Newest' = Newest \/ (Newest' = proc[r].n /\ proc[r].n = Newest + 1)
        BY <3>2, PutNewest
      <4>2. n <= Newest
        BY <2>2, NewestIs
      <4> QED
        BY <1>1, <2>3, <2>5, <4>1, <4>2
    <3>3. ASSUME NEW r \in Procs, PruneIt(r)
          PROVE  n + 1 \in Recorded'
      <4>1. PICK gone \in SUBSET (BelowFloor(proc[r].n) \cap Listed(r)) :
                   Without(gone) /\ (gone = {} \/ gone = BelowFloor(proc[r].n) \cap Listed(r))
        BY <3>3 DEF PruneIt
      <4>2. /\ Newest' = Newest /\ Recorded' = Recorded \ gone
            /\ term'[n] = IF n \in gone THEN None ELSE term[n]
        BY <3>3, <4>1, PruneKeeps DEF PruneIt
      <4>3. n \notin gone /\ n + 1 \in Recorded
        BY <1>1, <2>3, <2>5, <4>2
      <4>4. n \in Listed(r) \/ n + 1 \notin Listed(r)
        BY <2>2, <2>3, <3>3 DEF Listed, HasList, PruneIt
      <4>5. n + 1 \in BelowFloor(proc[r].n) => n \in BelowFloor(proc[r].n)
        <5>1. proc[r].n \in Nat
          BY DEF TypeOK, Proc
        <5> QED
          BY <1>1, <5>1, Constants DEF BelowFloor, Constants
      <4> QED
        BY <4>1, <4>2, <4>3, <4>4, <4>5
    <3> QED
      BY <3>1, <3>2, <3>3 DEF Effect, Quiet, ListIt, BackIt
  <2> QED
    BY <2>4, <2>5
<1> QED
  BY <1>2, <1>3

-----------------------------------------------------------------------------
(* The theorems                                                            *)

LEMMA InitHolds == Init => IInv /\ SeenInv
<1> SUFFICES ASSUME Init PROVE IInv /\ SeenInv
  OBVIOUS
<1> USE DEF Init, Empty
<1>1. TypeOK
  <2>1. NewProc \in Proc
    <3>1. 0 \in 0 .. MaxTerm + 1
      BY Constants DEF Constants
    <3> QED
      BY <3>1 DEF NewProc, Proc, Steps
  <2>2. 0 \in 0 .. MaxFaults
    BY Constants DEF Constants
  <2> QED
    BY <2>1, <2>2 DEF TypeOK
<1>2. \A p \in Procs : proc[p].step = "off" /\ proc[p].did = "none"
  BY DEF NewProc
<1> QED
  BY <1>1, <1>2 DEF IInv, KnownInv, PutInv, OwnInv, SeenInv, Tried, Sure, HasList, Trying

LEMMA StepHolds == IInv /\ [Next]_vars => IInv'
<1> SUFFICES ASSUME IInv, [Next]_vars PROVE IInv'
  OBVIOUS
<1>1. TypeOK /\ KnownInv /\ PutInv /\ OwnInv
  BY DEF IInv
<1>2. TypeOK' /\ Effect
  BY <1>1, Effects
<1> QED
  BY <1>1, <1>2, KnownKept, PutKept, OwnKept DEF IInv

\* What a claim relies on holds throughout: the records put are there until newer ones are, and a term has
\* one owner.
THEOREM Inductive == Spec => []IInv
<1>1. Init => IInv
  BY InitHolds
<1> QED
  BY <1>1, StepHolds, PTL DEF Spec

\* Every variable keeps its type, and no number past the last is claimed.
THEOREM TypeCorrect == Spec => []TypeOK
<1>1. IInv => TypeOK
  BY DEF IInv
<1> QED
  BY <1>1, Inductive, PTL

\* No two processes lead one term, whatever is pruned and claimed again, and whoever restarts into its term
\* (claim, coming_back).
THEOREM OneLeads == Spec => []OneOwner
<1>1. IInv => OneOwner
  BY DEF IInv, OwnInv, OneOwner, Sure, Leads
<1> QED
  BY <1>1, Inductive, PTL

\* The newest number never goes back (prune).
THEOREM NewestNeverBack == Spec => NewestStays
<1>1. IInv /\ [Next]_vars => [Newest' >= Newest]_vars
  <2> SUFFICES ASSUME IInv, [Next]_vars PROVE Newest' >= Newest
    OBVIOUS
  <2> QED
    BY Effects, NewestGrows DEF IInv
<1> QED
  BY <1>1, Inductive, PTL DEF Spec, NewestStays

\* Where no delete of a prune fails, a leader with a newer term in the bucket finds itself superseded when it
\* looks, unless its number was claimed again (superseded).
THEOREM NewerSeen == ASSUME PruneWhole PROVE Spec => []NewerIsSeen
<1>1. Init => SeenInv
  BY InitHolds
<1>2. IInv /\ SeenInv /\ [Next]_vars => SeenInv'
  BY Effects, SeenKept DEF IInv
<1>3. IInv /\ SeenInv => NewerIsSeen
  <2> SUFFICES ASSUME IInv, SeenInv, NEW p \in Nodes, proc[p].step = "lead", proc[p].n < Newest,
                      term[proc[p].n] \in {p, None}
               PROVE  Superseded(proc[p].n)
    BY DEF NewerIsSeen, At
  <2>1. proc[p].n \in Numbers /\ p \in Procs
    BY DEF IInv, KnownInv, Trying, Procs
  <2>2. CASE term[proc[p].n] = None
    BY <2>2 DEF Superseded, Recorded
  <2>3. CASE term[proc[p].n] = p
    BY <2>1, <2>3 DEF SeenInv, Sure, Superseded
  <2> QED
    BY <2>2, <2>3
<1> QED
  BY <1>1, <1>2, <1>3, Inductive, PTL DEF Spec

-----------------------------------------------------------------------------
(* A leader in time looks alive: what else holds                           *)

\* q put the record of n, the newest.
Claimer(q, n) == n = Newest /\ n \in Numbers /\ term[n] = q

\* Its lock file is held as long as it tries, and says "back" only of a node that looks, or is too late; and so
\* long its mark is there, it hasn't stepped down, and only a slow one was rung in vain.
HeldAt(q, n) ==
    /\ Tried(q, n) <=> lock[q][n] = "held"
    /\ lock[q][n] = "back" => /\ q \in Nodes /\ proc[q].step \notin Trying
                              /\ proc[q].step = "look" \/ proc[q].slow
                              /\ proc[q].step = "claim" => proc[q].n = n + 1
    /\ lock[q][n] \in {"held", "back"} =>
          /\ n \in mark \/ (proc[q].step = "put" /\ proc[q].did # "mark")
          /\ n \notin left \/ proc[q].step = "leaving"
          /\ (\E p \in Procs : n \in deafs[p]) => proc[q].slow
HeldInv == \A q \in Procs : \A n \in Numbers : Claimer(q, n) => HeldAt(q, n)

\* Who rings or follows the newest knows its claimer; and only nodes follow.
RingInv ==
    \A p \in Procs :
        /\ proc[p].step \in {"ring", "follow"} /\ proc[p].n \in Numbers /\ proc[p].n = Newest => proc[p].by = term[Newest]
        /\ (proc[p].again \/ proc[p].step = "follow") => p \in Nodes

\* Nothing is known of a number that wasn't claimed yet.
FreshInv ==
    \A k \in Numbers : k > Newest =>
        /\ k \notin mark /\ k \notin left /\ k \notin late
        /\ \A p \in Procs : lock[p][k] = "none" /\ k \notin deafs[p]

\* Nothing but whether it was heard from changes of q.
Still(q) ==
    /\ proc'[q].step = proc[q].step /\ proc'[q].n = proc[q].n /\ proc'[q].by = proc[q].by
    /\ proc'[q].did = proc[q].did /\ proc'[q].slow = proc[q].slow /\ proc'[q].again = proc[q].again

Acts(p) == \/ Going(p) \/ Mark(p) \/ Start(p) \/ Served(p) \/ ClaimFails(p) \/ Restart(p) \/ Stop(p) \/ Stall(p)
           \/ Crash(p)

LEMMA NextIs == Next <=> (\E p \in Procs : Acts(p)) \/ (\E n \in Numbers : Land(n))
  BY DEF Next, Acts

\* A process's step is about itself.
LEMMA Stills ==
  ASSUME TypeOK, NEW p \in Procs, Acts(p), NEW q \in Procs \ {p}
  PROVE  Still(q)
<1>1. ASSUME NEW r, proc' = [proc EXCEPT ![p] = r]
      PROVE  Still(q)
  BY <1>1 DEF Still, TypeOK
<1>2. ASSUME NEW r, NEW n, proc' = [Marked(n) EXCEPT ![p] = r] \/ proc' = Marked(n)
      PROVE  Still(q)
  BY <1>2, MarkedTypes DEF Still
<1>3. CASE MarkFirst(p)
  BY <1>2, <1>3 DEF MarkFirst
<1>4. CASE Prune(p)
  BY <1>2, <1>4 DEF Prune
<1>5. CASE Mark(p)
  BY <1>2, <1>5 DEF Mark
<1>6. CASE Start(p) \/ NotBack(p) \/ Free(p) \/ FollowLeader(p) \/ Served(p) \/ Ring(p) \/ NoRing(p) \/ RingLeader(p)
  BY <1>1, <1>6 DEF Start, NotBack, Free, ClaimAfter, FollowLeader, Served, Ring, NoRing, RingLeader
<1>7. CASE Heard(p) \/ Deaf(p) \/ Put(p) \/ ListFirst(p) \/ StepAside(p) \/ ClaimFails(p) \/ TakeBack(p)
  BY <1>7 DEF Heard, Deaf, Put, NotWon, ListFirst, StepAside, ClaimFails, TakeBack, Still, TypeOK
<1>8. CASE Restart(p) \/ Stop(p) \/ Release(p) \/ Beat(p) \/ TakeOver(p) \/ OtherTerm(p) \/ Stall(p) \/ Crash(p)
  BY <1>8 DEF Restart, Stop, Release, Beat, TakeOver, ClaimAfter, OtherTerm, Stall, Crash, Still, TypeOK
<1> QED
  BY <1>3, <1>4, <1>5, <1>6, <1>7, <1>8 DEF Acts, Going

\* A process that tries is at a number that is there, or was.
LEMMA TriedIs ==
  ASSUME TypeOK, KnownInv, PutInv, NEW p \in Procs, proc[p].step \in Trying
  PROVE  /\ proc[p].n \in Numbers /\ proc[p].n <= Newest
         /\ proc[p].n = Newest => term[Newest] = p
<1> DEFINE n == proc[p].n
<1>1. n \in Numbers /\ n \in Nat /\ Newest \in Nat
  BY NewestIs DEF KnownInv, Numbers
<1>2. term[n] = p \/ Newest > n
  BY <1>1 DEF PutInv, Tried
<1>3. term[n] = p => n \in Recorded
  BY <1>1, Constants DEF Recorded, Constants
<1> QED
  BY <1>1, <1>2, <1>3, NewestIs

\* Where p's own step leaves it: still ringing or following the same one, or the newest.
RingsNow(p) ==
    /\ proc'[p].step \in {"ring", "follow"} =>
          \/ proc[p].step \in {"ring", "follow"} /\ proc'[p].n = proc[p].n /\ proc'[p].by = proc[p].by
          \/ proc'[p].n = Newest /\ proc'[p].by = term[Newest]
    /\ (proc'[p].again \/ proc'[p].step = "follow") => p \in Nodes

LEMMA RingsNowIs ==
  ASSUME TypeOK, KnownInv, RingInv, NEW p \in Procs, Acts(p)
  PROVE  RingsNow(p)
<1>1. /\ proc[p] \in Proc /\ proc \in [Procs -> Proc] /\ ((proc[p].again \/ proc[p].step = "follow") => p \in Nodes)
  BY DEF RingInv, TypeOK
<1>2. ASSUME NEW r \in Proc, proc'[p] = r, ~r.again, r.step \notin {"ring", "follow"}
      PROVE  RingsNow(p)
  BY <1>2 DEF RingsNow
<1>3. /\ Looking(p) \in Proc /\ ~Looking(p).again /\ Looking(p).step = "look"
      /\ NewProc \in Proc /\ ~NewProc.again /\ NewProc.step = "off"
  BY ProcTypes DEF Looking, NewProc
<1>4. ASSUME Recorded # {}, NEW step \in {"ring", "follow"}
      PROVE  /\ Waiting(p, step) \in Proc /\ Waiting(p, step).step = step
             /\ Waiting(p, step).n = Newest /\ Waiting(p, step).by = term[Newest]
             /\ Waiting(p, step).again = proc[p].again
  BY <1>1, <1>4, WaitingTypes DEF Waiting, Proc
<1>5. CASE Start(p) \/ Restart(p) \/ OtherTerm(p)
  BY <1>1, <1>2, <1>3, <1>5 DEF Start, Restart, OtherTerm
<1>6. CASE FollowLeader(p) \/ NoRing(p)
  <2>1. Recorded # {} /\ p \in Nodes /\ proc'[p] = Following(Waiting(p, "follow"))
    BY <1>1, <1>6 DEF FollowLeader, NoRing, Held
  <2> QED
    BY <1>4, <2>1, FollowingTypes DEF RingsNow
<1>7. CASE Ring(p)
  <2>1. Recorded # {} /\ proc'[p] = Waiting(p, "ring")
    BY <1>1, <1>7 DEF Ring, Held
  <2> QED
    BY <1>1, <1>4, <2>1 DEF RingsNow
<1>8. CASE RingLeader(p) \/ Heard(p) \/ Deaf(p)
  <2>1. CASE proc'[p] = Looking(p)
    BY <1>2, <1>3, <2>1
  <2>2. CASE proc'[p] = Following(proc[p]) /\ p \in Nodes /\ proc[p].step = "ring"
    BY <1>1, <2>2, FollowingTypes DEF RingsNow
  <2>3. CASE proc'[p] = [proc[p] EXCEPT !.step = "ring"] /\ proc[p].step = "follow"
    BY <1>1, <2>3 DEF RingsNow, Proc
  <2> QED
    BY <1>1, <1>8, <2>1, <2>2, <2>3 DEF RingLeader, Heard, Deaf, At
<1>9. CASE NotBack(p) \/ Free(p) \/ TakeBack(p) \/ Stop(p)
  BY <1>1, <1>9 DEF NotBack, Free, ClaimAfter, TakeBack, Stop, RingsNow, Proc
<1>10. CASE Beat(p) \/ Stall(p) \/ ListFirst(p)
  BY <1>1, <1>10 DEF Beat, Stall, ListFirst, RingsNow, Proc, At
<1>11. CASE TakeOver(p)
  <2>1. CASE proc'[p] = Looking(p)
    BY <1>2, <1>3, <2>1
  <2>2. CASE ClaimAfter(p, proc[p].n)
    BY <1>1, <2>2 DEF ClaimAfter, RingsNow, Proc
  <2> QED
    BY <1>1, <1>11, <2>1, <2>2 DEF TakeOver
<1>12. CASE Put(p) \/ StepAside(p)
  <2>1. CASE NotWon(p)
    BY <1>1, <1>2, <1>3, <2>1 DEF NotWon
  <2>2. CASE proc' = [proc EXCEPT ![p].step = "put", ![p].by = p, ![p].slow = FALSE]
    BY <1>1, <2>2 DEF RingsNow, Proc
  <2> QED
    BY <1>12, <2>1, <2>2 DEF Put, StepAside
<1>13. CASE Served(p) \/ ClaimFails(p) \/ Crash(p)
  BY <1>1, <1>13, <1>3 DEF Served, ClaimFails, Crash, RingsNow, NewProc
<1>14. CASE Release(p)
  BY <1>1, <1>14 DEF Release, RingsNow, NewProc
<1>15. CASE MarkFirst(p)
  <2>1. proc'[p] = [Marked(proc[p].n)[p] EXCEPT !.did = "mark"] /\ proc[p].step = "put"
    BY <1>15, MarkedTypes DEF MarkFirst, At
  <2> QED
    BY <1>1, <2>1, MarkedTypes DEF RingsNow, Proc
<1>16. CASE Prune(p)
  <2> DEFINE r == [NewProc EXCEPT !.step = "lead", !.n = proc[p].n, !.by = p, !.slow = proc[p].slow]
  <2>1. proc'[p] = Looking(p) \/ proc'[p] = r
    BY <1>16, MarkedTypes DEF Prune
  <2>2. r.step = "lead" /\ ~r.again
    BY DEF NewProc
  <2> QED
    BY <1>3, <2>1, <2>2 DEF RingsNow
<1>17. CASE Mark(p)
  <2>1. proc'[p] = Looking(p) \/ proc'[p] = Marked(proc[p].n)[p]
    BY <1>17, MarkedTypes DEF Mark
  <2> QED
    BY <1>1, <1>3, <1>17, <2>1, MarkedTypes DEF RingsNow, Mark, At
<1> QED
  BY <1>5, <1>6, <1>7, <1>8, <1>9, <1>10, <1>11, <1>12, <1>13, <1>14, <1>15, <1>16, <1>17 DEF Acts, Going

LEMMA RingKept ==
  ASSUME TypeOK, TypeOK', KnownInv, PutInv, RingInv, Effect, [Next]_vars
  PROVE  RingInv'
<1> SUFFICES ASSUME NEW q \in Procs
             PROVE  /\ proc'[q].step \in {"ring", "follow"} /\ proc'[q].n \in Numbers /\ proc'[q].n = Newest'
                           => proc'[q].by = term'[Newest']
                    /\ (proc'[q].again \/ proc'[q].step = "follow") => q \in Nodes
  BY DEF RingInv
<1>1. Newest' \in Nat /\ Newest \in Nat /\ Newest' >= Newest /\ proc[q].n \in Nat
  BY NewestIs, NewestAfter, NewestGrows DEF TypeOK, Proc
<1>2. Newest' = Newest /\ Newest \in Numbers => term'[Newest] = term[Newest]
  <2> SUFFICES ASSUME Newest' = Newest, Newest \in Numbers
               PROVE  term'[Newest] = term[Newest]
    OBVIOUS
  <2>1. Newest \in Recorded /\ Newest \in Recorded'
    BY NewestIs, NewestAfter DEF Numbers
  <2>2. ASSUME NEW p \in Procs, PutIt(p)
        PROVE  term'[Newest] = term[Newest]
    BY <2>1, <2>2 DEF PutIt, Recorded, TypeOK
  <2>3. ASSUME NEW p \in Procs, PruneIt(p)
        PROVE  term'[Newest] = term[Newest]
    BY <2>1, <2>3 DEF PruneIt, Without, Recorded
  <2> QED
    BY <2>2, <2>3 DEF Effect, Quiet, ListIt, BackIt
<1>3. CASE Still(q)
  <2>1. proc[q].step \in {"ring", "follow"} => proc[q].n <= Newest
    BY DEF KnownInv
  <2> QED
    BY <1>1, <1>2, <1>3, <2>1 DEF Still, RingInv
<1>4. CASE RingsNow(q)
  <2>1. proc[q].step \in {"ring", "follow"} => proc[q].n <= Newest
    BY DEF KnownInv
  <2> QED
    BY <1>1, <1>2, <1>4, <2>1 DEF RingsNow, RingInv
<1>5. ASSUME NEW n \in Numbers, Land(n)
      PROVE  Still(q)
  BY <1>5, MarkedTypes DEF Land, Still
<1>6. UNCHANGED vars => Still(q)
  BY DEF vars, Still
<1> QED
  BY <1>3, <1>4, <1>5, <1>6, NextIs, Stills, RingsNowIs

\* A step writes of one number at most, besides the marks that land late.
Adds(n) ==
    /\ mark' \subseteq mark \cup late \cup {n} /\ left' \subseteq left \cup {n} /\ late' \subseteq late \cup {n}
    /\ \A p \in Procs : deafs'[p] \subseteq deafs[p] \cup {n}
    /\ \A p \in Procs : \A k \in Numbers : k # n /\ lock[p][k] = "none" => lock'[p][k] = "none"

LEMMA AddsIs ==
  ASSUME TypeOK, KnownInv, PutInv, NEW p \in Procs, Acts(p)
  PROVE  \E n \in Nat : n <= Newest' /\ Adds(n)
<1>1. Newest \in Nat /\ Newest' \in Nat /\ Newest' >= Newest
  <2>1. Effect
    BY Effects, NextIs
  <2> QED
    BY <2>1, NewestIs, NewestAfter, NewestGrows
<1>2. ASSUME NEW n \in Nat, n <= Newest, Adds(n)
      PROVE  \E k \in Nat : k <= Newest' /\ Adds(k)
  BY <1>1, <1>2
<1>3. proc[p].n \in Nat
  BY DEF TypeOK, Proc
<1>4. SayBack(p) = [lock EXCEPT ![p] = [n \in Numbers |-> IF lock[p][n] = "held" THEN "back" ELSE lock[p][n]]]
  BY DEF SayBack, TypeOK
<1>5. ASSUME lock' \in {lock, SayBack(p)}
      PROVE  \A q \in Procs : \A k \in Numbers : lock[q][k] = "none" => lock'[q][k] = "none"
  BY <1>4, <1>5 DEF TypeOK
<1>6. ASSUME deafs' \in {deafs, Forgotten(p)}
      PROVE  \A q \in Procs : deafs'[q] \subseteq deafs[q]
  BY <1>6 DEF TypeOK, Forgotten
<1>7. ASSUME NEW n \in Numbers, lock' = [lock EXCEPT ![p][n] = "none"]
      PROVE  \A q \in Procs : \A k \in Numbers : lock[q][k] = "none" => lock'[q][k] = "none"
  BY <1>7 DEF TypeOK
<1>8. CASE UNCHANGED <<mark, left, late, lock>> /\ deafs' \in {deafs, Forgotten(p)}
  <2>1. Adds(Newest)
    BY <1>6, <1>8 DEF Adds
  <2> QED
    BY <1>1, <1>2, <2>1
<1>9. CASE TakeBack(p)
  <2>1. lock' = [lock EXCEPT ![p][Newest] = "held"] /\ UNCHANGED <<mark, left, late, deafs>>
    BY <1>9 DEF TakeBack, Relock
  <2>2. Adds(Newest)
    BY <2>1 DEF Adds, TypeOK
  <2> QED
    BY <1>1, <1>2, <2>2
<1>10. CASE Deaf(p)
  <2>1. proc[p].n <= Newest
    BY <1>10 DEF Deaf, At, KnownInv
  <2>2. Adds(proc[p].n)
    BY <1>10 DEF Deaf, Adds, TypeOK
  <2> QED
    BY <1>2, <1>3, <2>1, <2>2
<1>11. CASE Put(p)
  <2>1. CASE term[proc[p].n] # None
    BY <1>11, <1>8, <2>1 DEF Put, NotWon
  <2>2. CASE term[proc[p].n] = None
    <3>1. proc[p].n <= Newest'
      <4>1. PutIt(p)
        <5>1. proc[p].n \in Numbers /\ term' = [term EXCEPT ![proc[p].n] = p]
          BY <1>11, <2>2 DEF Put
        <5>2. term'[proc[p].n] = p /\ p # None
          BY <5>1, Constants DEF TypeOK, Constants
        <5>3. ~Quiet
          BY <2>2, <5>2 DEF Quiet
        <5> QED
          BY <1>11, <5>3, PutStep
      <4> QED
        BY <1>1, <1>3, <4>1, PutNewest
    <3>2. lock' = [lock EXCEPT ![p][proc[p].n] = "held"] /\ UNCHANGED <<mark, left, late, deafs>>
      BY <1>11, <2>2 DEF Put
    <3>3. Adds(proc[p].n)
      BY <3>2 DEF Adds, TypeOK
    <3> QED
      BY <1>3, <3>1, <3>3
  <2> QED
    BY <2>1, <2>2
<1>12. CASE MarkFirst(p) \/ StepAside(p) \/ ClaimFails(p) \/ Prune(p) \/ Mark(p) \/ Stop(p) \/ Release(p) \/ Restart(p)
  <2>1. proc[p].step \in Trying
    BY <1>12 DEF MarkFirst, StepAside, ClaimFails, Prune, Mark, Stop, Release, Restart, At, Trying
  <2>2. proc[p].n \in Numbers /\ proc[p].n <= Newest
    BY <2>1, TriedIs
  <2>3. /\ mark' \subseteq mark \cup {proc[p].n} /\ left' \subseteq left \cup {proc[p].n}
        /\ late' \subseteq late \cup {proc[p].n} /\ deafs' \in {deafs, Forgotten(p)}
        /\ lock' \in {lock, SayBack(p)} \/ lock' = [lock EXCEPT ![p][proc[p].n] = "none"]
    BY <1>12 DEF MarkFirst, StepAside, NotWon, ClaimFails, Prune, BothDone, Mark, Stop, Release, Restart
  <2>4. Adds(proc[p].n)
    BY <1>5, <1>6, <1>7, <2>2, <2>3 DEF Adds
  <2> QED
    BY <1>2, <1>3, <2>2, <2>4
<1>13. CASE Crash(p)
  <2>1. /\ UNCHANGED <<mark, left, late>> /\ deafs' = Forgotten(p)
        /\ lock' = [lock EXCEPT ![p] = [n \in Numbers |-> IF lock[p][n] = "held" THEN "free" ELSE lock[p][n]]]
    BY <1>13 DEF Crash, TypeOK
  <2>2. Adds(Newest)
    BY <1>6, <2>1 DEF Adds, TypeOK
  <2> QED
    BY <1>1, <1>2, <2>2
<1>14. CASE Start(p) \/ NotBack(p) \/ Free(p) \/ FollowLeader(p) \/ Served(p) \/ Ring(p) \/ NoRing(p) \/ RingLeader(p)
  BY <1>8, <1>14 DEF Start, NotBack, Free, FollowLeader, Served, Ring, NoRing, RingLeader
<1>15. CASE Heard(p) \/ ListFirst(p) \/ Beat(p) \/ TakeOver(p) \/ OtherTerm(p) \/ Stall(p)
  BY <1>8, <1>15 DEF Heard, ListFirst, Beat, TakeOver, OtherTerm, Stall
<1> QED
  BY <1>9, <1>10, <1>11, <1>12, <1>13, <1>14, <1>15 DEF Acts, Going

LEMMA FreshKept ==
  ASSUME TypeOK, KnownInv, PutInv, FreshInv, Effect, [Next]_vars
  PROVE  FreshInv'
<1>1. Newest \in Nat /\ Newest' \in Nat /\ Newest' >= Newest
  BY NewestIs, NewestAfter, NewestGrows
<1>2. ASSUME NEW n \in Nat, n <= Newest', Adds(n)
      PROVE  FreshInv'
  <2> SUFFICES ASSUME NEW k \in Numbers, k > Newest'
               PROVE  /\ k \notin mark' /\ k \notin left' /\ k \notin late'
                      /\ \A p \in Procs : lock'[p][k] = "none" /\ k \notin deafs'[p]
    BY DEF FreshInv
  <2>1. k > Newest /\ k # n
    BY <1>1, <1>2 DEF Numbers
  <2> QED
    BY <1>2, <2>1 DEF Adds, FreshInv
<1>3. CASE UNCHANGED vars \/ \E n \in Numbers : Land(n)
  <2>1. Adds(Newest)
    BY <1>3 DEF Adds, vars, Land
  <2> QED
    BY <1>1, <1>2, <2>1
<1> QED
  BY <1>2, <1>3, NextIs, AddsIs

\* Who is the claimer of the newest number was it before, or just put its record.
LEMMA ClaimerBefore ==
  ASSUME TypeOK, KnownInv, PutInv, Effect, NEW q \in Procs, NEW n \in Numbers, Claimer(q, n)'
  PROVE  \/ Claimer(q, n) /\ Newest' = Newest
         \/ PutIt(q) /\ proc[q].n = n /\ n > Newest
<1>1. n = Newest' /\ term'[n] = q /\ q # None /\ n \in Nat /\ Newest \in Nat
  BY NewestIs, Constants DEF Claimer, Numbers, Constants
<1>2. n \in Recorded'
  BY <1>1 DEF Recorded
<1>3. CASE term' = term
  BY <1>1, <1>3, NewestSame DEF Claimer
<1>4. ASSUME NEW p \in Procs, PutIt(p)
      PROVE  \/ Claimer(q, n) /\ Newest' = Newest
             \/ PutIt(q) /\ proc[q].n = n /\ n > Newest
  <2>1. Newest' = Newest \/ (Newest' = proc[p].n /\ proc[p].n = Newest + 1)
    BY <1>4, PutNewest
  <2>2. CASE Newest' = Newest
    <3>1. n \in Recorded
      BY <1>1, <2>2, NewestIs DEF Numbers
    <3>2. proc[p].n # n
      BY <1>4, <3>1 DEF PutIt, Recorded
    <3> QED
      BY <1>1, <1>4, <2>2, <3>2 DEF PutIt, Claimer, TypeOK
  <2>3. CASE Newest' = proc[p].n /\ proc[p].n = Newest + 1
    <3>1. term'[n] = p
      BY <1>1, <1>4, <2>3 DEF PutIt, TypeOK
    <3> QED
      BY <1>1, <1>4, <2>3, <3>1
  <2> QED
    BY <2>1, <2>2, <2>3
<1>5. ASSUME NEW p \in Procs, PruneIt(p)
      PROVE  Claimer(q, n) /\ Newest' = Newest
  <2>1. PICK gone \in SUBSET BelowFloor(proc[p].n) : Without(gone)
    BY <1>5 DEF PruneIt
  <2>2. Newest' = Newest /\ term'[n] = IF n \in gone THEN None ELSE term[n]
    BY <1>5, <2>1, PruneKeeps DEF PruneIt
  <2> QED
    BY <1>1, <2>2 DEF Claimer
<1> QED
  BY <1>3, <1>4, <1>5 DEF Effect, Quiet, ListIt, BackIt

\* Nothing of q's and n's changes, but that n may be marked, and rung in vain where q isn't in time.
Frame(q, n) ==
    /\ Still(q) /\ lock'[q][n] = lock[q][n]
    /\ n \in mark => n \in mark'
    /\ n \in left' => n \in left
    /\ (\E p \in Procs : n \in deafs'[p]) => (\E p \in Procs : n \in deafs[p]) \/ ~InTime(q, n)

LEMMA FrameKeeps ==
  ASSUME NEW q \in Procs, NEW n \in Numbers, HeldAt(q, n), Frame(q, n)
  PROVE  HeldAt(q, n)'
<1>1. Tried(q, n)' <=> Tried(q, n)
  BY DEF Frame, Still, Tried
<1>2. lock[q][n] \in {"held", "back"} /\ ~InTime(q, n) => proc[q].slow
  BY DEF HeldAt, InTime, Tried, Trying
<1> QED
  BY <1>1, <1>2 DEF Frame, Still, HeldAt

\* Others leave the newest number's claimer alone.
LEMMA OthersKeep ==
  ASSUME TypeOK, KnownInv, PutInv, RingInv, NEW q \in Procs, NEW n \in Numbers, Claimer(q, n),
         NEW p \in Procs \ {q}, Acts(p)
  PROVE  Frame(q, n)
<1>1. Still(q) /\ n = Newest /\ n \in Nat /\ term[n] = q
  BY Stills DEF Claimer, Numbers
\* It tries another number, and prunes older ones.
<1>2. proc[p].step \in Trying => proc[p].n \in Nat /\ proc[p].n <= n /\ proc[p].n # n
  BY <1>1, TriedIs DEF Numbers
<1>3. CASE lock'[q][n] = lock[q][n] /\ mark' = mark /\ left' = left /\ deafs' \in {deafs, Forgotten(p)}
  BY <1>1, <1>3 DEF Frame, Forgotten, TypeOK
<1>4. CASE Deaf(p)
  <2>1. /\ deafs' = [deafs EXCEPT ![p] = @ \cup {proc[p].n}] /\ UNCHANGED <<mark, left, lock>>
        /\ proc[p].step = "ring" /\ proc[p].n \in mark /\ ~InTime(proc[p].by, proc[p].n)
    BY <1>4 DEF Deaf, At
  <2>2. proc[p].n = n => proc[p].by = q
    BY <1>1, <2>1 DEF RingInv, TypeOK
  <2> QED
    BY <1>1, <2>1, <2>2 DEF Frame, TypeOK
<1>5. CASE StepAside(p) \/ Release(p)
  <2>1. proc[p].step \in Trying /\ proc[p].n # n
    BY <1>2, <1>5 DEF StepAside, Release, At, Trying
  <2>2. mark' = mark \ {proc[p].n} /\ left' = left /\ deafs' \in {deafs, Forgotten(p)}
    BY <1>5 DEF StepAside, Release, NotWon
  <2>3. lock'[q][n] = lock[q][n]
    BY <1>5 DEF StepAside, Release, TypeOK
  <2> QED
    BY <1>1, <2>1, <2>2, <2>3 DEF Frame, Forgotten, TypeOK
<1>6. CASE Stop(p)
  <2>1. proc[p].n # n /\ left' = left \cup {proc[p].n} /\ UNCHANGED <<mark, lock, deafs>>
    BY <1>2, <1>6 DEF Stop, At, Trying
  <2> QED
    BY <1>1, <2>1 DEF Frame
<1>7. CASE Prune(p)
  <2>1. proc[p].step \in Trying
    BY <1>7 DEF Prune, At, Trying
  <2>2. n \notin BelowFloor(proc[p].n)
    BY <1>1, <1>2, <2>1, Constants DEF BelowFloor, Constants
  <2>3. PICK gone \in SUBSET BelowFloor(proc[p].n) : mark' = BothDone(p) \ gone /\ left' = left \ gone
    <3>1. PICK gone : /\ gone \in {IF Cardinality(Listed(p)) > 2 * Keep THEN BelowFloor(proc[p].n) ELSE {}}
                                  \cup (IF PruneWhole THEN {}
                                        ELSE SUBSET (IF Cardinality(Listed(p)) > 2 * Keep THEN BelowFloor(proc[p].n) ELSE {}))
                      /\ mark' = BothDone(p) \ gone /\ left' = left \ gone
      BY <1>7 DEF Prune
    <3>2. gone \subseteq BelowFloor(proc[p].n)
      BY <3>1
    <3> QED
      BY <3>1, <3>2
  <2>4. n \in mark => n \in mark'
    BY <2>2, <2>3 DEF BothDone
  <2>5. lock'[q][n] = lock[q][n] /\ deafs' \in {deafs, Forgotten(p)}
    BY <1>7 DEF Prune, SayBack, TypeOK
  <2> QED
    BY <1>1, <2>3, <2>4, <2>5 DEF Frame, Forgotten, TypeOK
<1>8. CASE MarkFirst(p) \/ Mark(p)
  <2>1. /\ mark' = mark \cup {proc[p].n} /\ left' = left /\ lock'[q][n] = lock[q][n] /\ deafs' \in {deafs, Forgotten(p)}
    BY <1>8 DEF MarkFirst, Mark, SayBack, TypeOK
  <2> QED
    BY <1>1, <2>1 DEF Frame, Forgotten, TypeOK
<1>9. CASE TakeBack(p) \/ Put(p) \/ ClaimFails(p) \/ Restart(p) \/ Crash(p)
  BY <1>3, <1>9 DEF TakeBack, Relock, Put, NotWon, ClaimFails, Restart, SayBack, Crash, TypeOK
<1>10. CASE Start(p) \/ NotBack(p) \/ Free(p) \/ FollowLeader(p) \/ Served(p) \/ Ring(p) \/ NoRing(p) \/ RingLeader(p)
  BY <1>3, <1>10 DEF Start, NotBack, Free, FollowLeader, Served, Ring, NoRing, RingLeader
<1>11. CASE Heard(p) \/ ListFirst(p) \/ Beat(p) \/ TakeOver(p) \/ OtherTerm(p) \/ Stall(p)
  BY <1>3, <1>11 DEF Heard, ListFirst, Beat, TakeOver, OtherTerm, Stall
<1> QED
  BY <1>4, <1>5, <1>6, <1>7, <1>8, <1>9, <1>10, <1>11 DEF Acts, Going

\* Its own steps keep what holds of it, while its number is the newest.
LEMMA OwnKeeps ==
  ASSUME TypeOK, TypeOK', KnownInv, PutInv, RingInv, Effect, NEW q \in Procs, NEW n \in Numbers,
         Claimer(q, n), Claimer(q, n)', HeldAt(q, n), Acts(q)
  PROVE  HeldAt(q, n)'
<1>1. /\ n = Newest /\ n = Newest' /\ n \in Nat /\ term[n] = q /\ term'[n] = q
      /\ proc[q] \in Proc /\ proc \in [Procs -> Proc] /\ lock \in [Procs -> [Numbers -> {"none", "held", "back", "free"}]]
      /\ proc[q].n \in Nat
  BY DEF Claimer, Numbers, TypeOK, Proc
<1>2. deafs' \in {deafs, Forgotten(q)} => ((\E p \in Procs : n \in deafs'[p]) => (\E p \in Procs : n \in deafs[p]))
  BY DEF Forgotten, TypeOK
<1>3. Looking(q) \in Proc /\ Looking(q).step = "look" /\ Looking(q).slow = proc[q].slow
  BY ProcTypes DEF Looking, NewProc
<1>4. SayBack(q)[q][n] = IF lock[q][n] = "held" THEN "back" ELSE lock[q][n]
  BY <1>1 DEF SayBack
\* Whoever doesn't try, and keeps its slowness, may go where it doesn't try; it looks only for the first time, or slow.
<1>5. ASSUME proc[q].step \notin Trying, proc'[q].step \notin Trying, proc'[q].slow = proc[q].slow,
             proc'[q].step = "look" \/ proc[q].step # "look" \/ lock[q][n] # "back" \/ proc[q].slow,
             proc'[q].step = "claim" /\ lock[q][n] = "back" => proc'[q].n = n + 1,
             lock'[q][n] = lock[q][n], mark' = mark, left' = left,
             deafs' \in {deafs, Forgotten(q)} \/ (lock[q][n] = "back" => proc[q].slow)
      PROVE  HeldAt(q, n)'
  BY <1>2, <1>5 DEF HeldAt, Tried, Trying
\* It tries another number.
<1>6. ASSUME proc[q].step \in Trying, proc[q].n # n, ~Tried(q, n)', lock'[q][n] \in {lock[q][n], SayBack(q)[q][n], "free"}
      PROVE  HeldAt(q, n)'
  BY <1>1, <1>4, <1>6 DEF HeldAt, Tried
\* Looking for a holder.
<1>7. CASE Start(q)
  BY <1>1, <1>3, <1>5, <1>7 DEF Start, At, Trying
<1>8. CASE NotBack(q)
  <2>1. /\ proc[q].step = "look" /\ proc'[q].step = "claim" /\ proc'[q].n = n + 1 /\ proc'[q].slow = proc[q].slow
        /\ UNCHANGED <<mark, left, lock, deafs>> /\ (lock[q][n] = "back" => proc[q].slow)
    BY <1>1, <1>8 DEF NotBack, At, ClaimAfter, ComingBack, TooLate, Proc
  <2> QED
    BY <1>5, <2>1 DEF Trying
<1>9. CASE Free(q) \/ FollowLeader(q) \/ Served(q) \/ Ring(q) \/ NoRing(q)
  <2>1. /\ proc[q].step = "look" /\ ~Own(q) /\ UNCHANGED <<mark, left, lock, deafs>>
        /\ proc'[q].step \in {"claim", "ring", "follow", "done"}
    <3>1. CASE Free(q)
      BY <1>1, <3>1 DEF Free, At, ClaimAfter, Proc
    <3>2. CASE Served(q)
      BY <1>1, <3>2 DEF Served, Held, At, NewProc
    <3>3. CASE FollowLeader(q) \/ NoRing(q)
      <4>1. proc'[q] = Following(Waiting(q, "follow")) /\ Recorded # {}
        BY <1>1, <3>3 DEF FollowLeader, NoRing, Held
      <4> QED
        BY <1>1, <3>3, <4>1, WaitingTypes, FollowingTypes DEF FollowLeader, NoRing, Held, At
    <3>4. CASE Ring(q)
      <4>1. proc'[q] = Waiting(q, "ring") /\ Recorded # {}
        BY <1>1, <3>4 DEF Ring, Held
      <4> QED
        BY <1>1, <3>4, <4>1, WaitingTypes DEF Ring, Held, At
    <3> QED
      BY <1>9, <3>1, <3>2, <3>3, <3>4
  <2>2. n \in Recorded
    BY <1>1, Constants DEF Recorded, Constants
  <2>3. lock[q][n] \notin {"held", "back"}
    <3>1. lock[q][n] # "held"
      BY <2>1 DEF HeldAt, Tried, Trying
    <3>2. lock[q][n] = "back" => q \in Nodes /\ n \notin left
      BY <2>1 DEF HeldAt
    <3> QED
      BY <1>1, <2>1, <2>2, <3>1, <3>2 DEF Own
  <2> QED
    BY <2>1, <2>3 DEF HeldAt, Tried, Trying
<1>10. CASE TakeBack(q)
  <2>1. /\ proc[q].step = "look" /\ n \notin left /\ lock[q][n] \in {"held", "back"}
        /\ proc'[q].step = "lead" /\ proc'[q].n = n /\ proc'[q].slow = proc[q].slow /\ lock'[q][n] = "held"
        /\ UNCHANGED <<mark, left, deafs>>
    BY <1>1, <1>10 DEF TakeBack, At, Own, ComingBack, Relock, Proc
  <2> QED
    BY <2>1 DEF HeldAt, Tried, Trying
\* Ringing and following.
<1>11. CASE RingLeader(q) \/ Heard(q) \/ Deaf(q) \/ Beat(q) \/ OtherTerm(q) \/ TakeOver(q)
  <2>1. /\ proc[q].step \in {"ring", "follow"} /\ UNCHANGED <<mark, left, lock>>
        /\ proc'[q].step \in {"look", "ring", "follow"} \/ (proc'[q].step = "claim" /\ TakeOver(q) /\ ~(Newest > proc[q].n)
                                                           /\ proc'[q].n = proc[q].n + 1)
        /\ proc'[q].slow = proc[q].slow
    <3>1. Following(proc[q]).step = "follow" /\ Following(proc[q]).slow = proc[q].slow
      BY <1>1 DEF Following, Proc
    <3>2. CASE RingLeader(q) \/ Beat(q) \/ OtherTerm(q)
      BY <1>1, <1>3, <3>2 DEF RingLeader, Beat, OtherTerm, At, Proc
    <3>3. CASE Heard(q) \/ Deaf(q)
      BY <1>1, <1>3, <3>1, <3>3 DEF Heard, Deaf, At
    <3>4. CASE TakeOver(q)
      BY <1>1, <1>3, <3>4 DEF TakeOver, ClaimAfter, At, Proc
    <3> QED
      BY <1>11, <3>2, <3>3, <3>4
  <2>2. proc[q].n <= n
    BY <1>1, <2>1 DEF KnownInv
  <2>3. proc'[q].step = "claim" => proc'[q].n = n + 1
    BY <1>1, <2>1, <2>2
  <2>4. lock[q][n] = "back" => proc[q].slow
    BY <2>1 DEF HeldAt
  <2> QED
    BY <1>5, <2>1, <2>3, <2>4 DEF Trying
\* Claiming.
<1>12. CASE Put(q)
  <2>1. proc[q].step = "claim" /\ UNCHANGED <<mark, left>>
    BY <1>12 DEF Put, At
  <2>2. CASE NotWon(q) /\ lock' = lock
    BY <1>1, <1>3, <1>5, <2>1, <2>2 DEF NotWon, Trying
  <2>3. CASE term[proc[q].n] = None
    <3>1. /\ proc'[q].n = proc[q].n /\ proc'[q].step = "put" /\ lock' = [lock EXCEPT ![q][proc[q].n] = "held"]
          /\ deafs' = deafs /\ term' = [term EXCEPT ![proc[q].n] = q] /\ proc[q].n \in Numbers
      BY <1>1, <1>12, <2>3 DEF Put, Proc
    <3>2. proc[q].n # n
      BY <1>1, <2>3, Constants DEF Constants
    <3>3. proc[q].n \in Recorded'
      BY <3>1, Constants DEF Recorded, TypeOK, Constants
    <3>4. ~(proc[q].n > n)
      BY <1>1, <3>3, NewestAfter
    <3>5. lock[q][n] \notin {"held", "back"}
      BY <1>1, <2>1, <3>4 DEF HeldAt, Tried, Trying
    <3>6. lock'[q][n] = lock[q][n]
      BY <1>1, <3>1, <3>2
    <3> QED
      BY <3>1, <3>2, <3>5, <3>6 DEF HeldAt, Tried
  <2> QED
    BY <1>12, <2>2, <2>3 DEF Put
<1>13. CASE ListFirst(q)
  <2>1. /\ proc[q].step = "put" /\ proc[q].did = "none" /\ UNCHANGED <<mark, left, lock, deafs>>
        /\ proc'[q].step = "put" /\ proc'[q].n = proc[q].n /\ proc'[q].slow = proc[q].slow /\ proc'[q].did = "list"
    BY <1>1, <1>13 DEF ListFirst, At, Proc
  <2> QED
    BY <2>1 DEF HeldAt, Tried
<1>14. CASE MarkFirst(q)
  <2>1. /\ proc[q].step = "put" /\ mark' = mark \cup {proc[q].n} /\ UNCHANGED <<left, lock, deafs>>
        /\ proc'[q] = [Marked(proc[q].n)[q] EXCEPT !.did = "mark"]
    BY <1>14, MarkedTypes DEF MarkFirst, At
  <2>2. proc'[q].step = "put" /\ proc'[q].n = proc[q].n /\ proc'[q].slow = proc[q].slow
    BY <2>1, MarkedTypes DEF Proc
  <2>3. CASE proc[q].n = n
    BY <2>1, <2>2, <2>3 DEF HeldAt, Tried
  <2>4. CASE proc[q].n # n
    BY <1>6, <2>1, <2>2, <2>4 DEF Tried, Trying
  <2> QED
    BY <2>3, <2>4
<1>15. CASE StepAside(q) \/ ClaimFails(q) \/ Release(q)
  <2>1. proc[q].step \in Trying /\ proc[q].n \in Numbers
    BY <1>15 DEF StepAside, ClaimFails, Release, At, Trying, KnownInv
  <2>2. proc'[q].step \in {"look", "off", "done"}
    BY <1>1, <1>3, <1>15 DEF StepAside, NotWon, ClaimFails, Release, NewProc
  <2>3. lock' = [lock EXCEPT ![q][proc[q].n] = "none"]
    BY <1>15 DEF StepAside, ClaimFails, Release
  <2>4. CASE proc[q].n = n
    <3>1. lock'[q][n] = "none"
      BY <1>1, <2>3, <2>4
    <3> QED
      BY <2>2, <3>1 DEF HeldAt, Tried, Trying
  <2>5. CASE proc[q].n # n
    <3>1. lock'[q][n] = lock[q][n]
      BY <1>1, <2>3, <2>5
    <3> QED
      BY <1>6, <2>1, <2>2, <2>5, <3>1 DEF Tried, Trying
  <2> QED
    BY <2>4, <2>5
<1>16. CASE Prune(q)
  <2>1. proc[q].step = "put" /\ proc[q].did # "none"
    BY <1>16 DEF Prune, At
  <2>2. PICK gone \in SUBSET BelowFloor(proc[q].n) : mark' = BothDone(q) \ gone /\ left' = left \ gone
    <3>1. PICK gone : /\ gone \in {IF Cardinality(Listed(q)) > 2 * Keep THEN BelowFloor(proc[q].n) ELSE {}}
                                  \cup (IF PruneWhole THEN {}
                                        ELSE SUBSET (IF Cardinality(Listed(q)) > 2 * Keep THEN BelowFloor(proc[q].n) ELSE {}))
                      /\ mark' = BothDone(q) \ gone /\ left' = left \ gone
      BY <1>16 DEF Prune
    <3>2. gone \subseteq BelowFloor(proc[q].n)
      BY <3>1
    <3> QED
      BY <3>1, <3>2
  <2>3. n \notin BelowFloor(proc[q].n) /\ proc[q].n <= n
    <3>1. proc[q].n <= n
      BY <1>1, <2>1, TriedIs DEF Trying
    <3> QED
      BY <1>1, <3>1, Constants DEF BelowFloor, Constants
  <2>4. \/ /\ proc'[q] = Looking(q) /\ lock'[q][n] = SayBack(q)[q][n] /\ q \in Nodes /\ deafs' = Forgotten(q)
        \/ /\ proc'[q].step = "lead" /\ proc'[q].n = proc[q].n /\ proc'[q].slow = proc[q].slow
           /\ UNCHANGED <<lock, deafs>>
    <3>1. CASE proc[q].again
      <4>1. q \in Nodes
        BY <3>1 DEF RingInv
      <4> QED
        BY <1>16, <3>1, <4>1, MarkedTypes DEF Prune
    <3>2. CASE ~proc[q].again
      <4>1. /\ proc'[q] = [NewProc EXCEPT !.step = "lead", !.n = proc[q].n, !.by = q, !.slow = proc[q].slow]
            /\ UNCHANGED <<lock, deafs>>
        BY <1>16, <3>2, MarkedTypes DEF Prune
      <4> QED
        BY <4>1 DEF NewProc
    <3> QED
      BY <3>1, <3>2
  <2>5. CASE proc[q].n = n
    <3>1. lock[q][n] = "held" /\ n \notin left'
      BY <2>1, <2>2, <2>5 DEF HeldAt, Tried, Trying
    <3>2. n \in BothDone(q)
      <4>1. proc[q].did \in {"list", "mark"}
        BY <1>1, <2>1 DEF Proc
      <4> QED
        BY <2>5, <3>1, <4>1 DEF BothDone, HeldAt
    <3>3. n \in mark'
      BY <2>2, <2>3, <3>2
    <3>4. (\E p \in Procs : n \in deafs'[p]) => proc[q].slow
      BY <1>2, <2>4, <3>1 DEF HeldAt
    <3>5. CASE proc'[q] = Looking(q) /\ lock'[q][n] = SayBack(q)[q][n] /\ q \in Nodes
      BY <1>3, <1>4, <3>1, <3>3, <3>4, <3>5 DEF HeldAt, Tried, Trying
    <3>6. CASE proc'[q].step = "lead" /\ proc'[q].n = proc[q].n /\ proc'[q].slow = proc[q].slow /\ lock' = lock
      BY <2>5, <3>1, <3>3, <3>4, <3>6 DEF HeldAt, Tried, Trying
    <3> QED
      BY <2>4, <3>5, <3>6
  <2>6. CASE proc[q].n # n
    BY <1>3, <1>6, <2>1, <2>4, <2>6 DEF Tried, Trying
  <2> QED
    BY <2>5, <2>6
\* Leading, and letting go.
<1>17. CASE Mark(q) \/ Restart(q)
  <2>1. proc[q].step = "lead" /\ mark \subseteq mark' /\ left' = left /\ deafs' \in {deafs, Forgotten(q)}
    BY <1>17 DEF Mark, Restart, At
  <2>2. \/ q \in Nodes /\ proc'[q] = Looking(q) /\ lock'[q][n] = SayBack(q)[q][n]
        \/ proc'[q] = Marked(proc[q].n)[q] /\ lock' = lock
    BY <1>1, <1>17, MarkedTypes DEF Mark, Restart
  <2>3. CASE proc'[q] = Marked(proc[q].n)[q] /\ lock' = lock
    <3>1. proc'[q].step = "lead" /\ proc'[q].n = proc[q].n /\ proc'[q].slow = proc[q].slow
      BY <2>1, <2>3, MarkedTypes
    <3> QED
      BY <1>2, <2>1, <2>3, <3>1 DEF HeldAt, Tried, Trying
  <2>4. CASE q \in Nodes /\ proc'[q] = Looking(q) /\ lock'[q][n] = SayBack(q)[q][n]
    <3>1. CASE proc[q].n = n
      <4>1. lock[q][n] = "held" /\ lock'[q][n] = "back"
        BY <1>4, <2>1, <2>4, <3>1 DEF HeldAt, Tried, Trying
      <4> QED
        BY <1>2, <1>3, <2>1, <2>4, <4>1 DEF HeldAt, Tried, Trying
    <3>2. CASE proc[q].n # n
      BY <1>3, <1>6, <2>1, <2>4, <3>2 DEF Tried, Trying
    <3> QED
      BY <3>1, <3>2
  <2> QED
    BY <2>2, <2>3, <2>4
<1>18. CASE Stop(q)
  <2>1. /\ proc[q].step = "lead" /\ left' = left \cup {proc[q].n} /\ UNCHANGED <<mark, lock, deafs>>
        /\ proc'[q].step = "leaving" /\ proc'[q].n = proc[q].n /\ proc'[q].slow = proc[q].slow
    BY <1>1, <1>18 DEF Stop, At, Proc
  <2>2. CASE proc[q].n = n
    BY <2>1, <2>2 DEF HeldAt, Tried, Trying
  <2>3. CASE proc[q].n # n
    BY <1>6, <2>1, <2>3 DEF Tried, Trying
  <2> QED
    BY <2>2, <2>3
\* Time and failures.
<1>19. CASE Stall(q)
  <2>1. /\ proc[q].step \in {"put", "lead"} /\ UNCHANGED <<mark, left, lock, deafs>>
        /\ proc'[q].step = proc[q].step /\ proc'[q].n = proc[q].n /\ proc'[q].slow /\ proc'[q].did = proc[q].did
    BY <1>1, <1>19 DEF Stall, Proc
  <2> QED
    BY <2>1 DEF HeldAt, Tried, Trying
<1>20. CASE Crash(q)
  <2>1. /\ proc'[q].step = "off" /\ (proc'[q].slow <=> \E k \in Numbers : lock[q][k] = "back")
        /\ UNCHANGED <<mark, left>> /\ deafs' = Forgotten(q)
        /\ lock'[q][n] = IF lock[q][n] = "held" THEN "free" ELSE lock[q][n]
    BY <1>1, <1>20 DEF Crash, NewProc
  <2>2. CASE lock[q][n] = "back"
    <3>1. proc'[q].slow /\ lock'[q][n] = "back" /\ q \in Nodes /\ proc[q].step \notin Trying
      BY <2>1, <2>2 DEF HeldAt
    <3> QED
      BY <2>1, <2>2, <3>1 DEF HeldAt, Tried, Trying
  <2>3. CASE lock[q][n] # "back"
    BY <1>1, <2>1, <2>3 DEF HeldAt, Tried, Trying
  <2> QED
    BY <2>2, <2>3
<1> QED
  BY <1>7, <1>8, <1>9, <1>10, <1>11, <1>12, <1>13, <1>14, <1>15, <1>16, <1>17, <1>18, <1>19, <1>20 DEF Acts, Going

\* A record that becomes the newest is of a number nothing was known of.
LEMMA PutHeld ==
  ASSUME TypeOK, TypeOK', KnownInv, PutInv, FreshInv, NEW q \in Procs, NEW n \in Numbers,
         PutIt(q), proc[q].n = n, n > Newest, [Next]_vars
  PROVE  HeldAt(q, n)'
<1>1. Put(q)
  <2>1. ~Still(q)
    BY DEF PutIt, Still
  <2>2. ~(UNCHANGED vars) /\ \A k \in Numbers : ~Land(k)
    BY <2>1, MarkedTypes DEF vars, Land, Still
  <2>3. PICK p \in Procs : Acts(p)
    BY <2>2, NextIs
  <2>4. p = q
    BY <2>1, <2>3, Stills
  <2>5. term' # term /\ term'[n] = q /\ term[n] = None /\ q # None
    BY Constants DEF PutIt, TypeOK, Constants
  <2>6. ~Quiet /\ proc[q].step = "claim"
    BY <2>5 DEF Quiet, PutIt
  <2>7. ~Prune(q) /\ ~TakeBack(q) /\ ~ListFirst(q)
    BY <2>6 DEF Prune, TakeBack, ListFirst, At
  <2> QED
    BY <2>3, <2>4, <2>6, <2>7, LookSteps, RingSteps, ClaimSteps, LeadSteps, FollowSteps, TimeSteps DEF Acts, Going
<1>2. /\ lock' = [lock EXCEPT ![q][n] = "held"] /\ UNCHANGED <<mark, left, deafs>>
      /\ proc'[q].step = "put" /\ proc'[q].n = n /\ proc'[q].did = "none"
  BY <1>1 DEF Put, PutIt
<1>3. n \notin left /\ \A p \in Procs : n \notin deafs[p]
  BY DEF FreshInv
<1>4. lock'[q][n] = "held"
  BY <1>2 DEF TypeOK
<1> QED
  BY <1>2, <1>3, <1>4 DEF HeldAt, Tried, Trying

LEMMA HeldKept ==
  ASSUME TypeOK, TypeOK', KnownInv, PutInv, RingInv, FreshInv, HeldInv, Effect, [Next]_vars
  PROVE  HeldInv'
<1> SUFFICES ASSUME NEW q \in Procs, NEW n \in Numbers, Claimer(q, n)'
             PROVE  HeldAt(q, n)'
  BY DEF HeldInv
<1>1. CASE PutIt(q) /\ proc[q].n = n /\ n > Newest
  BY <1>1, PutHeld
<1>2. CASE Claimer(q, n)
  <2>1. HeldAt(q, n)
    BY <1>2 DEF HeldInv
  <2>2. ASSUME NEW p \in Procs, Acts(p)
        PROVE  HeldAt(q, n)'
    BY <1>2, <2>1, <2>2, OwnKeeps, OthersKeep, FrameKeeps
  <2>3. ASSUME NEW k \in Numbers, Land(k)
        PROVE  HeldAt(q, n)'
    <3>1. Frame(q, n)
      BY <2>3, MarkedTypes DEF Land, Frame, Still
    <3> QED
      BY <2>1, <3>1, FrameKeeps
  <2>4. CASE UNCHANGED vars
    <3>1. Frame(q, n)
      BY <2>4 DEF vars, Frame, Still
    <3> QED
      BY <2>1, <3>1, FrameKeeps
  <2> QED
    BY <2>2, <2>3, <2>4, NextIs
<1> QED
  BY <1>1, <1>2, ClaimerBefore

AliveInv == RingInv /\ FreshInv /\ HeldInv

LEMMA AliveInit == Init => AliveInv
<1> SUFFICES ASSUME Init PROVE AliveInv
  OBVIOUS
<1> USE DEF Init, Empty
<1>1. \A p \in Procs : proc[p].step = "off" /\ ~proc[p].again
  BY DEF NewProc
<1>2. \A q \in Procs : \A n \in Numbers : ~Claimer(q, n)
  BY Constants DEF Claimer, Constants
<1> QED
  BY <1>1, <1>2 DEF AliveInv, RingInv, FreshInv, HeldInv

\* A leader of the newest term that is in time has its mark and its lock file, hasn't stepped down, and nobody
\* rang it in vain: whoever looks finds it alive (alive, gone_here, deaf).
THEOREM LooksAlive == Spec => []LeaderLooksAlive
<1>1. IInv /\ AliveInv /\ [Next]_vars => AliveInv'
  <2> SUFFICES ASSUME IInv, AliveInv, [Next]_vars PROVE AliveInv'
    OBVIOUS
  <2>1. TypeOK /\ KnownInv /\ PutInv /\ RingInv /\ FreshInv /\ HeldInv
    BY DEF IInv, AliveInv
  <2>2. TypeOK' /\ Effect
    BY <2>1, Effects
  <2> QED
    BY <2>1, <2>2, RingKept, FreshKept, HeldKept DEF AliveInv
<1>2. IInv /\ AliveInv => LeaderLooksAlive
  <2> SUFFICES ASSUME IInv, AliveInv, NEW q \in Procs, At(q, "lead"), ~proc[q].slow, proc[q].n = Newest
               PROVE  /\ Newest \in mark /\ Newest \notin left
                      /\ \A p \in Procs : Newest \notin deafs[p] /\ ~GoneHere(p, q, Newest)
    BY DEF LeaderLooksAlive
  <2>1. Newest \in Numbers /\ term[Newest] = q
    BY TriedIs DEF IInv, At, Trying
  <2>2. HeldAt(q, Newest)
    BY <2>1 DEF AliveInv, HeldInv, Claimer
  <2>3. Tried(q, Newest)
    BY DEF Tried, Trying, At
  <2> QED
    BY <2>2, <2>3 DEF HeldAt, At, GoneHere
<1> QED
  BY <1>1, <1>2, AliveInit, Inductive, PTL DEF Spec
=============================================================================
