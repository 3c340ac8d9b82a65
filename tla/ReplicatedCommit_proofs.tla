----------------------- MODULE ReplicatedCommit_proofs -----------------------
(***************************************************************************)
(* What holds of replicated commits on any number of nodes, whatever each   *)
(* was started with, and for any bounds: the types, that commits run ahead  *)
(* of the bucket by AHEAD at most, that a leader the bucket doesn't refuse  *)
(* has in its log what the bucket has, that older leaders are fenced, and   *)
(* that only members the bucket lists count towards committing.  And what   *)
(* each step does, field by field: the lemmas Leaders_proofs and            *)
(* Durability_proofs stand on.                                              *)
(***************************************************************************)
EXTENDS ReplicatedCommit, FiniteSetTheorems, SequenceTheorems, WellFoundedInduction, TLAPS

-----------------------------------------------------------------------------
(* Largest elements                                                        *)

\* A non-empty set of naturals has a least element.
LEMMA LeastNatural ==
  ASSUME NEW T \in SUBSET Nat, T # {}
  PROVE  \E x \in T : \A y \in T : x <= y
<1>1. PICK x \in T : \A y \in T : ~ (<<y, x>> \in OpToRel(<, Nat))
  BY NatLessThanWellFounded, WFMin
<1>2. \A y \in T : ~ (y < x)
  <2> TAKE y \in T
  <2>1. y \in Nat /\ x \in Nat
    BY <1>1
  <2>2. ~ (<<y, x>> \in OpToRel(<, Nat))
    BY <1>1
  <2>3. y < x => <<y, x>> \in OpToRel(<, Nat)
    BY <2>1 DEF OpToRel
  <2> QED
    BY <2>2, <2>3
<1>3. x \in Nat /\ T \subseteq Nat
  BY <1>1
<1> HIDE <1>1
<1>4. \A y \in T : x <= y
  <2> TAKE y \in T
  <2>1. y \in Nat
    BY <1>3
  <2> QED
    BY <1>2, <1>3, <2>1
<1> QED
  BY <1>4, <1>1

\* MaxOf is the largest element of a non-empty bounded set.
LEMMA MaxOfBounded ==
  ASSUME NEW k \in Nat, NEW S \in SUBSET (0 .. k), S # {}
  PROVE  MaxOf(S) \in S /\ \A y \in S : y <= MaxOf(S)
<1> DEFINE T == {k - x : x \in S}
<1>1. \A x \in S : x \in Int /\ 0 <= x /\ x <= k
  OBVIOUS
<1>2. T \in SUBSET Nat
  <2>1. \A x \in S : k - x \in Nat
     BY <1>1
  <2> QED
    BY <2>1
<1>3. T # {}
  OBVIOUS
<1> HIDE DEF T
<1>4. PICK d \in T : \A y \in T : d <= y
  BY <1>2, <1>3, LeastNatural
<1>5. PICK x \in S : d = k - x
  BY DEF T
<1>6. \A y \in S : y <= x
  <2> TAKE y \in S
  <2>1. k - y \in T
    BY DEF T
  <2>2. d <= k - y
    BY <2>1, <1>4
  <2> QED
    BY <2>2, <1>1, <1>5
<1> QED
  BY <1>6 DEF MaxOf

\* ... and the larger one of two naturals.
LEMMA MaxOfTwo ==
  ASSUME NEW a \in Nat, NEW b \in Nat
  PROVE  MaxOf({a, b}) = IF a <= b THEN b ELSE a
<1> DEFINE m == IF a <= b THEN b ELSE a
<1>1. m \in {a, b} /\ \A y \in {a, b} : y <= m
  OBVIOUS
<1>2. \A x \in {a, b} : (\A y \in {a, b} : y <= x) => x = m
  OBVIOUS
<1> QED
  BY <1>1, <1>2 DEF MaxOf

-----------------------------------------------------------------------------
(* The inductive invariant                                                 *)

InCharge == {"recovering", "settling", "leading"}

\* A running node's term was claimed, a leader's by itself.
TermInv ==
    \A n \in Nodes :
        /\ proc[n].role # "down" => proc[n].term \in 1 .. Len(owner)
        /\ proc[n].role \in InCharge \cup {"opening"} => owner[proc[n].term] = n

\* Whoever opened the catalog has an epoch of its own, no newer than the fence.
EpochInv ==
    \A n \in Nodes :
        /\ proc[n].role \in InCharge <=> proc[n].epoch > 0
        /\ proc[n].epoch <= fence
        /\ \A p \in Nodes : proc[n].epoch > 0 /\ proc[p].epoch = proc[n].epoch => p = n

\* A claimer opens in time: nobody claims a term while one is opening.
OpeningInv ==
    ~ LateOpen => \A n \in Nodes : proc[n].role = "opening" => proc[n].term = Len(owner)

\* How far a leader's log, its stream, its commits and the bucket are.
CountOK(l) ==
    /\ Len(l.log) <= MaxId
    /\ l.durable <= l.committed
    /\ l.durable <= l.flushed
    /\ l.committed <= l.sent
    /\ l.sent <= l.committed + 1
    /\ l.sent <= Len(l.log)
    /\ l.flushed <= Len(l.log)
    /\ l.sent > l.committed /\ l.close => l.sent <= l.durable + Ahead
    /\ l.committed <= l.flushed \/ l.committed <= l.durable + Ahead
CountInv == \A n \in Nodes : CountOK(lead[n])

\* The bucket has the first `flushed` changes of the log of the leader it
\* doesn't refuse, and no other.
BucketInv ==
    /\ Len(bucket) <= MaxId
    /\ \A n \in Nodes : proc[n].epoch > 0 /\ Unfenced(n) =>
          /\ Len(bucket) = lead[n].flushed
          /\ \A i \in 1 .. Len(bucket) : bucket[i] = lead[n].log[i]

\* A follower's run, and the term of the stream it reads.
FolInv ==
    \A f \in Nodes :
        /\ fol[f].run[2] > 0 => fol[f].run[1] \in Ids /\ fol[f].run[2] \in Ids
        /\ fol[f].conn > 0 => fol[f].sterm > 0

OlderInv == ~ LateOpen => OlderIsFenced

IInv == TypeOK /\ TermInv /\ EpochInv /\ OpeningInv /\ CountInv /\ BucketInv /\ FolInv /\ OlderInv

-----------------------------------------------------------------------------
(* What the helpers return                                                 *)

\* The fields of a leader's record, and that record with some fields set.
LEMMA LeadFields ==
  ASSUME NEW r \in Lead
  PROVE  /\ r.log \in Seq(Change)
         /\ r.opened \in 0 .. MaxId /\ r.sent \in 0 .. MaxId /\ r.committed \in 0 .. MaxId
         /\ r.flushed \in 0 .. MaxId /\ r.durable \in 0 .. MaxId
         /\ r.counting \in SUBSET Nodes /\ r.acks \in [Nodes -> (Nat \X Nat)]
         /\ r.job \in Job
         /\ r.todo \in SUBSET Nodes /\ r.skipped \in Nat /\ r.found \in SUBSET Copy
  BY DEF Lead
\* The fields of a follower's record, and of a process.
LEMMA FolFields ==
  ASSUME NEW r \in Fol
  PROVE  /\ r.seen \in 0 .. MaxTerm /\ r.sterm \in 0 .. MaxTerm
         /\ r.conn \in 0 .. MaxEpoch /\ r.last \in 0 .. MaxId
         /\ r.run \in Nat \X Nat
<1> DEFINE Run == Nat \X Nat
<1>1. r \in [seen : 0 .. MaxTerm, run : Run, conn : 0 .. MaxEpoch, sterm : 0 .. MaxTerm, last : 0 .. MaxId]
  BY DEF Fol
<1> HIDE DEF Run
<1>2. /\ r.seen \in 0 .. MaxTerm /\ r.sterm \in 0 .. MaxTerm
      /\ r.conn \in 0 .. MaxEpoch /\ r.last \in 0 .. MaxId /\ r.run \in Run
  BY <1>1
<1> QED
  BY <1>2 DEF Run

LEMMA ProcFields ==
  ASSUME NEW r \in Proc
  PROVE  r.role \in Roles /\ r.term \in 0 .. MaxTerm /\ r.epoch \in 0 .. MaxEpoch
  BY DEF Proc

\* A leader's record with another log is one,
LEMMA SetLog   == ASSUME NEW r \in Lead, NEW x \in Seq(Change) PROVE [r EXCEPT !.log = x] \in Lead
  BY DEF Lead
\* ... with the members loop elsewhere in its round,
LEMMA SetJob   == ASSUME NEW r \in Lead, NEW x \in Job PROVE [r EXCEPT !.job = x] \in Lead
  BY DEF Lead
\* ... with other copies found,
LEMMA SetFound == ASSUME NEW r \in Lead, NEW x \in SUBSET Copy PROVE [r EXCEPT !.found = x] \in Lead
  BY DEF Lead
\* ... with other members to ask,
LEMMA SetTodo  == ASSUME NEW r \in Lead, NEW x \in SUBSET Nodes PROVE [r EXCEPT !.todo = x] \in Lead
  BY DEF Lead
\* ... with more members skipped,
LEMMA SetSkipped == ASSUME NEW r \in Lead, NEW x \in Nat PROVE [r EXCEPT !.skipped = x] \in Lead
  BY DEF Lead
\* ... with other members counting,
LEMMA SetCounting == ASSUME NEW r \in Lead, NEW x \in SUBSET Nodes PROVE [r EXCEPT !.counting = x] \in Lead
  BY DEF Lead
\* ... and with other runs acknowledged.
LEMMA SetAcks  == ASSUME NEW r \in Lead, NEW x \in [Nodes -> (Nat \X Nat)] PROVE [r EXCEPT !.acks = x] \in Lead
  BY DEF Lead

\* A leader's record that holds nothing.
LEMMA NoLeadType == NoLead \in Lead
<1>1. <<>> \in Seq(Change) /\ Idle \in Job /\ [f \in Nodes |-> None] \in [Nodes -> (Nat \X Nat)]
  BY BoundsAssumption DEF Idle, Job, None
<1> QED
  BY <1>1, BoundsAssumption DEF NoLead, Lead

\* NewestTerm, and what a follower begins with.
LEMMA NewFolType == ASSUME NEW copies \in SUBSET Copy PROVE NewFol(copies) \in Fol
<1> DEFINE S == {0} \cup {c.term : c \in copies}
<1>1. S \in SUBSET (0 .. MaxTerm) /\ S # {}
  BY BoundsAssumption DEF Copy, Terms
<1> HIDE DEF S
<1>2. MaxOf(S) \in 0 .. MaxTerm
  BY <1>1, MaxOfBounded, BoundsAssumption
<1>3. NewestTerm(copies) \in 0 .. MaxTerm
  BY <1>2 DEF NewestTerm, S
<1> QED
  BY <1>3, BoundsAssumption DEF NewFol, Fol, None

\* A list of members is a set of nodes.
LEMMA ListedType == ASSUME NEW log \in Seq(Change) PROVE Listed(log) \in SUBSET Nodes
<1> DEFINE puts == {i \in DOMAIN log : log[i].m # NoList}
<1>1. CASE puts = {}
  BY <1>1 DEF Listed
<1>2. CASE puts # {}
  <2>1. puts \in SUBSET (0 .. Len(log)) /\ Len(log) \in Nat
    OBVIOUS
  <2>2. MaxOf(puts) \in puts
    <3> HIDE DEF puts
    <3> QED
      BY <2>1, <1>2, MaxOfBounded
  <2>3. log[MaxOf(puts)] \in Change
    BY <2>2
  <2>4. log[MaxOf(puts)].m \in {NoList} \cup {{s} : s \in SUBSET Nodes}
    BY <2>3 DEF Change
  <2>5. UNION log[MaxOf(puts)].m \in SUBSET Nodes
    BY <2>4 DEF NoList
  <2> QED
    BY <2>5, <1>2 DEF Listed
<1> QED
  BY <1>1, <1>2

\* Merging copies gives copies, and no change neither side had.
LEMMA MergeType ==
  ASSUME NEW old \in SUBSET Copy, NEW new \in SUBSET Copy
  PROVE  Merge(old, new) \in SUBSET Copy /\ Merge(old, new) \subseteq old \cup new
  BY DEF Merge

\* The run recovered: it begins after the bucket, and every change of it is
\* one that was found.
LEMMA RunEndType ==
  ASSUME NEW copies \in SUBSET Copy, NEW b \in 0 .. MaxId
  PROVE  /\ RunEnd(copies, b) \in b .. MaxId
         /\ \A i \in (b + 1) .. RunEnd(copies, b) : \E c \in copies : c.id = i
<1> DEFINE P(k) == \A i \in (b + 1) .. k :
                     /\ \E c \in copies : c.id = i
                     /\ i > b + 1 => CopyOf(copies, i - 1).term <= CopyOf(copies, i).term
           S == {k \in b .. MaxId : P(k)}
<1>1. b \in S
  BY BoundsAssumption
<1>2. S \in SUBSET (0 .. MaxId) /\ S # {}
  BY <1>1, BoundsAssumption
<1>3. RunEnd(copies, b) = MaxOf(S)
  BY DEF RunEnd
<1>4. MaxOf(S) \in S
  <2> HIDE DEF S
  <2> QED
    BY <1>2, MaxOfBounded, BoundsAssumption
<1> QED
  BY <1>3, <1>4

\* What is written again are changes.
LEMMA RecoveredType ==
  ASSUME NEW n \in Nodes, lead[n] \in Lead
  PROVE  Recovered(n) \in Seq(Change)
<1> DEFINE b == lead[n].opened
           e == RunEnd(lead[n].found, b)
<1>1. b \in 0 .. MaxId /\ lead[n].found \in SUBSET Copy
  BY DEF Lead
<1>2. e \in b .. MaxId /\ \A i \in (b + 1) .. e : \E c \in lead[n].found : c.id = i
  BY <1>1, RunEndType
<1>3. e - b \in Nat
  BY <1>1, <1>2, BoundsAssumption
<1>4. \A i \in 1 .. (e - b) : CopyOf(lead[n].found, b + i).change \in Change
  <2> TAKE i \in 1 .. (e - b)
  <2>1. b + i \in (b + 1) .. e
    BY <1>1, <1>2, BoundsAssumption
  <2>2. \E c \in lead[n].found : c.id = b + i
    BY <2>1, <1>2
  <2>3. CopyOf(lead[n].found, b + i) \in lead[n].found
    BY <2>2 DEF CopyOf
  <2>4. CopyOf(lead[n].found, b + i) \in Copy
    BY <2>3, <1>1
  <2> QED
    BY <2>4 DEF Copy
<1>5. Recovered(n) = [i \in 1 .. (e - b) |-> CopyOf(lead[n].found, b + i).change]
  BY DEF Recovered
<1> HIDE DEF e, b
<1> QED
  BY <1>3, <1>4, <1>5

-----------------------------------------------------------------------------
(* Every step keeps the types                                              *)

\* A new process begins with nothing, which has its type.
LEMMA NewProcessType ==
  ASSUME TypeOK, NEW n \in Nodes, NEW p \in Proc, NewProcess(n, p)
  PROVE  /\ proc' \in [Nodes -> Proc]
         /\ lead' \in [Nodes -> Lead]
         /\ fol' \in [Nodes -> Fol]
         /\ wire' \in SUBSET Ack
<1>1. NewFol(held[n]) \in Fol
  BY NewFolType DEF TypeOK
<1> QED
  BY <1>1, NoLeadType DEF TypeOK, NewProcess

\* Taking over (Claim, Follow, TakeBack, Crash) keeps TypeOK.
LEMMA TakeoverType ==
  ASSUME TypeOK, TermInv, NEW n \in Nodes, Takeover(n)
  PROVE  TypeOK'
<1> USE BoundsAssumption
<1>0. Len(owner) \in 0 .. MaxTerm
  BY DEF TypeOK
<1>1. CASE Claim(n)
  <2> DEFINE p == [role |-> "opening", term |-> Latest + 1, epoch |-> 0]
  <2>1. p \in Proc
    BY <1>0, <1>1 DEF Claim, Latest, Proc, Roles
  <2>2. Append(owner, n) \in Seq(Nodes) /\ Len(Append(owner, n)) <= MaxTerm
    BY <1>0, <1>1 DEF Claim, Latest, TypeOK
  <2>3. NewProcess(n, p)
    BY <1>1 DEF Claim
  <2> HIDE DEF p
  <2> QED
    BY <1>1, <2>1, <2>2, <2>3, NewProcessType DEF Claim, TypeOK
<1>2. CASE Follow(n)
  <2> DEFINE p == [role |-> "follower", term |-> Latest, epoch |-> 0]
  <2>1. p \in Proc
    BY <1>0 DEF Latest, Proc, Roles
  <2>2. NewProcess(n, p)
    BY <1>2 DEF Follow
  <2> HIDE DEF p
  <2> QED
    BY <1>2, <2>1, <2>2, NewProcessType DEF Follow, TypeOK
<1>3. CASE TakeBack(n)
  <2> DEFINE p == [role |-> "opening", term |-> Latest, epoch |-> 0]
  <2>1. p \in Proc
    BY <1>0 DEF Latest, Proc, Roles
  <2>2. NewProcess(n, p)
    BY <1>3 DEF TakeBack
  <2> HIDE DEF p
  <2> QED
    BY <1>3, <2>1, <2>2, NewProcessType DEF TakeBack, TypeOK
<1>4. CASE Crash(n)
  <2> DEFINE p == [role |-> "down", term |-> 0, epoch |-> 0]
  <2>1. p \in Proc
    BY DEF Proc, Roles
  <2>2. NewProcess(n, p)
    BY <1>4 DEF Crash
  <2>3. crashes' \in 0 .. MaxCrashes
    BY <1>4 DEF Crash, TypeOK
  <2> HIDE DEF p
  <2> QED
    BY <1>4, <2>1, <2>2, <2>3, NewProcessType DEF Crash, TypeOK
<1> QED
  BY <1>1, <1>2, <1>3, <1>4 DEF Takeover

\* What a node heard of stays a term.
LEMMA HearsType ==
  ASSUME TypeOK, NEW f \in Nodes, NEW t \in 0 .. MaxTerm
  PROVE  Hears(f, t) \in 0 .. MaxTerm
<1>1. fol[f].seen \in 0 .. MaxTerm
  BY DEF TypeOK, Fol
<1> QED
  BY <1>1, MaxOfTwo, BoundsAssumption DEF Hears

\* Recovering keeps TypeOK.
LEMMA RecoverType ==
  ASSUME TypeOK, EpochInv, BucketInv, NEW n \in Nodes, Recover(n)
  PROVE  TypeOK'
<1> USE BoundsAssumption
<1>0. /\ lead \in [Nodes -> Lead] /\ lead[n] \in Lead
      /\ fol \in [Nodes -> Fol]
      /\ proc[n] \in Proc /\ proc[n].term \in 0 .. MaxTerm
      /\ bucket \in Seq(Change) /\ Len(bucket) \in 0 .. MaxId
  BY DEF TypeOK, Proc, BucketInv
<1>a. \A p \in Nodes, k \in Nat : Answer(p, k) \in SUBSET Copy
  BY DEF TypeOK, Answer
<1>b. \A p \in Nodes : [fol EXCEPT ![p].seen = Hears(p, proc[n].term)] \in [Nodes -> Fol]
  BY <1>0, HearsType, ZenonT(60) DEF Fol
<1>1. CASE Open(n)
  <2> DEFINE m == Listed(bucket)
             at == Len(bucket)
             r == [NoLead EXCEPT !.log = bucket, !.opened = at, !.sent = at,
                                 !.committed = at, !.flushed = at, !.durable = at,
                                 !.todo = m \ {n},
                                 !.outside = (m # {} /\ n \notin m),
                                 !.found = Answer(n, at)]
  <2>1. m \in SUBSET Nodes /\ at \in 0 .. MaxId /\ Answer(n, at) \in SUBSET Copy
    BY <1>0, <1>a, ListedType
  <2>2. r \in Lead
    <3> HIDE DEF m, at
    <3> QED
      BY <2>1, <1>0, NoLeadType, ZenonT(60) DEF Lead
  <2>3. lead' = [lead EXCEPT ![n] = r]
    BY <1>1 DEF Open
  <2>4. lead' \in [Nodes -> Lead]
    <3> HIDE DEF r
    <3> QED
      BY <2>2, <2>3, <1>0
  <2>5. proc' \in [Nodes -> Proc] /\ fence' \in 0 .. MaxEpoch
    <3>1. fence + 1 \in 0 .. MaxEpoch /\ proc \in [Nodes -> Proc]
      BY <1>1 DEF Open, TypeOK
    <3>2. fence' = fence + 1
      BY <1>1 DEF Open
    <3>3. proc' = [proc EXCEPT ![n] = [@ EXCEPT !.role = "recovering", !.epoch = fence + 1]]
      BY <1>1, <3>1 DEF Open
    <3> QED
      BY <3>1, <3>2, <3>3 DEF Proc, Roles
  <2>6. fol' \in [Nodes -> Fol]
    <3>1. fol' = [fol EXCEPT ![n].seen = Hears(n, proc[n].term)]
      BY <1>1 DEF Open
    <3> QED
      BY <3>1, <1>b
  <2> HIDE DEF r
  <2> QED
    BY <1>1, <2>4, <2>5, <2>6 DEF Open, TypeOK
<1>2. ASSUME NEW p \in Nodes, Collect(n, p) PROVE TypeOK'
  <2>1. lead[n].todo \ {p} \in SUBSET Nodes
    BY <1>0, LeadFields
  <2>2. Merge(lead[n].found, Answer(p, lead[n].opened)) \in SUBSET Copy
    <3>1. lead[n].found \in SUBSET Copy /\ lead[n].opened \in Nat
      BY <1>0, LeadFields
    <3> QED
      BY <3>1, <1>a, MergeType
  <2> DEFINE todo == lead[n].todo \ {p}
             found == Merge(lead[n].found, Answer(p, lead[n].opened))
  <2>3. lead' = [lead EXCEPT ![n] = [@ EXCEPT !.todo = todo, !.found = found]]
    BY <1>0, <1>2 DEF Collect
  <2>4. lead' \in [Nodes -> Lead]
    <3>1. [lead[n] EXCEPT !.todo = todo, !.found = found] \in Lead
      <4> HIDE DEF todo, found
      <4> QED
        BY <1>0, <2>1, <2>2, SetTodo, SetFound DEF todo, found
    <3> QED
      BY <1>0, <2>3, <3>1
  <2>5. fol' \in [Nodes -> Fol]
    BY <1>2, <1>b DEF Collect
  <2> QED
    BY <1>2, <2>4, <2>5 DEF Collect, TypeOK
<1>3. ASSUME NEW p \in Nodes, Skip(n, p) PROVE TypeOK'
  <2>0. lead[n].todo \ {p} \in SUBSET Nodes /\ lead[n].skipped + 1 \in Nat
    BY <1>0, LeadFields
  <2>1. [lead[n] EXCEPT !.todo = @ \ {p}, !.skipped = @ + 1] \in Lead
    BY <1>0, <2>0, SetTodo, SetSkipped
  <2>2. lead' \in [Nodes -> Lead]
    BY <1>0, <1>3, <2>1 DEF Skip
  <2> QED
    BY <1>3, <2>2 DEF Skip, TypeOK
<1>4. ASSUME NEW p \in Nodes, LetGo(n, p) PROVE TypeOK'
  <2> DEFINE q == [role |-> "down", term |-> 0, epoch |-> 0]
  <2>1. q \in Proc
    BY DEF Proc, Roles
  <2>2. NewProcess(n, q)
    BY <1>4 DEF LetGo
  <2> HIDE DEF q
  <2> QED
    BY <1>4, <2>1, <2>2, NewProcessType DEF LetGo, TypeOK
<1>5. CASE Rewrite(n)
  <2> DEFINE off == IF Replicas[n] = 1 /\ Listed(bucket) # {}
                    THEN <<[by |-> proc[n].epoch, m |-> {{}}]>> ELSE <<>>
             log == lead[n].log \o Recovered(n) \o off
  <2>1. off \in Seq(Change)
    <3>1. proc[n].epoch \in 1 .. MaxEpoch
      BY <1>0, <1>5 DEF Rewrite, EpochInv, InCharge, Proc
    <3>2. [by |-> proc[n].epoch, m |-> {{}}] \in Change
      BY <3>1 DEF Change
    <3> QED
      BY <3>2
  <2>2. log \in Seq(Change)
    <3>1. lead[n].log \in Seq(Change) /\ Recovered(n) \in Seq(Change)
      BY <1>0, RecoveredType DEF Lead
    <3> HIDE DEF off
    <3> QED
      BY <3>1, <2>1
  <2>3. lead' = [lead EXCEPT ![n] = [@ EXCEPT !.log = log, !.found = {}]]
    BY <1>0, <1>5 DEF Rewrite
  <2>4. lead' \in [Nodes -> Lead]
    <3>1. [lead[n] EXCEPT !.log = log, !.found = {}] \in Lead
      <4> HIDE DEF log
      <4> QED
        BY <1>0, <2>2, SetLog, SetFound
    <3> HIDE DEF log
    <3> QED
      BY <1>0, <2>3, <3>1
  <2>5. proc' \in [Nodes -> Proc]
    BY <1>5, ZenonT(60) DEF Rewrite, TypeOK, Proc, Roles
  <2> QED
    BY <1>5, <2>4, <2>5 DEF Rewrite, TypeOK
<1>6. CASE Serve(n)
  <2>1. proc' \in [Nodes -> Proc]
    BY <1>6 DEF Serve, TypeOK, Proc, Roles
  <2> QED
    BY <1>6, <2>1 DEF Serve, TypeOK
<1> QED
  BY <1>1, <1>2, <1>3, <1>4, <1>5, <1>6 DEF Recover, Ask

\* The commit loop keeps TypeOK.
LEMMA CommitType ==
  ASSUME TypeOK, EpochInv, CountInv, BucketInv, NEW n \in Nodes, CommitStep(n)
  PROVE  TypeOK'
<1> USE BoundsAssumption
<1>0. /\ lead \in [Nodes -> Lead] /\ lead[n] \in Lead /\ CountOK(lead[n])
      /\ proc[n] \in Proc /\ bucket \in Seq(Change)
  BY DEF TypeOK, CountInv
<1>a. /\ lead[n].log \in Seq(Change) /\ Len(lead[n].log) \in 0 .. MaxId
      /\ lead[n].sent \in 0 .. MaxId /\ lead[n].committed \in 0 .. MaxId
      /\ lead[n].flushed \in 0 .. MaxId /\ lead[n].durable \in 0 .. MaxId
  BY <1>0, LeadFields DEF CountOK
<1>b. lead[n].sent <= Len(lead[n].log)
  BY <1>0 DEF CountOK
<1>c. \A i \in 1 .. Len(lead[n].log) : lead[n].log[i] \in Change
  BY <1>a
<1>1. CASE Write(n)
  <2>1. proc[n].epoch \in 1 .. MaxEpoch
    BY <1>0, <1>1 DEF Write, Leads, EpochInv, InCharge, Proc
  <2>2. [by |-> proc[n].epoch, m |-> NoList] \in Change
    BY <2>1 DEF Change
  <2>3. Append(lead[n].log, [by |-> proc[n].epoch, m |-> NoList]) \in Seq(Change)
    BY <1>a, <2>2
  <2>4. lead' \in [Nodes -> Lead]
    BY <1>0, <1>1, <2>3, SetLog DEF Write
  <2> QED
    BY <1>1, <2>4 DEF Write, TypeOK
<1>2. CASE Flush(n)
  <2>1. lead[n].flushed + 1 \in 1 .. Len(lead[n].log)
    BY <1>a, <1>2, SMTT(60) DEF Flush
  <2>2. bucket' \in Seq(Change)
    BY <1>0, <1>2, <1>c, <2>1 DEF Flush
  <2>3. lead[n].flushed + 1 \in 0 .. MaxId
    BY <2>1, <1>a, SMTT(60)
  <2>4. lead' \in [Nodes -> Lead]
    BY <1>0, <1>2, <2>3 DEF Flush, Lead
  <2> QED
    BY <1>2, <2>2, <2>4 DEF Flush, TypeOK
<1>3. CASE Stream(n)
  <2>1. lead[n].sent + 1 \in 0 .. MaxId /\ IsClose(n) \in BOOLEAN
    BY <1>a, <1>3, SMTT(60) DEF Stream, IsClose
  <2>2. lead' \in [Nodes -> Lead]
    BY <1>0, <1>3, <2>1 DEF Stream, Lead
  <2> QED
    BY <1>3, <2>2 DEF Stream, TypeOK
<1>4. CASE Commit(n)
  <2>1. lead[n].committed + 1 \in 0 .. MaxId /\ lead[n].sent \in 1 .. Len(lead[n].log)
    BY <1>a, <1>b, <1>4, SMTT(60) DEF Commit
  <2>2. lead' \in [Nodes -> Lead]
    BY <1>0, <1>4, <2>1 DEF Commit, Lead
  <2>3. lead[n].sent \in Ids /\ lead[n].log[lead[n].sent] \in Change
    BY <2>1, <1>a, <1>c DEF Ids
  <2>4. acked' \in SUBSET Placed
    BY <1>4, <2>3 DEF Commit, TypeOK, Placed
  <2> QED
    BY <1>4, <2>2, <2>4 DEF Commit, TypeOK
<1>5. CASE NoteDurable(n)
  <2>1. lead[n].durable + 1 \in 0 .. MaxId
    BY <1>a, <1>5, SMTT(60) DEF NoteDurable
  <2>2. lead' \in [Nodes -> Lead]
    BY <1>0, <1>5, <2>1 DEF NoteDurable, Lead
  <2> QED
    BY <1>5, <2>2 DEF NoteDurable, TypeOK
<1> QED
  BY <1>1, <1>2, <1>3, <1>4, <1>5 DEF CommitStep

\* An acknowledgement that arrives keeps TypeOK.
LEMMA AckType ==
  ASSUME TypeOK, NEW a \in wire, ReceiveAck(a)
  PROVE  TypeOK'
<1>1. a \in Ack /\ a.to \in Nodes /\ a.from \in Nodes
  BY DEF TypeOK, Ack
<1>2. <<a.first, a.upto>> \in Nat \X Nat
  BY <1>1, BoundsAssumption DEF Ack, Ids
<1>3. lead \in [Nodes -> Lead] /\ lead[a.to] \in Lead /\ lead[a.to].acks \in [Nodes -> (Nat \X Nat)]
  BY <1>1, LeadFields DEF TypeOK
<1>4. [lead EXCEPT ![a.to].acks[a.from] = <<a.first, a.upto>>] \in [Nodes -> Lead]
  <2> DEFINE x == [lead[a.to].acks EXCEPT ![a.from] = <<a.first, a.upto>>]
  <2>1. x \in [Nodes -> (Nat \X Nat)]
    BY <1>2, <1>3
  <2>2. [lead EXCEPT ![a.to].acks[a.from] = <<a.first, a.upto>>] = [lead EXCEPT ![a.to] = [@ EXCEPT !.acks = x]]
    BY <1>1, <1>3
  <2> HIDE DEF x
  <2> QED
    BY <1>3, <2>1, <2>2, SetAcks
<1>5. lead' \in [Nodes -> Lead]
  BY <1>3, <1>4 DEF ReceiveAck
<1> QED
  BY <1>5 DEF ReceiveAck, TypeOK

\* The members loop keeps TypeOK.
LEMMA MembersType ==
  ASSUME TypeOK, EpochInv, CountInv, NEW n \in Nodes, Members(n)
  PROVE  TypeOK'
<1> USE BoundsAssumption
<1>0. /\ lead \in [Nodes -> Lead] /\ lead[n] \in Lead /\ CountOK(lead[n])
      /\ proc[n] \in Proc
  BY DEF TypeOK, CountInv
<1>a. /\ lead[n].log \in Seq(Change) /\ Len(lead[n].log) \in 0 .. MaxId
      /\ lead[n].committed \in 0 .. MaxId /\ lead[n].job \in Job /\ lead[n].job.live \in SUBSET Nodes
      /\ lead[n].committed <= Len(lead[n].log)
  BY <1>0, LeadFields DEF CountOK, Job
<1>1. CASE List(n)
  <2> DEFINE lg == Append(lead[n].log, [by |-> proc[n].epoch, m |-> {lead[n].job.live}])
             jb == [lead[n].job EXCEPT !.at = "list", !.upto = Len(lead[n].log) + 1]
  <2>1. proc[n].epoch \in 1 .. MaxEpoch
    BY <1>0, <1>1 DEF List, Leads, EpochInv, InCharge, Proc
  <2>2. [by |-> proc[n].epoch, m |-> {lead[n].job.live}] \in Change
    BY <1>a, <2>1 DEF Change
  <2>3. lg \in Seq(Change)
    BY <1>a, <2>2
  <2>4. jb \in Job
    <3>1. Len(lead[n].log) + 1 \in 0 .. MaxId
      BY <1>a, <1>1, SMTT(60) DEF List
    <3> QED
      BY <3>1, <1>a DEF Job
  <2>5. lead' = [lead EXCEPT ![n] = [@ EXCEPT !.log = lg, !.job = jb]]
    BY <1>0, <1>1, ZenonT(60) DEF List
  <2>6. lead' \in [Nodes -> Lead]
    <3> HIDE DEF lg, jb
    <3>1. [lead[n] EXCEPT !.log = lg, !.job = jb] \in Lead
      BY <1>0, <2>3, <2>4, SetLog, SetJob
    <3> QED
      BY <1>0, <2>5, <3>1
  <2> QED
    BY <1>1, <2>6 DEF List, TypeOK
<1>2. CASE Count(n)
  <2>1. Idle \in Job
    BY DEF Idle, Job
  <2>2. [lead[n] EXCEPT !.counting = lead[n].job.live, !.job = Idle] \in Lead
    <3> HIDE DEF Idle
    <3> QED
      BY <1>0, <1>a, <2>1, SetCounting, SetJob
  <2>3. lead' \in [Nodes -> Lead]
    BY <1>0, <1>2, <2>2 DEF Count
  <2> QED
    BY <1>2, <2>3 DEF Count, TypeOK
<1>3. ASSUME NEW live \in SUBSET Beating(n), Shrink(n, live) PROVE TypeOK'
  <2> DEFINE listed == Listed(SubSeq(lead[n].log, 1, lead[n].committed))
             jb == [at |-> "drain", live |-> live, upto |-> lead[n].committed]
  <2>1. SubSeq(lead[n].log, 1, lead[n].committed) \in Seq(Change)
    BY <1>a
  <2>2. listed \cap live \in SUBSET Nodes
    BY <2>1, ListedType
  <2>3. jb \in Job
    BY <1>a DEF Job, Beating
  <2>4. lead' = [lead EXCEPT ![n] = [@ EXCEPT !.counting = listed \cap live, !.job = jb]]
    BY <1>0, <1>3 DEF Shrink
  <2>5. lead' \in [Nodes -> Lead]
    <3> HIDE DEF listed, jb
    <3>1. [lead[n] EXCEPT !.counting = listed \cap live, !.job = jb] \in Lead
      BY <1>0, <2>2, <2>3, SetCounting, SetJob
    <3> QED
      BY <1>0, <2>4, <3>1
  <2> HIDE DEF listed, jb
  <2> QED
    BY <1>3, <2>5 DEF Shrink, TypeOK
<1> QED
  BY <1>1, <1>2, <1>3 DEF Members

\* The change a connected follower waits for is in its leader's log.
LEMMA StreamedType ==
  ASSUME TypeOK, TermInv, CountInv, NEW f \in Nodes, proc[f].role = "follower"
  PROVE  /\ LeaderOf(f) \in Nodes
         /\ Streamed(LeaderOf(f)) \in 0 .. MaxId
         /\ Streamed(LeaderOf(f)) <= Len(lead[LeaderOf(f)].log)
<1> USE BoundsAssumption
<1>1. proc[f].term \in 1 .. Len(owner)
  BY DEF TermInv
<1>2. LeaderOf(f) \in Nodes
  BY <1>1 DEF LeaderOf, TypeOK
<1> DEFINE l == LeaderOf(f)
<1>3. lead[l] \in Lead /\ CountOK(lead[l])
  BY <1>2 DEF TypeOK, CountInv
<1> HIDE DEF l
<1>4. Streamed(l) \in 0 .. MaxId /\ Streamed(l) <= Len(lead[l].log)
  BY <1>3, LeadFields DEF CountOK, Streamed
<1> QED
  BY <1>2, <1>4 DEF l

\* A follower keeping its stream keeps TypeOK.
LEMMA MirrorType ==
  ASSUME TypeOK, TermInv, EpochInv, CountInv, FolInv, NEW f \in Nodes, Mirror(f)
  PROVE  TypeOK'
<1> USE BoundsAssumption
<1> DEFINE l == LeaderOf(f)
<1>0. proc[f].role = "follower"
  BY DEF Mirror, Connect, Disconnect, Hold, Prune, Connected
<1>a. /\ l \in Nodes /\ Streamed(l) \in 0 .. MaxId /\ Streamed(l) <= Len(lead[l].log)
      /\ fol \in [Nodes -> Fol] /\ fol[f] \in Fol
      /\ held \in [Nodes -> SUBSET Copy] /\ held[f] \in SUBSET Copy
      /\ lead[l] \in Lead /\ proc[l] \in Proc
  BY <1>0, StreamedType DEF TypeOK
<1> HIDE DEF l
<1>1. CASE Disconnect(f)
  <2>1. [fol[f] EXCEPT !.conn = 0] \in Fol
    <3> DEFINE Run == Nat \X Nat
    <3>1. fol[f] \in [seen : 0 .. MaxTerm, run : Run, conn : 0 .. MaxEpoch,
                      sterm : 0 .. MaxTerm, last : 0 .. MaxId]
      BY <1>a DEF Fol
    <3> HIDE DEF Run
    <3>2. [fol[f] EXCEPT !.conn = 0] \in [seen : 0 .. MaxTerm, run : Run, conn : 0 .. MaxEpoch,
                                         sterm : 0 .. MaxTerm, last : 0 .. MaxId]
      BY <3>1
    <3> QED
      BY <3>2 DEF Fol, Run
  <2>2. fol' = [fol EXCEPT ![f] = [@ EXCEPT !.conn = 0]]
    BY <1>1 DEF Disconnect
  <2>3. fol' \in [Nodes -> Fol]
    BY <1>a, <2>1, <2>2
  <2> QED
    BY <1>1, <2>3 DEF Disconnect, TypeOK
<1>2. CASE Connect(f)
  <2> DEFINE t == proc[l].term
             last == IF fol[f].sterm = t THEN fol[f].last ELSE 0
  <2>1. t \in 0 .. MaxTerm /\ proc[l].epoch \in 0 .. MaxEpoch /\ last \in 0 .. MaxId
    <3>1. t \in 0 .. MaxTerm /\ proc[l].epoch \in 0 .. MaxEpoch
      BY <1>a, ProcFields
    <3>2. fol[f].last \in 0 .. MaxId
      BY <1>a, FolFields
    <3> HIDE DEF t
    <3>3. last \in 0 .. MaxId
      BY <3>2
    <3> QED
      BY <3>1, <3>3
  <2>2. Hears(f, t) \in 0 .. MaxTerm
    BY <2>1, HearsType
  <2> HIDE DEF t, last
  <2>3. PICK from \in (lead[l].opened + 1) .. (Streamed(l) + 1) :
              /\ fol' = [fol EXCEPT ![f].conn = proc[l].epoch, ![f].sterm = t,
                                    ![f].seen = Hears(f, t), ![f].last = MaxOf({from - 1, last})]
              /\ held' = [held EXCEPT ![f] = StillGood(@, t)]
    BY <1>2 DEF Connect, l, t, last
  <2>4. from - 1 \in 0 .. MaxId
    BY <1>a, LeadFields
  <2>5. MaxOf({from - 1, last}) \in 0 .. MaxId
    BY <2>1, <2>4, MaxOfTwo
  <2>6. fol' \in [Nodes -> Fol]
    BY <1>a, <2>1, <2>2, <2>3, <2>5 DEF Fol
  <2>7. held' \in [Nodes -> SUBSET Copy]
    BY <1>a, <2>3 DEF StillGood
  <2> QED
    BY <1>2, <2>6, <2>7 DEF Connect, TypeOK
<1>3. CASE Hold(f)
  <2> DEFINE t == fol[f].sterm
             i == fol[f].last + 1
             r == fol[f].run
             run == IF r[2] > 0 /\ i = r[2] + 1 THEN <<r[1], i>> ELSE <<i, i>>
             keeps == Need(l) > 0 /\ Helps(f, t)
             copy == [id |-> i, term |-> t, change |-> lead[l].log[i]]
             ack == [from |-> f, to |-> l, term |-> t, first |-> run[1], upto |-> i]
  <2>0. /\ Connected(f)
        /\ i <= Streamed(l)
        /\ fol' = [fol EXCEPT ![f].last = i, ![f].run = IF keeps THEN run ELSE r]
        /\ held' = IF keeps THEN [held EXCEPT ![f] = Merge(@, {copy})] ELSE held
        /\ wire' = IF keeps THEN wire \cup {ack} ELSE wire
        /\ UNCHANGED <<bucket, fence, owner, proc, lead, acked, crashes>>
    BY <1>3 DEF Hold, l
  <2>1. i \in Ids /\ i \in 1 .. Len(lead[l].log)
    <3>1. fol[f].last \in Nat /\ Len(lead[l].log) \in Nat
      <4>1. fol[f].last \in 0 .. MaxId
        BY <1>a, FolFields
      <4>2. lead[l].log \in Seq(Change)
        BY <1>a, LeadFields
      <4> QED
        BY <4>1, <4>2
    <3> QED
      BY <3>1, <1>a, <2>0, SMTT(60) DEF Ids
  <2>2. t \in Terms
    <3>1. fol[f].conn > 0
      BY <2>0, <1>a DEF Connected, Leads, EpochInv, InCharge, l
    <3>2. t \in 0 .. MaxTerm
      BY <1>a, FolFields
    <3>3. t > 0
      BY <3>1 DEF FolInv
    <3> QED
      BY <3>2, <3>3 DEF Terms
  <2>3. r \in Nat \X Nat /\ run \in Nat \X Nat /\ run[1] \in Ids
    <3>1. r \in Nat \X Nat /\ (r[2] > 0 => r[1] \in Ids)
      <4>1. r \in Nat \X Nat
        BY <1>a, FolFields
      <4>2. r[2] > 0 => r[1] \in Ids
        BY DEF FolInv
      <4> QED
        BY <4>1, <4>2
    <3>2. i \in Nat
      BY <2>1 DEF Ids
    <3> HIDE DEF r, i
    <3>3. r[1] \in Nat /\ r[2] \in Nat
      BY <3>1
    <3> QED
      BY <3>1, <3>2, <3>3, <2>1
  <2>4. copy \in Copy
    <3>1. lead[l].log[i] \in Change
      BY <1>a, <2>1, LeadFields
    <3> HIDE DEF i, t
    <3> QED
      BY <3>1, <2>1, <2>2 DEF Copy
  <2>5. ack \in Ack
    <3> HIDE DEF i, t, run
    <3> QED
      BY <1>a, <2>1, <2>2, <2>3 DEF Ack
  <2>6. fol' \in [Nodes -> Fol]
    <3>1. i \in 0 .. MaxId
      BY <2>1 DEF Ids
    <3> HIDE DEF i, run, keeps
    <3>2. r \in Nat \X Nat /\ run \in Nat \X Nat
      BY <2>3
    <3> HIDE DEF r
    <3>3. (IF keeps THEN run ELSE r) \in Nat \X Nat
      BY <3>2
    <3> DEFINE q == IF keeps THEN run ELSE r
    <3>4. fol' = [fol EXCEPT ![f].last = i, ![f].run = q]
      BY <2>0
    <3> HIDE DEF q
    <3>5. q \in Nat \X Nat
      BY <3>3 DEF q
    <3> QED
      BY <1>a, <3>1, <3>4, <3>5 DEF Fol
  <2>7. held' \in [Nodes -> SUBSET Copy]
    <3> HIDE DEF copy, keeps
    <3>1. Merge(held[f], {copy}) \in SUBSET Copy
      BY <1>a, <2>4, MergeType
    <3> QED
      BY <1>a, <2>0, <3>1
  <2>8. wire' \in SUBSET Ack
    <3> HIDE DEF ack, keeps
    <3> QED
      BY <2>0, <2>5 DEF TypeOK
  <2> QED
    BY <2>0, <2>6, <2>7, <2>8 DEF TypeOK
<1>4. CASE Prune(f)
  <2>1. held' \in [Nodes -> SUBSET Copy]
    BY <1>4, <1>a DEF Prune
  <2> QED
    BY <1>4, <2>1 DEF Prune, TypeOK
<1> QED
  BY <1>1, <1>2, <1>3, <1>4 DEF Mirror

\* Every step keeps TypeOK.
LEMMA TypeStep == IInv /\ [Next]_vars => TypeOK'
<1> SUFFICES ASSUME IInv, [Next]_vars PROVE TypeOK'
  OBVIOUS
<1>1. CASE UNCHANGED vars
  BY <1>1 DEF IInv, TypeOK, vars
<1>2. CASE Next
  BY <1>2, TakeoverType, RecoverType, CommitType, MembersType, MirrorType, AckType DEF IInv, Next
<1> QED
  BY <1>1, <1>2

-----------------------------------------------------------------------------
(* Who is who, at every step                                               *)

\* Only taking over and the stages of a recovery touch the terms, the roles
\* and the writers' epochs.
LEMMA Frame ==
  ASSUME NEW n \in Nodes, Ask(n) \/ CommitStep(n) \/ Members(n) \/ Mirror(n)
  PROVE  UNCHANGED <<proc, owner, fence>>
  BY DEF Ask, Collect, Skip, CommitStep, Write, Flush, Stream, Commit, NoteDurable,
         Members, List, Count, Shrink, Mirror, Connect, Disconnect, Hold, Prune

\* What a takeover or a leader letting go makes of a node's process.
LEMMA NewRole ==
  ASSUME TypeOK, NEW n \in Nodes, Takeover(n) \/ \E p \in Nodes : LetGo(n, p)
  PROVE  /\ fence' = fence /\ bucket' = bucket
         /\ \E q \in Proc :
              /\ NewProcess(n, q)
              /\ proc' = [proc EXCEPT ![n] = q]
              /\ q.epoch = 0
              /\ \/ /\ Claim(n)
                    /\ q.role = "opening" /\ q.term = Len(owner) + 1
                    /\ owner' = Append(owner, n)
                 \/ /\ owner' = owner
                    /\ \/ q.role = "down"
                       \/ q.role = "follower" /\ q.term = Len(owner) /\ q.term > 0
                       \/ q.role = "opening" /\ q.term = Len(owner) /\ q.term > 0 /\ owner[q.term] = n
<1> USE BoundsAssumption
<1>0. Len(owner) \in 0 .. MaxTerm
  BY DEF TypeOK
<1>1. CASE Claim(n)
  <2> DEFINE q == [role |-> "opening", term |-> Latest + 1, epoch |-> 0]
  <2>1. q \in Proc
    BY <1>0, <1>1 DEF Claim, Latest, Proc, Roles
  <2>2. q.epoch = 0 /\ q.role = "opening" /\ q.term = Len(owner) + 1
    BY DEF Latest
  <2>3. NewProcess(n, q) /\ owner' = Append(owner, n) /\ fence' = fence /\ bucket' = bucket
    BY <1>1 DEF Claim
  <2>4. proc' = [proc EXCEPT ![n] = q]
    BY <2>3 DEF NewProcess
  <2> HIDE DEF q
  <2> QED
    BY <1>1, <2>1, <2>2, <2>3, <2>4
<1>2. CASE Follow(n)
  <2> DEFINE q == [role |-> "follower", term |-> Latest, epoch |-> 0]
  <2>1. q \in Proc
    BY <1>0 DEF Latest, Proc, Roles
  <2>2. q.epoch = 0 /\ q.role = "follower" /\ q.term = Len(owner) /\ q.term > 0
    BY <1>2 DEF Follow, Latest
  <2>3. NewProcess(n, q) /\ owner' = owner /\ fence' = fence /\ bucket' = bucket
    BY <1>2 DEF Follow
  <2>4. proc' = [proc EXCEPT ![n] = q]
    BY <2>3 DEF NewProcess
  <2> HIDE DEF q
  <2> QED
    BY <2>1, <2>2, <2>3, <2>4
<1>3. CASE TakeBack(n)
  <2> DEFINE q == [role |-> "opening", term |-> Latest, epoch |-> 0]
  <2>1. q \in Proc
    BY <1>0 DEF Latest, Proc, Roles
  <2>2. q.epoch = 0 /\ q.role = "opening" /\ q.term = Len(owner) /\ q.term > 0 /\ owner[q.term] = n
    BY <1>3 DEF TakeBack, Latest
  <2>3. NewProcess(n, q) /\ owner' = owner /\ fence' = fence /\ bucket' = bucket
    BY <1>3 DEF TakeBack
  <2>4. proc' = [proc EXCEPT ![n] = q]
    BY <2>3 DEF NewProcess
  <2> HIDE DEF q
  <2> QED
    BY <2>1, <2>2, <2>3, <2>4
<1>4. CASE Crash(n) \/ \E p \in Nodes : LetGo(n, p)
  <2> DEFINE q == [role |-> "down", term |-> 0, epoch |-> 0]
  <2>1. q \in Proc
    BY DEF Proc, Roles
  <2>2. q.epoch = 0 /\ q.role = "down"
    OBVIOUS
  <2>3. NewProcess(n, q) /\ owner' = owner /\ fence' = fence /\ bucket' = bucket
    BY <1>4 DEF Crash, LetGo
  <2>4. proc' = [proc EXCEPT ![n] = q]
    BY <2>3 DEF NewProcess
  <2> HIDE DEF q
  <2> QED
    BY <2>1, <2>2, <2>3, <2>4
<1> QED
  BY <1>1, <1>2, <1>3, <1>4 DEF Takeover

\* A node's stages from the opened catalog to serving.
LEMMA NextRole ==
  ASSUME TypeOK, NEW n \in Nodes, Rewrite(n) \/ Serve(n)
  PROVE  /\ UNCHANGED <<bucket, owner, fence>>
         /\ proc[n].role \in InCharge
         /\ \E r \in {"settling", "leading"} : proc' = [proc EXCEPT ![n] = [@ EXCEPT !.role = r]]
<1>1. CASE Rewrite(n)
  BY <1>1 DEF Rewrite, InCharge
<1>2. CASE Serve(n)
  BY <1>2 DEF Serve, InCharge
<1> QED
  BY <1>1, <1>2

\* A claimer that opens the catalog gets an epoch newer than every other's.
LEMMA OpenRole ==
  ASSUME TypeOK, NEW n \in Nodes, Open(n)
  PROVE  /\ UNCHANGED <<bucket, owner>>
         /\ proc[n].role = "opening"
         /\ fence' = fence + 1
         /\ proc' = [proc EXCEPT ![n] = [@ EXCEPT !.role = "recovering", !.epoch = fence + 1]]
<1>1. proc \in [Nodes -> Proc] /\ proc[n] \in Proc
  BY DEF TypeOK
<1> QED
  BY <1>1 DEF Open, Proc

\* The roles a step may change, in one place.
LEMMA RoleSteps ==
  ASSUME [Next]_vars
  PROVE  \/ UNCHANGED <<proc, owner, fence>>
         \/ \E n \in Nodes : \/ Takeover(n) \/ \E p \in Nodes : LetGo(n, p)
                             \/ Rewrite(n) \/ Serve(n)
                             \/ Open(n)
<1>1. CASE UNCHANGED vars
  BY <1>1 DEF vars
<1>2. ASSUME NEW a \in wire, ReceiveAck(a) PROVE UNCHANGED <<proc, owner, fence>>
  BY <1>2 DEF ReceiveAck
<1>3. ASSUME NEW n \in Nodes, Ask(n) \/ CommitStep(n) \/ Members(n) \/ Mirror(n)
      PROVE  UNCHANGED <<proc, owner, fence>>
  BY <1>3, Frame
<1> QED
  BY <1>1, <1>2, <1>3 DEF Next, Recover

\* Every step keeps TermInv.
LEMMA TermStep == IInv /\ [Next]_vars => TermInv'
<1> SUFFICES ASSUME IInv, [Next]_vars PROVE TermInv'
  OBVIOUS
<1> USE BoundsAssumption
<1>0. /\ TypeOK /\ TermInv
      /\ proc \in [Nodes -> Proc] /\ owner \in Seq(Nodes) /\ Len(owner) \in Nat
  BY DEF IInv, TypeOK
<1>1. CASE UNCHANGED <<proc, owner, fence>>
  BY <1>0, <1>1 DEF TermInv
<1>2. ASSUME NEW n \in Nodes, Takeover(n) \/ \E p \in Nodes : LetGo(n, p) PROVE TermInv'
  <2>1. PICK q \in Proc :
              /\ proc' = [proc EXCEPT ![n] = q]
              /\ \/ /\ q.role = "opening" /\ q.term = Len(owner) + 1
                    /\ owner' = Append(owner, n)
                 \/ /\ owner' = owner
                    /\ \/ q.role = "down"
                       \/ q.role = "follower" /\ q.term = Len(owner) /\ q.term > 0
                       \/ q.role = "opening" /\ q.term = Len(owner) /\ q.term > 0 /\ owner[q.term] = n
    BY <1>0, <1>2, NewRole
  <2>2. CASE owner' = Append(owner, n) /\ q.role = "opening" /\ q.term = Len(owner) + 1
    <3>1. /\ Len(owner') = Len(owner) + 1 /\ owner'[Len(owner) + 1] = n
          /\ \A t \in 1 .. Len(owner) : owner'[t] = owner[t]
      BY <1>0, <2>2
    <3>2. \A m \in Nodes : m # n => proc'[m] = proc[m]
      BY <1>0, <2>1
    <3>3. proc'[n] = q
      BY <1>0, <2>1
    <3>4. \A m \in Nodes : proc[m].role # "down" => proc[m].term \in 1 .. Len(owner) + 1
      BY <1>0 DEF TermInv
    <3>5. q.term \in 1 .. Len(owner) + 1 /\ owner'[q.term] = n
      BY <1>0, <2>2, <3>1
    <3>6. \A m \in Nodes : proc[m].role \in InCharge \cup {"opening"} => owner'[proc[m].term] = m
      <4> SUFFICES ASSUME NEW m \in Nodes, proc[m].role \in InCharge \cup {"opening"}
                   PROVE  owner'[proc[m].term] = m
        OBVIOUS
      <4>1. proc[m].term \in 1 .. Len(owner) /\ owner[proc[m].term] = m
        BY <1>0 DEF TermInv, InCharge
      <4> QED
        BY <4>1, <3>1
    <3> QED
      BY <3>1, <3>2, <3>3, <3>4, <3>5, <3>6 DEF TermInv
  <2>3. CASE owner' = owner
    <3>1. \/ q.role = "down"
          \/ q.role = "follower" /\ q.term \in 1 .. Len(owner)
          \/ q.role = "opening" /\ q.term \in 1 .. Len(owner) /\ owner[q.term] = n
      <4>1. Len(owner) + 1 # Len(owner)
        BY <1>0
      <4>2. Len(Append(owner, n)) = Len(owner) + 1
        BY <1>0
      <4> QED
        BY <1>0, <2>1, <2>3, <4>1, <4>2
    <3> QED
      BY <1>0, <2>1, <2>3, <3>1 DEF TermInv, InCharge
  <2> QED
    BY <2>1, <2>2, <2>3
<1>3. ASSUME NEW n \in Nodes, Rewrite(n) \/ Serve(n) PROVE TermInv'
  <2>1. PICK r \in {"settling", "leading"} : proc' = [proc EXCEPT ![n] = [@ EXCEPT !.role = r]]
    BY <1>0, <1>3, NextRole
  <2>2. owner' = owner /\ proc[n].role \in InCharge
    BY <1>0, <1>3, NextRole
  <2>3. proc[n].role # "down"
    BY <2>2 DEF InCharge
  <2>4. proc'[n].term = proc[n].term /\ \A m \in Nodes : m # n => proc'[m] = proc[m]
    BY <1>0, <2>1 DEF Proc
  <2> QED
    BY <1>0, <2>2, <2>3, <2>4 DEF TermInv
<1>4. ASSUME NEW n \in Nodes, Open(n) PROVE TermInv'
  <2>1. owner' = owner /\ proc[n].role = "opening"
    BY <1>0, <1>4, OpenRole
  <2>2. proc' = [proc EXCEPT ![n] = [@ EXCEPT !.role = "recovering", !.epoch = fence + 1]]
    BY <1>0, <1>4, OpenRole
  <2>3. proc'[n].term = proc[n].term /\ \A m \in Nodes : m # n => proc'[m] = proc[m]
    BY <1>0, <2>2 DEF Proc
  <2> QED
    BY <1>0, <2>1, <2>3 DEF TermInv
<1> QED
  BY <1>1, <1>2, <1>3, <1>4, RoleSteps

\* Every step keeps EpochInv.
LEMMA EpochStep == IInv /\ [Next]_vars => EpochInv'
<1> SUFFICES ASSUME IInv, [Next]_vars PROVE EpochInv'
  OBVIOUS
<1> USE BoundsAssumption
<1>0. /\ TypeOK /\ EpochInv
      /\ proc \in [Nodes -> Proc] /\ fence \in Nat
  BY DEF IInv, TypeOK
<1>a. \A m \in Nodes : proc[m].epoch \in Nat
  BY <1>0 DEF Proc
<1>1. CASE UNCHANGED <<proc, owner, fence>>
  BY <1>0, <1>1 DEF EpochInv
<1>2. ASSUME NEW n \in Nodes, Takeover(n) \/ \E p \in Nodes : LetGo(n, p) PROVE EpochInv'
  <2>1. /\ fence' = fence
        /\ \E q \in Proc : /\ proc' = [proc EXCEPT ![n] = q]
                           /\ q.epoch = 0 /\ q.role \notin InCharge
    BY <1>0, <1>2, NewRole DEF InCharge
  <2>2. /\ proc'[n].epoch = 0 /\ proc'[n].role \notin InCharge
        /\ \A m \in Nodes : m # n => proc'[m] = proc[m]
    BY <1>0, <2>1
  <2> QED
    BY <1>0, <1>a, <2>1, <2>2 DEF EpochInv
<1>3. ASSUME NEW n \in Nodes, Rewrite(n) \/ Serve(n) PROVE EpochInv'
  <2>1. PICK r \in {"settling", "leading"} : proc' = [proc EXCEPT ![n] = [@ EXCEPT !.role = r]]
    BY <1>0, <1>3, NextRole
  <2>2. fence' = fence /\ proc[n].role \in InCharge
    BY <1>0, <1>3, NextRole
  <2>3. /\ proc'[n].epoch = proc[n].epoch /\ proc'[n].role \in InCharge
        /\ \A m \in Nodes : m # n => proc'[m] = proc[m]
    BY <1>0, <2>1 DEF Proc, InCharge
  <2> QED
    BY <1>0, <2>2, <2>3 DEF EpochInv
<1>4. ASSUME NEW n \in Nodes, Open(n) PROVE EpochInv'
  <2>1. fence' = fence + 1
    BY <1>0, <1>4, OpenRole
  <2>2. proc' = [proc EXCEPT ![n] = [@ EXCEPT !.role = "recovering", !.epoch = fence + 1]]
    BY <1>0, <1>4, OpenRole
  <2>3. /\ proc'[n].epoch = fence + 1 /\ proc'[n].role \in InCharge
        /\ \A m \in Nodes : m # n => proc'[m] = proc[m]
    BY <1>0, <2>2 DEF Proc, InCharge
  <2>4. \A m \in Nodes : proc[m].epoch <= fence
    BY <1>0 DEF EpochInv
  <2> QED
    BY <1>0, <1>a, <2>1, <2>3, <2>4 DEF EpochInv
<1> QED
  BY <1>1, <1>2, <1>3, <1>4, RoleSteps

\* Every step keeps OpeningInv.
LEMMA OpeningStep == IInv /\ [Next]_vars => OpeningInv'
<1> SUFFICES ASSUME IInv, [Next]_vars, ~ LateOpen,
                    NEW m \in Nodes, proc'[m].role = "opening"
             PROVE  proc'[m].term = Len(owner')
  BY DEF OpeningInv
<1> USE BoundsAssumption
<1>0. /\ TypeOK /\ TermInv
      /\ proc \in [Nodes -> Proc] /\ owner \in Seq(Nodes) /\ Len(owner) \in Nat
  BY DEF IInv, TypeOK
<1>a. \A n \in Nodes : proc[n].role = "opening" => proc[n].term = Len(owner)
  BY DEF IInv, OpeningInv
<1>1. CASE UNCHANGED <<proc, owner, fence>>
  BY <1>a, <1>1
<1>2. ASSUME NEW n \in Nodes, Takeover(n) \/ \E p \in Nodes : LetGo(n, p)
      PROVE  proc'[m].term = Len(owner')
  <2>1. PICK q \in Proc :
              /\ proc' = [proc EXCEPT ![n] = q]
              /\ \/ /\ Claim(n)
                    /\ q.role = "opening" /\ q.term = Len(owner) + 1
                    /\ owner' = Append(owner, n)
                 \/ /\ owner' = owner
                    /\ \/ q.role = "down"
                       \/ q.role = "follower"
                       \/ q.role = "opening" /\ q.term = Len(owner)
    BY <1>0, <1>2, NewRole
  <2>2. CASE m = n
    BY <1>0, <2>1, <2>2
  <2>3. CASE m # n
    <3>1. proc'[m] = proc[m] /\ proc[m].term = Len(owner)
      BY <1>0, <1>a, <2>1, <2>3
    <3>2. ~ Claim(n)
      <4>1. Latest > 0 /\ owner[Latest] = m
        BY <1>0, <3>1 DEF TermInv, Latest
      <4>2. Opening
        BY <3>1, <4>1 DEF Opening
      <4> QED
        BY <2>3, <4>1, <4>2 DEF Claim, TakenForGone
    <3> QED
      BY <2>1, <3>1, <3>2
  <2> QED
    BY <2>2, <2>3
<1>3. ASSUME NEW n \in Nodes, Rewrite(n) \/ Serve(n) PROVE proc'[m].term = Len(owner')
  <2>1. PICK r \in {"settling", "leading"} : proc' = [proc EXCEPT ![n] = [@ EXCEPT !.role = r]]
    BY <1>0, <1>3, NextRole
  <2>2. owner' = owner
    BY <1>0, <1>3, NextRole
  <2>3. proc'[n].role # "opening" /\ (m # n => proc'[m] = proc[m])
    BY <1>0, <2>1 DEF Proc
  <2> QED
    BY <1>a, <2>2, <2>3
<1>4. ASSUME NEW n \in Nodes, Open(n) PROVE proc'[m].term = Len(owner')
  <2>1. owner' = owner
    BY <1>0, <1>4, OpenRole
  <2>2. proc' = [proc EXCEPT ![n] = [@ EXCEPT !.role = "recovering", !.epoch = fence + 1]]
    BY <1>0, <1>4, OpenRole
  <2>3. proc'[n].role # "opening" /\ (m # n => proc'[m] = proc[m])
    BY <1>0, <2>2 DEF Proc
  <2> QED
    BY <1>a, <2>1, <2>3
<1> QED
  BY <1>1, <1>2, <1>3, <1>4, RoleSteps

\* Every step keeps OlderInv.
LEMMA OlderStep == IInv /\ [Next]_vars => OlderInv'
<1> SUFFICES ASSUME IInv, [Next]_vars, ~ LateOpen,
                    NEW m \in Nodes, NEW p \in Nodes,
                    proc'[m].epoch > 0, proc'[p].epoch > 0, proc'[m].term < proc'[p].term
             PROVE  proc'[m].epoch # fence'
  BY DEF OlderInv, OlderIsFenced, Unfenced
<1> USE BoundsAssumption
<1>0. /\ TypeOK /\ TermInv /\ EpochInv
      /\ proc \in [Nodes -> Proc] /\ owner \in Seq(Nodes) /\ Len(owner) \in Nat /\ fence \in Nat
  BY DEF IInv, TypeOK
<1>a. \A i, j \in Nodes : proc[i].epoch > 0 /\ proc[j].epoch > 0 /\ proc[i].term < proc[j].term
          => proc[i].epoch # fence
  BY DEF IInv, OlderInv, OlderIsFenced, Unfenced
<1>b. \A i \in Nodes : proc[i].epoch \in Nat /\ proc[i].term \in Nat
  BY <1>0 DEF Proc
<1>1. CASE UNCHANGED <<proc, owner, fence>>
  BY <1>a, <1>1
<1>2. ASSUME NEW n \in Nodes, Takeover(n) \/ \E j \in Nodes : LetGo(n, j)
      PROVE  proc'[m].epoch # fence'
  <2>1. fence' = fence /\ \E q \in Proc : proc' = [proc EXCEPT ![n] = q] /\ q.epoch = 0
    BY <1>0, <1>2, NewRole
  <2>2. proc'[n].epoch = 0 /\ \A i \in Nodes : i # n => proc'[i] = proc[i]
    BY <1>0, <2>1
  <2> QED
    BY <1>a, <2>1, <2>2
<1>3. ASSUME NEW n \in Nodes, Rewrite(n) \/ Serve(n) PROVE proc'[m].epoch # fence'
  <2>1. PICK r \in {"settling", "leading"} : proc' = [proc EXCEPT ![n] = [@ EXCEPT !.role = r]]
    BY <1>0, <1>3, NextRole
  <2>2. fence' = fence
    BY <1>0, <1>3, NextRole
  <2>3. \A i \in Nodes : proc'[i].epoch = proc[i].epoch /\ proc'[i].term = proc[i].term
    BY <1>0, <2>1 DEF Proc
  <2> QED
    BY <1>a, <2>2, <2>3
<1>4. ASSUME NEW n \in Nodes, Open(n) PROVE proc'[m].epoch # fence'
  <2>1. fence' = fence + 1 /\ proc[n].role = "opening"
    BY <1>0, <1>4, OpenRole
  <2>2. proc' = [proc EXCEPT ![n] = [@ EXCEPT !.role = "recovering", !.epoch = fence + 1]]
    BY <1>0, <1>4, OpenRole
  <2>3. proc'[n].term = proc[n].term /\ \A i \in Nodes : i # n => proc'[i] = proc[i]
    BY <1>0, <2>2 DEF Proc
  <2>4. CASE m = n
    <3>1. proc[n].term = Len(owner)
      BY <2>1 DEF IInv, OpeningInv
    <3>2. p # n
      BY <1>b, <2>3, <2>4
    <3>3. proc[p].role # "down"
      BY <1>0, <2>3, <3>2 DEF EpochInv, InCharge
    <3>4. proc[p].term <= Len(owner)
      BY <1>0, <3>3 DEF TermInv
    <3> QED
      BY <1>0, <1>b, <2>3, <2>4, <3>1, <3>2, <3>4
  <2>5. CASE m # n
    BY <1>0, <1>b, <2>1, <2>3, <2>5 DEF EpochInv
  <2> QED
    BY <2>4, <2>5
<1> QED
  BY <1>1, <1>2, <1>3, <1>4, RoleSteps

-----------------------------------------------------------------------------
(* How far log, stream, commits and bucket are, at every step              *)

\* The counters' invariant holds once it holds of the one record that changed.
LEMMA CountOne ==
  ASSUME TypeOK, CountInv, NEW n \in Nodes, NEW r, CountOK(r), lead' = [lead EXCEPT ![n] = r]
  PROVE  CountInv'
  BY DEF CountInv, TypeOK

\* ... and of a record none of whose counters changed.
LEMMA SameCount ==
  ASSUME NEW r, NEW s, CountOK(r),
         s.log = r.log, s.sent = r.sent, s.close = r.close, s.committed = r.committed,
         s.flushed = r.flushed, s.durable = r.durable
  PROVE  CountOK(s)
  BY DEF CountOK

\* Taking over and recovering keep the counters in order.
LEMMA CountRecover ==
  ASSUME TypeOK, EpochInv, CountInv, BucketInv, NEW n \in Nodes, Takeover(n) \/ Recover(n)
  PROVE  CountInv'
<1> USE BoundsAssumption, AheadAssumption
<1>0. /\ lead \in [Nodes -> Lead] /\ lead[n] \in Lead /\ CountOK(lead[n])
      /\ Len(bucket) \in 0 .. MaxId
  BY DEF TypeOK, CountInv, BucketInv
<1>1. ASSUME Takeover(n) \/ \E p \in Nodes : LetGo(n, p) PROVE CountInv'
  <2>1. lead' = [lead EXCEPT ![n] = NoLead]
    BY <1>1 DEF Takeover, Claim, Follow, TakeBack, Crash, LetGo, NewProcess
  <2>2. CountOK(NoLead)
    BY DEF CountOK, NoLead
  <2> QED
    BY <2>1, <2>2, CountOne
<1>2. CASE Open(n)
  <2> DEFINE m == Listed(bucket)
             at == Len(bucket)
             r == [NoLead EXCEPT !.log = bucket, !.opened = at, !.sent = at,
                                 !.committed = at, !.flushed = at, !.durable = at,
                                 !.todo = m \ {n},
                                 !.outside = (m # {} /\ n \notin m),
                                 !.found = Answer(n, at)]
  <2>1. lead' = [lead EXCEPT ![n] = r]
    BY <1>2 DEF Open
  <2>2. CountOK(r)
    BY <1>0 DEF CountOK, NoLead
  <2> HIDE DEF r
  <2> QED
    BY <2>1, <2>2, CountOne
<1>3. ASSUME NEW p \in Nodes, Collect(n, p) PROVE CountInv'
  <2> DEFINE r == [lead[n] EXCEPT !.todo = @ \ {p}, !.found = Merge(@, Answer(p, lead[n].opened))]
  <2>1. lead' = [lead EXCEPT ![n] = r]
    BY <1>0, <1>3 DEF Collect
  <2>2. /\ r.log = lead[n].log /\ r.sent = lead[n].sent /\ r.close = lead[n].close
        /\ r.committed = lead[n].committed /\ r.flushed = lead[n].flushed /\ r.durable = lead[n].durable
    BY <1>0 DEF Lead
  <2> HIDE DEF r
  <2> QED
    BY <1>0, <2>1, <2>2, SameCount, CountOne
<1>4. ASSUME NEW p \in Nodes, Skip(n, p) PROVE CountInv'
  <2> DEFINE r == [lead[n] EXCEPT !.todo = @ \ {p}, !.skipped = @ + 1]
  <2>1. lead' = [lead EXCEPT ![n] = r]
    BY <1>0, <1>4 DEF Skip
  <2>2. /\ r.log = lead[n].log /\ r.sent = lead[n].sent /\ r.close = lead[n].close
        /\ r.committed = lead[n].committed /\ r.flushed = lead[n].flushed /\ r.durable = lead[n].durable
    BY <1>0 DEF Lead
  <2> HIDE DEF r
  <2> QED
    BY <1>0, <2>1, <2>2, SameCount, CountOne
<1>5. CASE Rewrite(n)
  <2> DEFINE off == IF Replicas[n] = 1 /\ Listed(bucket) # {}
                    THEN <<[by |-> proc[n].epoch, m |-> {{}}]>> ELSE <<>>
             lg == lead[n].log \o Recovered(n) \o off
             r == [lead[n] EXCEPT !.log = lg, !.found = {}]
  <2>1. lead' = [lead EXCEPT ![n] = r] /\ Len(lg) <= MaxId
    BY <1>0, <1>5 DEF Rewrite
  <2>2. lead[n].log \in Seq(Change) /\ Recovered(n) \in Seq(Change) /\ off \in Seq(Change)
    <3>1. proc[n].epoch \in 1 .. MaxEpoch
      BY <1>5, SMTT(60) DEF Rewrite, EpochInv, InCharge, TypeOK, Proc
    <3>2. [by |-> proc[n].epoch, m |-> {{}}] \in Change
      BY <3>1 DEF Change
    <3> QED
      BY <1>0, <3>2, LeadFields, RecoveredType
  <2> HIDE DEF off
  <2>3. Len(lead[n].log) <= Len(lg)
    BY <2>2
  <2>4. CountOK(r)
    <3>1. /\ r.log = lg /\ r.sent = lead[n].sent /\ r.close = lead[n].close
          /\ r.committed = lead[n].committed /\ r.flushed = lead[n].flushed /\ r.durable = lead[n].durable
      BY <1>0 DEF Lead
    <3>2. Len(lg) \in Nat /\ Len(lead[n].log) \in Nat
      BY <2>2
    <3> HIDE DEF lg, r
    <3> QED
      BY <1>0, <2>1, <2>3, <3>1, <3>2, LeadFields, SMTT(60) DEF CountOK
  <2> HIDE DEF r
  <2> QED
    BY <2>1, <2>4, CountOne
<1>6. CASE Serve(n)
  BY <1>6 DEF Serve, CountInv, CountOK
<1> QED
  BY <1>1, <1>2, <1>3, <1>4, <1>5, <1>6 DEF Recover, Ask

\* The commit loop does.
LEMMA CountCommit ==
  ASSUME TypeOK, CountInv, NEW n \in Nodes, CommitStep(n)
  PROVE  CountInv'
<1> USE BoundsAssumption, AheadAssumption
<1>0. /\ lead \in [Nodes -> Lead] /\ lead[n] \in Lead /\ CountOK(lead[n])
  BY DEF TypeOK, CountInv
<1>a. /\ lead[n].log \in Seq(Change) /\ Len(lead[n].log) \in Nat
      /\ lead[n].sent \in Nat /\ lead[n].committed \in Nat
      /\ lead[n].flushed \in Nat /\ lead[n].durable \in Nat
  BY <1>0, LeadFields
<1>1. CASE Write(n)
  <2> DEFINE w == [by |-> proc[n].epoch, m |-> NoList]
             lg == Append(lead[n].log, w)
             r == [lead[n] EXCEPT !.log = lg]
  <2>1. lead' = [lead EXCEPT ![n] = r] /\ Len(lead[n].log) < MaxId
    BY <1>0, <1>1 DEF Write
  <2>2. Len(lg) = Len(lead[n].log) + 1
    <3> HIDE DEF w
    <3> QED
      BY <1>a
  <2>3. /\ r.log = lg /\ r.sent = lead[n].sent /\ r.close = lead[n].close
        /\ r.committed = lead[n].committed /\ r.flushed = lead[n].flushed /\ r.durable = lead[n].durable
    BY <1>0 DEF Lead
  <2> HIDE DEF lg, r
  <2>4. CountOK(r)
    BY <1>0, <1>a, <2>1, <2>2, <2>3 DEF CountOK
  <2> QED
    BY <2>1, <2>4, CountOne
<1>2. CASE Flush(n)
  <2> DEFINE r == [lead[n] EXCEPT !.flushed = @ + 1]
  <2>1. lead' = [lead EXCEPT ![n] = r] /\ lead[n].flushed < Len(lead[n].log)
    BY <1>0, <1>2 DEF Flush
  <2>2. /\ r.log = lead[n].log /\ r.sent = lead[n].sent /\ r.close = lead[n].close
        /\ r.committed = lead[n].committed /\ r.flushed = lead[n].flushed + 1 /\ r.durable = lead[n].durable
    BY <1>0 DEF Lead
  <2> HIDE DEF r
  <2>3. CountOK(r)
    BY <1>0, <1>a, <2>1, <2>2, SMTT(60) DEF CountOK
  <2> QED
    BY <2>1, <2>3, CountOne
<1>3. CASE Stream(n)
  <2> DEFINE r == [lead[n] EXCEPT !.sent = @ + 1, !.close = IsClose(n)]
  <2>1. /\ lead' = [lead EXCEPT ![n] = r]
        /\ lead[n].sent = lead[n].committed /\ lead[n].sent < Len(lead[n].log)
    BY <1>0, <1>3 DEF Stream
  <2>2. /\ r.log = lead[n].log /\ r.sent = lead[n].sent + 1
        /\ r.close => lead[n].durable + Ahead >= lead[n].sent + 1
        /\ r.committed = lead[n].committed /\ r.flushed = lead[n].flushed /\ r.durable = lead[n].durable
    BY <1>0 DEF Lead, IsClose
  <2> HIDE DEF r
  <2>3. CountOK(r)
    BY <1>0, <1>a, <2>1, <2>2 DEF CountOK
  <2> QED
    BY <2>1, <2>3, CountOne
<1>4. CASE Commit(n)
  <2> DEFINE r == [lead[n] EXCEPT !.committed = @ + 1]
  <2>1. /\ lead' = [lead EXCEPT ![n] = r]
        /\ lead[n].sent = lead[n].committed + 1
        /\ lead[n].close \/ lead[n].flushed >= lead[n].sent
    BY <1>0, <1>4 DEF Commit, Decides, EnoughHold
  <2>2. /\ r.log = lead[n].log /\ r.sent = lead[n].sent /\ r.close = lead[n].close
        /\ r.committed = lead[n].committed + 1 /\ r.flushed = lead[n].flushed /\ r.durable = lead[n].durable
    BY <1>0 DEF Lead
  <2> HIDE DEF r
  <2>3. CountOK(r)
    BY <1>0, <1>a, <2>1, <2>2 DEF CountOK
  <2> QED
    BY <2>1, <2>3, CountOne
<1>5. CASE NoteDurable(n)
  <2> DEFINE r == [lead[n] EXCEPT !.durable = @ + 1]
  <2>1. /\ lead' = [lead EXCEPT ![n] = r]
        /\ lead[n].durable < lead[n].committed /\ lead[n].durable < lead[n].flushed
    BY <1>0, <1>5 DEF NoteDurable
  <2>2. /\ r.log = lead[n].log /\ r.sent = lead[n].sent /\ r.close = lead[n].close
        /\ r.committed = lead[n].committed /\ r.flushed = lead[n].flushed /\ r.durable = lead[n].durable + 1
    BY <1>0 DEF Lead
  <2> HIDE DEF r
  <2>3. CountOK(r)
    BY <1>0, <1>a, <2>1, <2>2, SMTT(60) DEF CountOK
  <2> QED
    BY <2>1, <2>3, CountOne
<1> QED
  BY <1>1, <1>2, <1>3, <1>4, <1>5 DEF CommitStep

\* The members loop does.
LEMMA CountMembers ==
  ASSUME TypeOK, CountInv, NEW n \in Nodes, Members(n)
  PROVE  CountInv'
<1> USE BoundsAssumption, AheadAssumption
<1>0. /\ lead \in [Nodes -> Lead] /\ lead[n] \in Lead /\ CountOK(lead[n])
  BY DEF TypeOK, CountInv
<1>a. /\ lead[n].log \in Seq(Change) /\ Len(lead[n].log) \in Nat
      /\ lead[n].sent \in Nat /\ lead[n].committed \in Nat
      /\ lead[n].flushed \in Nat /\ lead[n].durable \in Nat
  BY <1>0, LeadFields
<1>1. CASE List(n)
  <2> DEFINE w == [by |-> proc[n].epoch, m |-> {lead[n].job.live}]
             lg == Append(lead[n].log, w)
             jb == [lead[n].job EXCEPT !.at = "list", !.upto = Len(lead[n].log) + 1]
             r == [lead[n] EXCEPT !.log = lg, !.job = jb]
  <2>1. lead' = [lead EXCEPT ![n] = r] /\ Len(lead[n].log) < MaxId
    BY <1>0, <1>1, ZenonT(60) DEF List
  <2>2. Len(lg) = Len(lead[n].log) + 1
    <3> HIDE DEF w
    <3> QED
      BY <1>a
  <2> HIDE DEF lg, jb
  <2>3. /\ r.log = lg /\ r.sent = lead[n].sent /\ r.close = lead[n].close
        /\ r.committed = lead[n].committed /\ r.flushed = lead[n].flushed /\ r.durable = lead[n].durable
    BY <1>0 DEF Lead
  <2> HIDE DEF r
  <2>4. CountOK(r)
    BY <1>0, <1>a, <2>1, <2>2, <2>3 DEF CountOK
  <2> QED
    BY <2>1, <2>4, CountOne
<1>2. CASE Count(n)
  <2> DEFINE r == [lead[n] EXCEPT !.counting = lead[n].job.live, !.job = Idle]
  <2>1. lead' = [lead EXCEPT ![n] = r]
    BY <1>0, <1>2 DEF Count
  <2>2. /\ r.log = lead[n].log /\ r.sent = lead[n].sent /\ r.close = lead[n].close
        /\ r.committed = lead[n].committed /\ r.flushed = lead[n].flushed /\ r.durable = lead[n].durable
    BY <1>0 DEF Lead
  <2> HIDE DEF r
  <2> QED
    BY <1>0, <2>1, <2>2, SameCount, CountOne
<1>3. ASSUME NEW live \in SUBSET Beating(n), Shrink(n, live) PROVE CountInv'
  <2> DEFINE c == Listed(SubSeq(lead[n].log, 1, lead[n].committed)) \cap live
             jb == [at |-> "drain", live |-> live, upto |-> lead[n].committed]
             r == [lead[n] EXCEPT !.counting = c, !.job = jb]
  <2>1. lead' = [lead EXCEPT ![n] = r]
    BY <1>0, <1>3 DEF Shrink
  <2> HIDE DEF c, jb
  <2>2. /\ r.log = lead[n].log /\ r.sent = lead[n].sent /\ r.close = lead[n].close
        /\ r.committed = lead[n].committed /\ r.flushed = lead[n].flushed /\ r.durable = lead[n].durable
    BY <1>0 DEF Lead
  <2> HIDE DEF r
  <2> QED
    BY <1>0, <2>1, <2>2, SameCount, CountOne
<1> QED
  BY <1>1, <1>2, <1>3 DEF Members

\* An acknowledgement doesn't touch them.
LEMMA CountAck ==
  ASSUME TypeOK, CountInv, NEW a \in wire, ReceiveAck(a)
  PROVE  CountInv'
<1>0. a.to \in Nodes /\ lead \in [Nodes -> Lead] /\ lead[a.to] \in Lead /\ CountOK(lead[a.to])
  BY DEF TypeOK, CountInv, Ack
<1> DEFINE x == [lead[a.to].acks EXCEPT ![a.from] = <<a.first, a.upto>>]
           r == [lead[a.to] EXCEPT !.acks = x]
<1>1. lead' = [lead EXCEPT ![a.to] = r] \/ lead' = lead
  BY <1>0 DEF ReceiveAck
<1> HIDE DEF x
<1>2. /\ r.log = lead[a.to].log /\ r.sent = lead[a.to].sent /\ r.close = lead[a.to].close
      /\ r.committed = lead[a.to].committed /\ r.flushed = lead[a.to].flushed
      /\ r.durable = lead[a.to].durable
  BY <1>0 DEF Lead
<1> HIDE DEF r
<1>3. CASE lead' = [lead EXCEPT ![a.to] = r]
  BY <1>0, <1>2, <1>3, SameCount, CountOne
<1>4. CASE lead' = lead
  BY <1>4 DEF CountInv, CountOK
<1> QED
  BY <1>1, <1>3, <1>4

\* Every step keeps CountInv.
LEMMA CountStep == IInv /\ [Next]_vars => CountInv'
<1> SUFFICES ASSUME IInv, [Next]_vars PROVE CountInv'
  OBVIOUS
<1>1. CASE lead' = lead
  BY <1>1 DEF IInv, CountInv, CountOK
<1>2. ASSUME NEW f \in Nodes, Mirror(f) PROVE lead' = lead
  BY <1>2 DEF Mirror, Connect, Disconnect, Hold, Prune
<1>3. CASE UNCHANGED vars
  BY <1>1, <1>3 DEF vars
<1> QED
  BY <1>1, <1>2, <1>3, CountRecover, CountCommit, CountMembers, CountAck DEF IInv, Next

-----------------------------------------------------------------------------
(* The bucket and the followers, at every step                             *)

\* A step that leaves the bucket and the fence alone, and of every leader that
\* stays one keeps the log's beginning and `flushed`, keeps BucketInv.
LEMMA BucketSame ==
  ASSUME TypeOK, CountInv, BucketInv, bucket' = bucket, fence' = fence,
         \A n \in Nodes : proc'[n].epoch > 0 =>
            /\ proc'[n].epoch = proc[n].epoch
            /\ lead'[n].flushed = lead[n].flushed
            /\ \A i \in 1 .. lead[n].flushed : lead'[n].log[i] = lead[n].log[i]
  PROVE  BucketInv'
<1> SUFFICES ASSUME NEW n \in Nodes, proc'[n].epoch > 0, proc'[n].epoch = fence
             PROVE  /\ Len(bucket) = lead'[n].flushed
                    /\ \A i \in 1 .. Len(bucket) : bucket[i] = lead'[n].log[i]
  BY DEF BucketInv, Unfenced
<1>1. proc[n].epoch > 0 /\ proc[n].epoch = fence
  OBVIOUS
<1>2. /\ Len(bucket) = lead[n].flushed
      /\ \A i \in 1 .. Len(bucket) : bucket[i] = lead[n].log[i]
  BY <1>1 DEF BucketInv, Unfenced
<1> QED
  BY <1>2

\* The steps that neither write, nor put into the bucket, nor begin or end a
\* leader leave every log, and what the bucket has of it, as they are.
LEMMA Quiet ==
  ASSUME TypeOK, NEW n \in Nodes,
         \/ \E p \in Nodes : Collect(n, p) \/ Skip(n, p)
         \/ Stream(n) \/ Commit(n) \/ NoteDurable(n) \/ Count(n)
         \/ \E live \in SUBSET Beating(n) : Shrink(n, live)
         \/ \E a \in wire : a.to = n /\ ReceiveAck(a)
  PROVE  \A m \in Nodes : lead'[m].flushed = lead[m].flushed /\ lead'[m].log = lead[m].log
<1>0. lead \in [Nodes -> Lead] /\ lead[n] \in Lead
  BY DEF TypeOK
<1> DEFINE Same == \A m \in Nodes : lead'[m].flushed = lead[m].flushed /\ lead'[m].log = lead[m].log
<1>1. ASSUME NEW p \in Nodes, Collect(n, p) PROVE Same
  <2> DEFINE r == [lead[n] EXCEPT !.todo = @ \ {p}, !.found = Merge(@, Answer(p, lead[n].opened))]
  <2>1. lead' = [lead EXCEPT ![n] = r]
    BY <1>0, <1>1 DEF Collect
  <2>2. r.flushed = lead[n].flushed /\ r.log = lead[n].log
    BY <1>0 DEF Lead
  <2> HIDE DEF r
  <2> QED
    BY <1>0, <2>1, <2>2
<1>2. ASSUME NEW p \in Nodes, Skip(n, p) PROVE Same
  <2> DEFINE r == [lead[n] EXCEPT !.todo = @ \ {p}, !.skipped = @ + 1]
  <2>1. lead' = [lead EXCEPT ![n] = r]
    BY <1>0, <1>2 DEF Skip
  <2>2. r.flushed = lead[n].flushed /\ r.log = lead[n].log
    BY <1>0 DEF Lead
  <2> HIDE DEF r
  <2> QED
    BY <1>0, <2>1, <2>2
<1>3. CASE Stream(n)
  <2> DEFINE r == [lead[n] EXCEPT !.sent = @ + 1, !.close = IsClose(n)]
  <2>1. lead' = [lead EXCEPT ![n] = r]
    BY <1>0, <1>3 DEF Stream
  <2>2. r.flushed = lead[n].flushed /\ r.log = lead[n].log
    BY <1>0 DEF Lead
  <2> HIDE DEF r
  <2> QED
    BY <1>0, <2>1, <2>2
<1>4. CASE Commit(n)
  <2> DEFINE r == [lead[n] EXCEPT !.committed = @ + 1]
  <2>1. lead' = [lead EXCEPT ![n] = r]
    BY <1>0, <1>4 DEF Commit
  <2>2. r.flushed = lead[n].flushed /\ r.log = lead[n].log
    BY <1>0 DEF Lead
  <2> HIDE DEF r
  <2> QED
    BY <1>0, <2>1, <2>2
<1>5. CASE NoteDurable(n)
  <2> DEFINE r == [lead[n] EXCEPT !.durable = @ + 1]
  <2>1. lead' = [lead EXCEPT ![n] = r]
    BY <1>0, <1>5 DEF NoteDurable
  <2>2. r.flushed = lead[n].flushed /\ r.log = lead[n].log
    BY <1>0 DEF Lead
  <2> HIDE DEF r
  <2> QED
    BY <1>0, <2>1, <2>2
<1>6. CASE Count(n)
  <2> DEFINE r == [lead[n] EXCEPT !.counting = lead[n].job.live, !.job = Idle]
  <2>1. lead' = [lead EXCEPT ![n] = r]
    BY <1>0, <1>6 DEF Count
  <2>2. r.flushed = lead[n].flushed /\ r.log = lead[n].log
    BY <1>0 DEF Lead
  <2> HIDE DEF r
  <2> QED
    BY <1>0, <2>1, <2>2
<1>7. ASSUME NEW live \in SUBSET Beating(n), Shrink(n, live) PROVE Same
  <2> DEFINE c == Listed(SubSeq(lead[n].log, 1, lead[n].committed)) \cap live
             jb == [at |-> "drain", live |-> live, upto |-> lead[n].committed]
             r == [lead[n] EXCEPT !.counting = c, !.job = jb]
  <2>1. lead' = [lead EXCEPT ![n] = r]
    BY <1>0, <1>7 DEF Shrink
  <2> HIDE DEF c, jb
  <2>2. r.flushed = lead[n].flushed /\ r.log = lead[n].log
    BY <1>0 DEF Lead
  <2> HIDE DEF r
  <2> QED
    BY <1>0, <2>1, <2>2
<1>8. ASSUME NEW a \in wire, a.to = n, ReceiveAck(a) PROVE Same
  <2> DEFINE x == [lead[n].acks EXCEPT ![a.from] = <<a.first, a.upto>>]
             r == [lead[n] EXCEPT !.acks = x]
  <2>1. lead' = [lead EXCEPT ![n] = r] \/ lead' = lead
    BY <1>0, <1>8 DEF ReceiveAck
  <2> HIDE DEF x
  <2>2. r.flushed = lead[n].flushed /\ r.log = lead[n].log
    BY <1>0 DEF Lead
  <2> HIDE DEF r
  <2> QED
    BY <1>0, <2>1, <2>2
<1> QED
  BY <1>1, <1>2, <1>3, <1>4, <1>5, <1>6, <1>7, <1>8

\* Taking over and recovering keep BucketInv.
LEMMA BucketRecover ==
  ASSUME TypeOK, EpochInv, CountInv, BucketInv, NEW n \in Nodes, Takeover(n) \/ Recover(n)
  PROVE  BucketInv'
<1> USE BoundsAssumption
<1>0. /\ lead \in [Nodes -> Lead] /\ lead[n] \in Lead /\ CountOK(lead[n])
      /\ proc \in [Nodes -> Proc] /\ fence \in Nat
      /\ bucket \in Seq(Change) /\ Len(bucket) \in 0 .. MaxId
  BY DEF TypeOK, CountInv, BucketInv
<1>1. ASSUME Takeover(n) \/ \E p \in Nodes : LetGo(n, p) PROVE BucketInv'
  <2>1. lead' = [lead EXCEPT ![n] = NoLead]
    BY <1>1 DEF Takeover, Claim, Follow, TakeBack, Crash, LetGo, NewProcess
  <2>2. /\ fence' = fence /\ bucket' = bucket
        /\ \E q \in Proc : proc' = [proc EXCEPT ![n] = q] /\ q.epoch = 0
    BY <1>1, NewRole
  <2>3. /\ proc'[n].epoch = 0
        /\ \A m \in Nodes : m # n => proc'[m] = proc[m] /\ lead'[m] = lead[m]
    BY <1>0, <2>1, <2>2
  <2>4. \A m \in Nodes : proc'[m].epoch > 0 => proc'[m] = proc[m] /\ lead'[m] = lead[m]
    BY <2>3
  <2> QED
    BY <2>2, <2>4, BucketSame
<1>2. CASE Open(n)
  <2>1. fence' = fence + 1 /\ bucket' = bucket
    BY <1>2, OpenRole
  <2>2. \A m \in Nodes : proc'[m].epoch = fence' => m = n
    <3>1. proc' = [proc EXCEPT ![n] = [@ EXCEPT !.role = "recovering", !.epoch = fence + 1]]
      BY <1>2, OpenRole
    <3>2. \A m \in Nodes : m # n => proc'[m] = proc[m]
      BY <3>1, <1>0
    <3>3. \A m \in Nodes : proc[m].epoch # fence + 1
      BY <1>0 DEF EpochInv
    <3> QED
      BY <2>1, <3>2, <3>3
  <2>3. lead'[n].flushed = Len(bucket) /\ lead'[n].log = bucket
    BY <1>0, <1>2 DEF Open, NoLead
  <2> QED
    BY <1>0, <2>1, <2>2, <2>3 DEF BucketInv, Unfenced
<1>3. ASSUME NEW p \in Nodes, Collect(n, p) \/ Skip(n, p) PROVE BucketInv'
  <2>1. /\ bucket' = bucket /\ fence' = fence /\ proc' = proc
        /\ \A m \in Nodes : lead'[m].flushed = lead[m].flushed /\ lead'[m].log = lead[m].log
    BY <1>3, Quiet DEF Collect, Skip
  <2> QED
    BY <2>1, BucketSame
<1>4. CASE Rewrite(n)
  <2> DEFINE off == IF Replicas[n] = 1 /\ Listed(bucket) # {}
                    THEN <<[by |-> proc[n].epoch, m |-> {{}}]>> ELSE <<>>
             lg == lead[n].log \o Recovered(n) \o off
             r == [lead[n] EXCEPT !.log = lg, !.found = {}]
  <2>1. lead' = [lead EXCEPT ![n] = r] /\ bucket' = bucket /\ fence' = fence
    BY <1>0, <1>4 DEF Rewrite
  <2>2. lead[n].log \in Seq(Change) /\ Recovered(n) \in Seq(Change) /\ off \in Seq(Change)
    <3>1. proc[n].epoch \in 1 .. MaxEpoch
      BY <1>4 DEF Rewrite, EpochInv, InCharge, TypeOK, Proc
    <3>2. [by |-> proc[n].epoch, m |-> {{}}] \in Change
      BY <3>1 DEF Change
    <3> QED
      BY <1>0, <3>2, LeadFields, RecoveredType
  <2> HIDE DEF off
  <2>3. \A i \in 1 .. lead[n].flushed : lg[i] = lead[n].log[i]
    <3>1. lead[n].flushed \in Nat /\ lead[n].flushed <= Len(lead[n].log)
      BY <1>0, LeadFields DEF CountOK
    <3> QED
      BY <2>2, <3>1
  <2>4. r.flushed = lead[n].flushed /\ r.log = lg
    BY <1>0 DEF Lead
  <2>5. \A m \in Nodes : proc'[m].epoch = proc[m].epoch
    BY <1>0, <1>4 DEF Rewrite, Proc
  <2> HIDE DEF lg, r
  <2>6. lead'[n] = r /\ \A m \in Nodes : m # n => lead'[m] = lead[m]
    BY <1>0, <2>1
  <2> QED
    BY <2>1, <2>3, <2>4, <2>5, <2>6, BucketSame
<1>5. CASE Serve(n)
  <2>1. /\ bucket' = bucket /\ fence' = fence /\ lead' = lead
        /\ \A m \in Nodes : proc'[m].epoch = proc[m].epoch
    BY <1>0, <1>5 DEF Serve, Proc
  <2> QED
    BY <2>1, BucketSame
<1> QED
  BY <1>1, <1>2, <1>3, <1>4, <1>5 DEF Recover, Ask

\* The commit loop keeps it: the bucket only takes the next change of the
\* leader it doesn't refuse.
LEMMA BucketCommit ==
  ASSUME TypeOK, EpochInv, CountInv, BucketInv, NEW n \in Nodes, CommitStep(n)
  PROVE  BucketInv'
<1> USE BoundsAssumption
<1>0. /\ lead \in [Nodes -> Lead] /\ lead[n] \in Lead /\ CountOK(lead[n])
      /\ bucket \in Seq(Change) /\ Len(bucket) \in Nat
  BY DEF TypeOK, CountInv
<1>a. /\ lead[n].log \in Seq(Change) /\ Len(lead[n].log) \in Nat /\ lead[n].flushed \in Nat
      /\ lead[n].flushed <= Len(lead[n].log) /\ Len(lead[n].log) <= MaxId
  BY <1>0, LeadFields DEF CountOK
<1>1. CASE Write(n)
  <2> DEFINE w == [by |-> proc[n].epoch, m |-> NoList]
             lg == Append(lead[n].log, w)
  <2>1. /\ bucket' = bucket /\ fence' = fence /\ proc' = proc
        /\ \A m \in Nodes : m # n => lead'[m] = lead[m]
        /\ lead'[n].flushed = lead[n].flushed /\ lead'[n].log = lg
    BY <1>0, <1>1 DEF Write, Lead
  <2>2. \A i \in 1 .. lead[n].flushed : lg[i] = lead[n].log[i]
    <3> HIDE DEF w
    <3> QED
      BY <1>a
  <2> HIDE DEF lg
  <2> QED
    BY <2>1, <2>2, BucketSame
<1>2. CASE Stream(n) \/ Commit(n) \/ NoteDurable(n)
  <2>1. /\ bucket' = bucket /\ fence' = fence /\ proc' = proc
        /\ \A m \in Nodes : lead'[m].flushed = lead[m].flushed /\ lead'[m].log = lead[m].log
    BY <1>2, Quiet DEF Stream, Commit, NoteDurable
  <2> QED
    BY <2>1, BucketSame
<1>3. CASE Flush(n)
  <2>1. /\ bucket' = Append(bucket, lead[n].log[lead[n].flushed + 1])
        /\ fence' = fence /\ proc' = proc /\ proc[n].epoch = fence
        /\ lead[n].flushed < Len(lead[n].log)
        /\ proc[n].epoch > 0
    BY <1>3 DEF Flush, Unfenced, Commits, EpochInv, InCharge
  <2>2. lead'[n].flushed = lead[n].flushed + 1 /\ lead'[n].log = lead[n].log
    BY <1>0, <1>3 DEF Flush, Lead
  <2>3. /\ Len(bucket) = lead[n].flushed
        /\ \A i \in 1 .. Len(bucket) : bucket[i] = lead[n].log[i]
    BY <2>1 DEF BucketInv, Unfenced
  <2>4. lead[n].log[lead[n].flushed + 1] \in Change
    BY <1>a, <2>1
  <2>5. /\ Len(bucket') = lead[n].flushed + 1
        /\ \A i \in 1 .. Len(bucket') : bucket'[i] = lead[n].log[i]
    BY <1>0, <1>a, <2>1, <2>3, <2>4
  <2>6. Len(bucket') <= MaxId
    BY <1>a, <2>1, <2>5
  <2>7. \A m \in Nodes : proc'[m].epoch > 0 /\ proc'[m].epoch = fence' => m = n
    BY <2>1 DEF EpochInv
  <2> QED
    BY <2>2, <2>5, <2>6, <2>7 DEF BucketInv, Unfenced
<1> QED
  BY <1>1, <1>2, <1>3 DEF CommitStep

\* The members loop does.
LEMMA BucketMembers ==
  ASSUME TypeOK, CountInv, BucketInv, NEW n \in Nodes, Members(n)
  PROVE  BucketInv'
<1> USE BoundsAssumption
<1>0. lead \in [Nodes -> Lead] /\ lead[n] \in Lead /\ CountOK(lead[n])
  BY DEF TypeOK, CountInv
<1>a. /\ lead[n].log \in Seq(Change) /\ lead[n].flushed \in Nat
      /\ lead[n].flushed <= Len(lead[n].log)
  BY <1>0, LeadFields DEF CountOK
<1>1. CASE List(n)
  <2> DEFINE w == [by |-> proc[n].epoch, m |-> {lead[n].job.live}]
             lg == Append(lead[n].log, w)
  <2>1. /\ bucket' = bucket /\ fence' = fence /\ proc' = proc
        /\ \A m \in Nodes : m # n => lead'[m] = lead[m]
        /\ lead'[n].flushed = lead[n].flushed /\ lead'[n].log = lg
    BY <1>0, <1>1 DEF List, Lead
  <2>2. \A i \in 1 .. lead[n].flushed : lg[i] = lead[n].log[i]
    <3> HIDE DEF w
    <3> QED
      BY <1>a
  <2> HIDE DEF lg
  <2> QED
    BY <2>1, <2>2, BucketSame
<1>2. ASSUME Count(n) \/ \E live \in SUBSET Beating(n) : Shrink(n, live) PROVE BucketInv'
  <2>1. /\ bucket' = bucket /\ fence' = fence /\ proc' = proc
        /\ \A m \in Nodes : lead'[m].flushed = lead[m].flushed /\ lead'[m].log = lead[m].log
    BY <1>2, Quiet DEF Count, Shrink
  <2> QED
    BY <2>1, BucketSame
<1> QED
  BY <1>1, <1>2 DEF Members

\* Every step keeps BucketInv.
LEMMA BucketStep == IInv /\ [Next]_vars => BucketInv'
<1> SUFFICES ASSUME IInv, [Next]_vars PROVE BucketInv'
  OBVIOUS
<1>0. TypeOK /\ EpochInv /\ CountInv /\ BucketInv
  BY DEF IInv
<1>1. CASE UNCHANGED <<bucket, fence, proc, lead>>
  BY <1>0, <1>1 DEF BucketInv, Unfenced
<1>2. ASSUME NEW f \in Nodes, Mirror(f) PROVE UNCHANGED <<bucket, fence, proc, lead>>
  BY <1>2 DEF Mirror, Connect, Disconnect, Hold, Prune
<1>3. ASSUME NEW a \in wire, ReceiveAck(a) PROVE BucketInv'
  <2>1. a.to \in Nodes
    BY <1>0 DEF TypeOK, Ack
  <2>2. /\ bucket' = bucket /\ fence' = fence /\ proc' = proc
        /\ \A m \in Nodes : lead'[m].flushed = lead[m].flushed /\ lead'[m].log = lead[m].log
    BY <1>0, <1>3, <2>1, Quiet DEF ReceiveAck
  <2> QED
    BY <1>0, <2>2, BucketSame
<1>4. CASE UNCHANGED vars
  BY <1>1, <1>4 DEF vars
<1> QED
  BY <1>0, <1>1, <1>2, <1>3, <1>4, BucketRecover, BucketCommit, BucketMembers DEF Next

\* Every step keeps FolInv.
LEMMA FolStep == IInv /\ [Next]_vars => FolInv'
<1> SUFFICES ASSUME IInv, [Next]_vars PROVE FolInv'
  OBVIOUS
<1> USE BoundsAssumption
<1>0. TypeOK /\ TermInv /\ EpochInv /\ CountInv /\ FolInv /\ fol \in [Nodes -> Fol]
  BY DEF IInv, TypeOK
<1>1. CASE fol' = fol
  BY <1>0, <1>1 DEF FolInv
<1>2. ASSUME NEW n \in Nodes, Takeover(n) \/ \E p \in Nodes : LetGo(n, p) PROVE FolInv'
  <2>1. fol' = [fol EXCEPT ![n] = NewFol(held[n])]
    BY <1>2 DEF Takeover, Claim, Follow, TakeBack, Crash, LetGo, NewProcess
  <2>2. NewFol(held[n]).run[2] = 0 /\ NewFol(held[n]).conn = 0
    BY DEF NewFol, None
  <2> QED
    BY <1>0, <2>1, <2>2 DEF FolInv
<1>3. ASSUME NEW n \in Nodes, Open(n) \/ Ask(n) PROVE FolInv'
  <2>1. \/ fol' = fol
        \/ \E p \in Nodes : fol' = [fol EXCEPT ![p].seen = Hears(p, proc[n].term)]
    BY <1>3 DEF Open, Ask, Collect, Skip
  <2>2. \A m \in Nodes : fol'[m].run = fol[m].run /\ fol'[m].conn = fol[m].conn /\ fol'[m].sterm = fol[m].sterm
    BY <1>0, <2>1 DEF Fol
  <2> QED
    BY <1>0, <2>2 DEF FolInv
<1>4. ASSUME NEW f \in Nodes, Mirror(f) PROVE FolInv'
  <2> DEFINE l == LeaderOf(f)
  <2>0. /\ proc[f].role = "follower" /\ l \in Nodes /\ fol[f] \in Fol
        /\ Streamed(l) \in 0 .. MaxId
    <3>1. proc[f].role = "follower"
      BY <1>4 DEF Mirror, Connect, Disconnect, Hold, Prune, Connected
    <3> QED
      BY <1>0, <3>1, StreamedType
  <2> HIDE DEF l
  <2>1. CASE Disconnect(f)
    <3>1. \A m \in Nodes : /\ fol'[m].run = fol[m].run /\ fol'[m].sterm = fol[m].sterm
                           /\ fol'[m].conn > 0 => fol[m].conn > 0
      BY <1>0, <2>1 DEF Disconnect, Fol
    <3> QED
      BY <1>0, <3>1 DEF FolInv
  <2>2. CASE Connect(f)
    <3>1. /\ \A m \in Nodes : fol'[m].run = fol[m].run
          /\ \A m \in Nodes : m # f => fol'[m] = fol[m]
          /\ fol'[f].sterm = proc[l].term
      BY <1>0, <2>2 DEF Connect, Fol, l
    <3>2. proc[l].term > 0
      BY <1>0, <2>0, <2>2, SMTT(60) DEF Connect, Leads, TermInv, l
    <3> QED
      BY <1>0, <3>1, <3>2 DEF FolInv
  <2>3. CASE Hold(f)
    <3> DEFINE i == fol[f].last + 1
               r == fol[f].run
               run == IF r[2] > 0 /\ i = r[2] + 1 THEN <<r[1], i>> ELSE <<i, i>>
    <3>1. i <= Streamed(l) /\ i \in Ids
      <4>1. i <= Streamed(l)
        BY <2>3 DEF Hold, l
      <4>2. fol[f].last \in Nat
        BY <2>0 DEF Fol
      <4> QED
        BY <2>0, <4>1, <4>2 DEF Ids
    <3>2. \/ fol' = [fol EXCEPT ![f].last = i, ![f].run = run]
          \/ fol' = [fol EXCEPT ![f].last = i, ![f].run = r]
      BY <2>3 DEF Hold
    <3>3. /\ \A m \in Nodes : fol'[m].sterm = fol[m].sterm /\ fol'[m].conn = fol[m].conn
          /\ \A m \in Nodes : m # f => fol'[m] = fol[m]
          /\ fol'[f].run = run \/ fol'[f].run = r
      <4> HIDE DEF i, r, run
      <4>1. CASE fol' = [fol EXCEPT ![f].last = i, ![f].run = run]
        BY <1>0, <4>1 DEF Fol
      <4>2. CASE fol' = [fol EXCEPT ![f].last = i, ![f].run = r]
        BY <1>0, <4>2 DEF Fol
      <4> QED
        BY <3>2, <4>1, <4>2
    <3>4. /\ r[2] > 0 => r[1] \in Ids /\ r[2] \in Ids
          /\ run[2] > 0 => run[1] \in Ids /\ run[2] \in Ids
      <4>1. r[2] > 0 => r[1] \in Ids /\ r[2] \in Ids
        BY <1>0 DEF FolInv
      <4> HIDE DEF r, i
      <4> QED
        BY <3>1, <4>1
    <3> HIDE DEF run, r, i
    <3>5. r = fol[f].run
      BY DEF r
    <3> QED
      BY <1>0, <3>3, <3>4, <3>5 DEF FolInv
  <2>4. CASE Prune(f)
    BY <1>1, <2>4 DEF Prune
  <2> QED
    BY <1>4, <2>1, <2>2, <2>3, <2>4 DEF Mirror
<1>5. ASSUME NEW n \in Nodes, Rewrite(n) \/ Serve(n) \/ CommitStep(n) \/ Members(n) PROVE fol' = fol
  BY <1>5 DEF Rewrite, Serve, CommitStep, Write, Flush, Stream, Commit, NoteDurable,
              Members, List, Count, Shrink
<1>6. ASSUME NEW a \in wire, ReceiveAck(a) PROVE fol' = fol
  BY <1>6 DEF ReceiveAck
<1>7. CASE UNCHANGED vars
  BY <1>1, <1>7 DEF vars
<1> QED
  BY <1>1, <1>2, <1>3, <1>4, <1>5, <1>6, <1>7 DEF Next, Recover

-----------------------------------------------------------------------------
(* What holds always                                                       *)

\* The initial state satisfies the inductive invariant.
LEMMA InitIInv == Init => IInv
<1> SUFFICES ASSUME Init PROVE IInv
  OBVIOUS
<1> USE BoundsAssumption, AheadAssumption DEF Init
<1>1. TypeOK
  <2>1. proc \in [Nodes -> Proc]
    BY DEF Proc, Roles
  <2>2. lead \in [Nodes -> Lead]
    BY NoLeadType
  <2>3. fol \in [Nodes -> Fol]
    BY NewFolType
  <2> QED
    BY <2>1, <2>2, <2>3 DEF TypeOK
<1>2. TermInv /\ EpochInv /\ OpeningInv /\ OlderInv
  BY DEF TermInv, EpochInv, OpeningInv, OlderInv, OlderIsFenced, InCharge
<1>3. CountInv
  BY DEF CountInv, CountOK, NoLead
<1>4. BucketInv
  BY DEF BucketInv
<1>5. FolInv
  BY DEF FolInv, NewFol, None
<1> QED
  BY <1>1, <1>2, <1>3, <1>4, <1>5 DEF IInv

\* The invariant is inductive, so it holds in every state.
THEOREM Inductive == Spec => []IInv
<1>1. IInv /\ [Next]_vars => IInv'
  BY TypeStep, TermStep, EpochStep, OpeningStep, CountStep, BucketStep, FolStep, OlderStep DEF IInv
<1> QED
  BY InitIInv, <1>1, PTL DEF Spec

\* Type correctness, for every cluster, setting and bound.
THEOREM TypeCorrect == Spec => []TypeOK
<1>1. IInv => TypeOK
  BY DEF IInv
<1> QED
  BY Inductive, <1>1, PTL

\* At most AHEAD changes are acknowledged ahead of the bucket, whatever the
\* followers hold and however the acknowledgements arrive (Lake::commits).
THEOREM StaysClose == Spec => []AheadIsBounded
<1>1. IInv => AheadIsBounded
  <2> SUFFICES ASSUME IInv, NEW n \in Nodes
               PROVE  lead[n].committed <= MaxOf({lead[n].flushed, lead[n].durable + Ahead})
    BY DEF AheadIsBounded
  <2>1. lead[n] \in Lead /\ CountOK(lead[n])
    BY DEF IInv, TypeOK, CountInv
  <2>2. /\ lead[n].flushed \in Nat /\ lead[n].durable \in Nat /\ lead[n].committed \in Nat
        /\ lead[n].durable + Ahead \in Nat
    BY <2>1, LeadFields, BoundsAssumption, AheadAssumption
  <2>3. MaxOf({lead[n].flushed, lead[n].durable + Ahead}) =
          IF lead[n].flushed <= lead[n].durable + Ahead THEN lead[n].durable + Ahead ELSE lead[n].flushed
    BY <2>2, MaxOfTwo
  <2> QED
    BY <2>1, <2>2, <2>3, AheadAssumption, SMTT(60) DEF CountOK
<1> QED
  BY Inductive, <1>1, PTL

\* Where a claimer opens the catalog before a newer term is claimed, the bucket
\* refuses every leader older than one that opened it (cluster.rs, SlateDB's
\* fence).
THEOREM OlderFenced == ASSUME ~ LateOpen PROVE Spec => []OlderIsFenced
<1>1. IInv => OlderIsFenced
  BY DEF IInv, OlderInv
<1> QED
  BY Inductive, <1>1, PTL

-----------------------------------------------------------------------------
(* The list of the members, as the first changes of a log leave it         *)

ListedTo(log, k) ==
    LET puts == {i \in 1 .. k : log[i].m # NoList}
    IN  IF puts = {} THEN {} ELSE UNION log[MaxOf(puts)].m

\* The list a log ends with, and the one its first k changes end with.
LEMMA ListedIsTo ==
  ASSUME NEW log \in Seq(Change)
  PROVE  /\ Listed(log) = ListedTo(log, Len(log))
         /\ \A k \in 0 .. Len(log) : Listed(SubSeq(log, 1, k)) = ListedTo(log, k)
<1>1. Listed(log) = ListedTo(log, Len(log))
  <2>1. DOMAIN log = 1 .. Len(log)
    OBVIOUS
  <2> QED
    BY <2>1 DEF Listed, ListedTo
<1>2. ASSUME NEW k \in 0 .. Len(log) PROVE Listed(SubSeq(log, 1, k)) = ListedTo(log, k)
  <2> DEFINE s == SubSeq(log, 1, k)
             puts == {i \in 1 .. k : log[i].m # NoList}
  <2>1. s \in Seq(Change) /\ DOMAIN s = 1 .. k /\ \A i \in 1 .. k : s[i] = log[i]
    BY <1>2
  <2> HIDE DEF s
  <2>2. {i \in DOMAIN s : s[i].m # NoList} = puts
    BY <2>1
  <2>3. puts # {} => MaxOf(puts) \in puts
    <3>1. puts \in SUBSET (0 .. Len(log)) /\ Len(log) \in Nat
      BY <1>2
    <3> HIDE DEF puts
    <3> QED
      BY <3>1, MaxOfBounded
  <2>4. puts # {} => s[MaxOf(puts)] = log[MaxOf(puts)]
    BY <2>1, <2>3
  <2>5. ListedTo(log, k) = IF puts = {} THEN {} ELSE UNION log[MaxOf(puts)].m
    BY DEF ListedTo
  <2>6. Listed(s) = IF puts = {} THEN {} ELSE UNION s[MaxOf(puts)].m
    BY <2>2 DEF Listed
  <2> HIDE DEF puts
  <2>7. Listed(s) = ListedTo(log, k)
    BY <2>4, <2>5, <2>6
  <2> QED
    BY <2>7 DEF s
<1> QED
  BY <1>1, <1>2

\* It is a matter of those changes only.
LEMMA ListedToSame ==
  ASSUME NEW log, NEW other, NEW k \in Nat, \A i \in 1 .. k : log[i] = other[i]
  PROVE  ListedTo(log, k) = ListedTo(other, k)
<1> DEFINE puts == {i \in 1 .. k : log[i].m # NoList}
<1>1. {i \in 1 .. k : other[i].m # NoList} = puts
  OBVIOUS
<1>2. puts # {} => MaxOf(puts) \in puts
  <2>1. puts \in SUBSET (0 .. k)
    OBVIOUS
  <2> HIDE DEF puts
  <2> QED
    BY <2>1, MaxOfBounded
<1>3. puts # {} => log[MaxOf(puts)] = other[MaxOf(puts)]
  BY <1>2
<1> HIDE DEF puts
<1>4. ListedTo(other, k) = IF puts = {} THEN {} ELSE UNION other[MaxOf(puts)].m
  BY <1>1 DEF ListedTo
<1>5. ListedTo(log, k) = IF puts = {} THEN {} ELSE UNION log[MaxOf(puts)].m
  BY DEF ListedTo, puts
<1> QED
  BY <1>3, <1>4, <1>5

\* Changes that put no list leave it,
LEMMA ListedToLonger ==
  ASSUME NEW log, NEW j \in Nat, NEW k \in Nat, j <= k,
         \A i \in (j + 1) .. k : log[i].m = NoList
  PROVE  ListedTo(log, j) = ListedTo(log, k)
<1>1. {i \in 1 .. j : log[i].m # NoList} = {i \in 1 .. k : log[i].m # NoList}
  OBVIOUS
<1> QED
  BY <1>1 DEF ListedTo

\* ... and one that puts a list makes it that list.
LEMMA ListedToLast ==
  ASSUME NEW log, NEW k \in Nat, NEW j \in 1 .. k, NEW s, log[j].m = {s},
         \A i \in (j + 1) .. k : log[i].m = NoList
  PROVE  ListedTo(log, k) = s
<1> DEFINE puts == {i \in 1 .. k : log[i].m # NoList}
<1>1. j \in puts /\ \A i \in puts : i <= j
  BY DEF NoList
<1>2. MaxOf(puts) = j
  <2>1. \A i \in puts : i \in Nat
    OBVIOUS
  <2> HIDE DEF puts
  <2>2. \A i \in puts : (\A y \in puts : y <= i) => i = j
    BY <1>1, <2>1
  <2> QED
    BY <1>1, <2>2 DEF MaxOf
<1>3. ListedTo(log, k) = UNION log[j].m
  BY <1>1, <1>2 DEF ListedTo
<1>4. UNION {s} = s
  OBVIOUS
<1> QED
  BY <1>3, <1>4

-----------------------------------------------------------------------------
(* What a step does                                                        *)

Others(n)    == \A m \in Nodes : m # n => lead'[m] = lead[m]
SameRoles    == UNCHANGED <<proc, owner, fence>>
SameLog(n)   == /\ lead'[n].log = lead[n].log
                /\ lead'[n].opened = lead[n].opened
                /\ lead'[n].flushed = lead[n].flushed
SameSent(n)  == /\ lead'[n].sent = lead[n].sent
                /\ lead'[n].committed = lead[n].committed
SameRound(n) == /\ lead'[n].counting = lead[n].counting
                /\ lead'[n].job = lead[n].job
SameAsked(n) == /\ lead'[n].todo = lead[n].todo
                /\ lead'[n].found = lead[n].found

\* The node hears of term t: it helps no older leader from then on.
HeardOf(f, t) ==
    /\ \A g \in Nodes : /\ fol'[g].conn = fol[g].conn
                        /\ fol'[g].sterm = fol[g].sterm
                        /\ fol'[g].seen >= fol[g].seen
    /\ fol'[f].seen >= t

\* A process of n ended, and another starts as `p`.
Ended(n, p) ==
    /\ p.epoch = 0
    /\ proc'[n] = p /\ \A m \in Nodes : m # n => proc'[m] = proc[m]
    /\ lead'[n] = NoLead /\ Others(n)
    /\ fol'[n] = NewFol(held[n]) /\ \A m \in Nodes : m # n => fol'[m] = fol[m]
    /\ wire' = {a \in wire : a.to = n => a.term = p.term}
    /\ UNCHANGED <<bucket, fence, held, acked>>
    /\ \/ owner' = owner /\ p.role = "down"
       \/ owner' = owner /\ p.role = "follower" /\ p.term = Len(owner) /\ owner[p.term] # n
       \/ owner' = owner /\ p.role = "opening" /\ p.term = Len(owner) /\ owner[p.term] = n
            /\ proc[n].role \in InCharge /\ TakeBack(n)
       \/ owner' = Append(owner, n) /\ p.role = "opening" /\ p.term = Len(owner) + 1

\* n opened the catalog.
Opened(n) ==
    /\ proc[n].role = "opening"
    /\ fence' = fence + 1
    /\ proc'[n].role = "recovering" /\ proc'[n].term = proc[n].term /\ proc'[n].epoch = fence + 1
    /\ \A m \in Nodes : m # n => proc'[m] = proc[m]
    /\ lead'[n].log = bucket
    /\ lead'[n].opened = Len(bucket) /\ lead'[n].flushed = Len(bucket)
    /\ lead'[n].sent = Len(bucket) /\ lead'[n].committed = Len(bucket)
    /\ lead'[n].counting = {} /\ lead'[n].job = Idle /\ lead'[n].acks = NoLead.acks
    /\ lead'[n].todo = Listed(bucket) \ {n}
    /\ lead'[n].found = Answer(n, Len(bucket))
    /\ Others(n)
    /\ HeardOf(n, proc[n].term)
    /\ UNCHANGED <<bucket, owner, held, wire, acked>>

\* p answered n, which recovers.
Answered(n, p) ==
    /\ proc[n].role = "recovering" /\ p \in lead[n].todo
    /\ lead'[n].todo = lead[n].todo \ {p}
    /\ lead'[n].found = Merge(lead[n].found, Answer(p, lead[n].opened))
    /\ SameLog(n) /\ SameSent(n) /\ SameRound(n) /\ lead'[n].acks = lead[n].acks /\ Others(n)
    /\ HeardOf(p, proc[n].term)
    /\ SameRoles /\ UNCHANGED <<bucket, held, wire, acked>>

\* n does without p.
Skipped(n, p) ==
    /\ lead[n].skipped < MaxSkips
    /\ SameLog(n) /\ SameSent(n) /\ SameRound(n) /\ lead'[n].durable = lead[n].durable /\ Others(n)
    /\ SameRoles /\ UNCHANGED <<bucket, fol, held, acked>>

\* n wrote again what it found, and maybe a list.
Rewrote(n) ==
    /\ proc[n].role = "recovering" /\ lead[n].todo = {}
    /\ \E off \in Seq(Change) : lead'[n].log = lead[n].log \o Recovered(n) \o off
    /\ lead'[n].opened = lead[n].opened /\ lead'[n].flushed = lead[n].flushed
    /\ SameSent(n) /\ SameRound(n) /\ lead'[n].acks = lead[n].acks
    /\ lead'[n].found = {}
    /\ Others(n)
    /\ proc'[n].role = "settling" /\ proc'[n].term = proc[n].term /\ proc'[n].epoch = proc[n].epoch
    /\ \A m \in Nodes : m # n => proc'[m] = proc[m]
    /\ UNCHANGED <<bucket, fence, owner, fol, held, wire, acked>>

\* n serves.
Served(n) ==
    /\ proc[n].role = "settling"
    /\ lead[n].committed = Len(lead[n].log) /\ lead[n].durable >= lead[n].committed
    /\ proc'[n].role = "leading" /\ proc'[n].term = proc[n].term /\ proc'[n].epoch = proc[n].epoch
    /\ \A m \in Nodes : m # n => proc'[m] = proc[m]
    /\ UNCHANGED <<bucket, fence, owner, lead, fol, held, wire, acked>>

\* n wrote a change, or the members' new list.
Wrote(n, w) ==
    /\ Leads(n) /\ w \in Change
    /\ lead'[n].log = Append(lead[n].log, w)
    /\ lead'[n].opened = lead[n].opened /\ lead'[n].flushed = lead[n].flushed
    /\ lead'[n].durable = lead[n].durable
    /\ SameSent(n) /\ lead'[n].acks = lead[n].acks /\ SameAsked(n)
    /\ lead'[n].counting = lead[n].counting
    /\ \/ w.m = NoList /\ lead'[n].job = lead[n].job
       \/ /\ w.m = {lead[n].job.live}
          /\ lead[n].job.at = "drain" /\ lead'[n].job.at = "list"
          /\ lead'[n].job.live = lead[n].job.live
          /\ lead'[n].job.upto = Len(lead[n].log) + 1
    /\ Others(n)
    /\ SameRoles /\ UNCHANGED <<bucket, fol, held, wire, acked>>

\* The bucket took n's next change.
Flushed(n) ==
    /\ Commits(n) /\ Unfenced(n)
    /\ lead[n].flushed < Len(lead[n].log)
    /\ bucket' = Append(bucket, lead[n].log[lead[n].flushed + 1])
    /\ lead'[n].flushed = lead[n].flushed + 1
    /\ lead'[n].log = lead[n].log /\ lead'[n].opened = lead[n].opened
    /\ lead'[n].durable = lead[n].durable
    /\ SameSent(n) /\ SameRound(n) /\ lead'[n].acks = lead[n].acks /\ SameAsked(n)
    /\ Others(n)
    /\ SameRoles /\ UNCHANGED <<fol, held, wire, acked>>

\* n streamed, committed or noted a change: its commit loop went on.
LoopSame(n) ==
    /\ Commits(n)
    /\ SameLog(n) /\ SameRound(n) /\ lead'[n].acks = lead[n].acks /\ SameAsked(n)
    /\ Others(n)
    /\ SameRoles /\ UNCHANGED <<bucket, fol, held, wire>>
Sent(n) ==
    /\ LoopSame(n) /\ acked' = acked
    /\ lead[n].sent = lead[n].committed
    /\ lead[n].sent < Len(lead[n].log)
    /\ lead'[n].sent = lead[n].sent + 1
    /\ lead'[n].committed = lead[n].committed /\ lead'[n].durable = lead[n].durable
Confirmed(n) ==
    /\ LoopSame(n)
    /\ lead[n].sent = lead[n].committed + 1
    /\ lead'[n].sent = lead[n].sent
    /\ lead'[n].committed = lead[n].sent /\ lead'[n].durable = lead[n].durable
    /\ acked' = acked \cup {[id |-> lead[n].sent, change |-> lead[n].log[lead[n].sent]]}
    /\ lead[n].flushed >= lead[n].sent \/ \E f \in Nodes : f \in Holders(n, lead[n].sent)
Noted(n) ==
    /\ LoopSame(n) /\ acked' = acked
    /\ SameSent(n)
    /\ lead[n].durable < lead[n].flushed
    /\ lead'[n].durable = lead[n].durable + 1

\* A round of n's members loop began, or ended.
RoundSame(n) ==
    /\ Leads(n)
    /\ SameLog(n) /\ SameSent(n) /\ lead'[n].durable = lead[n].durable
    /\ lead'[n].acks = lead[n].acks /\ SameAsked(n)
    /\ Others(n)
    /\ SameRoles /\ UNCHANGED <<bucket, fol, held, wire, acked>>
Shrunk(n) ==
    /\ RoundSame(n)
    /\ lead[n].job = Idle
    /\ lead'[n].job.at = "drain"
    /\ lead'[n].counting \subseteq lead'[n].job.live
    /\ lead'[n].counting \subseteq Listed(SubSeq(lead[n].log, 1, lead[n].committed))
Counted(n) ==
    /\ RoundSame(n)
    /\ lead[n].job.at = "list" /\ JobInBucket(n)
    /\ lead'[n].job = Idle
    /\ lead'[n].counting = lead[n].job.live

\* An acknowledgement arrived.
Received(a) ==
    /\ a \in wire /\ wire' = wire \ {a}
    /\ \A m \in Nodes : /\ SameLog(m) /\ SameSent(m) /\ SameRound(m) /\ SameAsked(m)
                        /\ lead'[m].durable = lead[m].durable
                        /\ \A f \in Nodes :
                             \/ lead'[m].acks[f] = lead[m].acks[f]
                             \/ /\ Leads(m) /\ a.from = f /\ a.to = m /\ a.term = proc[m].term
                                /\ lead'[m].acks[f] = <<a.first, a.upto>>
                        /\ ~ Leads(m) => lead'[m] = lead[m]
    /\ SameRoles /\ UNCHANGED <<bucket, fol, held, acked>>

\* f's stream opened, broke off, brought a change, or said what is in the bucket.
StreamSame == SameRoles /\ UNCHANGED <<bucket, lead, acked>>
Joined(f) ==
    LET l == LeaderOf(f)
        t == proc[l].term
    IN  /\ proc[f].role = "follower" /\ l \in Nodes /\ Leads(l)
        /\ fol'[f].conn = proc[l].epoch /\ fol'[f].sterm = t
        /\ fol'[f].seen >= fol[f].seen /\ fol'[f].seen >= t
        /\ \A m \in Nodes : m # f => fol'[m] = fol[m]
        /\ held'[f] = {c \in held[f] : c.term >= t}
        /\ \A m \in Nodes : m # f => held'[m] = held[m]
        /\ wire' = wire
        /\ StreamSame
Dropped(f) ==
    /\ fol'[f].conn = 0 /\ fol'[f].sterm = fol[f].sterm /\ fol'[f].seen = fol[f].seen
    /\ \A m \in Nodes : m # f => fol'[m] = fol[m]
    /\ UNCHANGED <<held, wire>>
    /\ StreamSame
Fetched(f) ==
    /\ fol'[f].conn = fol[f].conn /\ fol'[f].sterm = fol[f].sterm /\ fol'[f].seen = fol[f].seen
    /\ \A m \in Nodes : m # f => fol'[m] = fol[m]
    /\ UNCHANGED <<held, wire>>
    /\ StreamSame
Held(f, l, i, j) ==
    /\ proc[f].role = "follower" /\ l = LeaderOf(f) /\ Leads(l)
    /\ fol[f].conn = proc[l].epoch
    /\ Helps(f, fol[f].sterm)
    /\ i <= lead[l].sent
    /\ fol'[f].conn = fol[f].conn /\ fol'[f].sterm = fol[f].sterm /\ fol'[f].seen = fol[f].seen
    /\ \A m \in Nodes : m # f => fol'[m] = fol[m]
    /\ held'[f] = Merge(held[f], {[id |-> i, term |-> fol[f].sterm, change |-> lead[l].log[i]]})
    /\ \A m \in Nodes : m # f => held'[m] = held[m]
    /\ wire' = wire \cup {[from |-> f, to |-> l, term |-> fol[f].sterm, first |-> j, upto |-> i]}
    /\ StreamSame
Pruned(f) ==
    LET l == LeaderOf(f)
    IN  /\ proc[f].role = "follower" /\ l \in Nodes /\ Leads(l)
        /\ held'[f] \subseteq held[f]
        /\ \A c \in held[f] : c \in held'[f] \/ c.id <= lead[l].durable
        /\ \A m \in Nodes : m # f => held'[m] = held[m]
        /\ UNCHANGED <<fol, wire>>
        /\ StreamSame

Moved(n) ==
    \/ \E p \in Proc : Ended(n, p)
    \/ Opened(n)
    \/ \E p \in Nodes : Answered(n, p) \/ Skipped(n, p)
    \/ Rewrote(n)
    \/ Served(n)
Worked(n) ==
    \/ \E w \in Change : Wrote(n, w)
    \/ Flushed(n) \/ Sent(n) \/ Confirmed(n) \/ Noted(n)
    \/ Shrunk(n) \/ Counted(n)
Followed(f) ==
    \/ Joined(f) \/ Dropped(f) \/ Fetched(f) \/ Pruned(f)
    \/ \E l \in Nodes, i, j \in Ids : Held(f, l, i, j)

-----------------------------------------------------------------------------
(* Every step does one of these                                            *)

\* A process ends (Claim, Follow, TakeBack, Crash, LetGo).
LEMMA EndedDoes ==
  ASSUME IInv, NEW n \in Nodes, Takeover(n) \/ \E p \in Nodes : LetGo(n, p)
  PROVE  \E p \in Proc : Ended(n, p)
<1> USE BoundsAssumption
<1>0. /\ Len(owner) \in 0 .. MaxTerm
      /\ proc \in [Nodes -> Proc] /\ lead \in [Nodes -> Lead] /\ fol \in [Nodes -> Fol]
  BY DEF IInv, TypeOK
<1>a. ASSUME NEW q \in Proc, NewProcess(n, q)
      PROVE  /\ proc'[n] = q /\ \A m \in Nodes : m # n => proc'[m] = proc[m]
             /\ lead'[n] = NoLead /\ Others(n)
             /\ fol'[n] = NewFol(held[n]) /\ \A m \in Nodes : m # n => fol'[m] = fol[m]
             /\ wire' = {a \in wire : a.to = n => a.term = q.term}
  BY <1>0, <1>a DEF NewProcess, Others
<1>1. CASE Claim(n)
  <2> DEFINE q == [role |-> "opening", term |-> Latest + 1, epoch |-> 0]
  <2>1. q \in Proc
    BY <1>0, <1>1 DEF Claim, Latest, Proc, Roles
  <2>2. q.epoch = 0 /\ q.role = "opening" /\ q.term = Len(owner) + 1
    BY DEF Latest
  <2>3. NewProcess(n, q) /\ owner' = Append(owner, n) /\ UNCHANGED <<bucket, fence, held, acked>>
    BY <1>1 DEF Claim
  <2> HIDE DEF q
  <2> QED
    BY <1>a, <2>1, <2>2, <2>3 DEF Ended
<1>2. CASE Follow(n)
  <2> DEFINE q == [role |-> "follower", term |-> Latest, epoch |-> 0]
  <2>1. q \in Proc
    BY <1>0 DEF Latest, Proc, Roles
  <2>2. q.epoch = 0 /\ q.role = "follower" /\ q.term = Len(owner) /\ owner[q.term] # n
    BY <1>2 DEF Follow, Latest
  <2>3. NewProcess(n, q) /\ owner' = owner /\ UNCHANGED <<bucket, fence, held, acked>>
    BY <1>2 DEF Follow
  <2> HIDE DEF q
  <2> QED
    BY <1>a, <2>1, <2>2, <2>3 DEF Ended
<1>3. CASE TakeBack(n)
  <2> DEFINE q == [role |-> "opening", term |-> Latest, epoch |-> 0]
  <2>1. q \in Proc
    BY <1>0 DEF Latest, Proc, Roles
  <2>2. /\ q.epoch = 0 /\ q.role = "opening" /\ q.term = Len(owner) /\ owner[q.term] = n
        /\ proc[n].role \in InCharge
    BY <1>3 DEF TakeBack, Latest, InCharge
  <2>3. NewProcess(n, q) /\ owner' = owner /\ UNCHANGED <<bucket, fence, held, acked>>
    BY <1>3 DEF TakeBack
  <2> HIDE DEF q
  <2> QED
    BY <1>a, <1>3, <2>1, <2>2, <2>3 DEF Ended
<1>4. CASE Crash(n) \/ \E p \in Nodes : LetGo(n, p)
  <2> DEFINE q == [role |-> "down", term |-> 0, epoch |-> 0]
  <2>1. q \in Proc
    BY DEF Proc, Roles
  <2>2. q.epoch = 0 /\ q.role = "down"
    OBVIOUS
  <2>3. NewProcess(n, q) /\ owner' = owner /\ UNCHANGED <<bucket, fence, held, acked>>
    BY <1>4 DEF Crash, LetGo
  <2> HIDE DEF q
  <2> QED
    BY <1>a, <2>1, <2>2, <2>3 DEF Ended
<1> QED
  BY <1>1, <1>2, <1>3, <1>4 DEF Takeover

\* Hearing of a term, as Open and Collect do.
LEMMA HearsDoes ==
  ASSUME TypeOK, NEW f \in Nodes, NEW t \in 0 .. MaxTerm,
         fol' = [fol EXCEPT ![f].seen = Hears(f, t)]
  PROVE  HeardOf(f, t)
<1> DEFINE s == Hears(f, t)
           r == [fol[f] EXCEPT !.seen = s]
<1>1. fol \in [Nodes -> Fol] /\ fol[f].seen \in Nat /\ t \in Nat
  BY FolFields, BoundsAssumption DEF TypeOK
<1>2. s >= fol[f].seen /\ s >= t
  BY <1>1, MaxOfTwo DEF Hears
<1>3. fol' = [fol EXCEPT ![f] = r]
  BY <1>1
<1> HIDE DEF s
<1>4. r.conn = fol[f].conn /\ r.sterm = fol[f].sterm /\ r.seen = s
  BY <1>1 DEF Fol
<1> HIDE DEF r
<1>5. \A g \in Nodes : fol'[g] = IF g = f THEN r ELSE fol[g]
  BY <1>1, <1>3
<1>6. \A g \in Nodes : fol[g].seen >= fol[g].seen
  BY FolFields, BoundsAssumption DEF TypeOK
<1>7. fol'[f] = r
  BY <1>5
<1>8. ASSUME NEW g \in Nodes
      PROVE  fol'[g].conn = fol[g].conn /\ fol'[g].sterm = fol[g].sterm /\ fol'[g].seen >= fol[g].seen
  <2>1. CASE g = f
    BY <1>2, <1>4, <1>7, <2>1
  <2>2. CASE g # f
    BY <1>5, <1>6, <2>2
  <2> QED
    BY <2>1, <2>2
<1> QED
  BY <1>2, <1>4, <1>7, <1>8 DEF HeardOf

\* Open.
LEMMA OpenedDoes == ASSUME IInv, NEW n \in Nodes, Open(n) PROVE Opened(n)
<1> USE BoundsAssumption
<1>0. /\ TypeOK /\ lead \in [Nodes -> Lead] /\ proc \in [Nodes -> Proc]
      /\ proc[n] \in Proc /\ proc[n].term \in 0 .. MaxTerm
  BY DEF IInv, TypeOK, Proc
<1> DEFINE m == Listed(bucket)
           at == Len(bucket)
           r == [NoLead EXCEPT !.log = bucket, !.opened = at, !.sent = at,
                               !.committed = at, !.flushed = at, !.durable = at,
                               !.todo = m \ {n},
                               !.outside = (m # {} /\ n \notin m),
                               !.found = Answer(n, at)]
<1>1. lead' = [lead EXCEPT ![n] = r]
  BY DEF Open
<1>2. /\ r.log = bucket /\ r.opened = at /\ r.flushed = at /\ r.sent = at /\ r.committed = at
      /\ r.counting = {} /\ r.job = Idle /\ r.acks = NoLead.acks
      /\ r.todo = m \ {n} /\ r.found = Answer(n, at)
  <2> HIDE DEF m, at
  <2> QED
    BY DEF NoLead
<1> HIDE DEF r
<1>3. lead'[n] = r /\ Others(n)
  BY <1>0, <1>1 DEF Others
<1>4. HeardOf(n, proc[n].term)
  BY <1>0, HearsDoes DEF Open
<1>5. /\ proc[n].role = "opening" /\ fence' = fence + 1
      /\ UNCHANGED <<bucket, owner, held, wire, acked>>
  BY DEF Open
<1>6. /\ proc'[n].role = "recovering" /\ proc'[n].term = proc[n].term /\ proc'[n].epoch = fence + 1
      /\ \A k \in Nodes : k # n => proc'[k] = proc[k]
  <2> DEFINE q == [proc[n] EXCEPT !.role = "recovering", !.epoch = fence + 1]
  <2>1. proc' = [proc EXCEPT ![n] = q]
    BY <1>0, OpenRole
  <2>2. q.role = "recovering" /\ q.term = proc[n].term /\ q.epoch = fence + 1
    BY <1>0 DEF Proc
  <2> HIDE DEF q
  <2> QED
    BY <1>0, <2>1, <2>2
<1> QED
  BY <1>2, <1>3, <1>4, <1>5, <1>6 DEF Opened

\* Collect and Skip.
LEMMA AskDoes ==
  ASSUME IInv, NEW n \in Nodes, NEW p \in Nodes, Collect(n, p) \/ Skip(n, p)
  PROVE  Answered(n, p) \/ Skipped(n, p)
<1> USE BoundsAssumption
<1>0. /\ TypeOK /\ lead \in [Nodes -> Lead] /\ lead[n] \in Lead
      /\ proc[n].term \in 0 .. MaxTerm
  BY DEF IInv, TypeOK, Proc
<1>1. CASE Collect(n, p)
  <2> DEFINE r == [lead[n] EXCEPT !.todo = @ \ {p}, !.found = Merge(@, Answer(p, lead[n].opened))]
  <2>1. lead' = [lead EXCEPT ![n] = r]
    BY <1>0, <1>1 DEF Collect
  <2>2. /\ r.log = lead[n].log /\ r.opened = lead[n].opened /\ r.flushed = lead[n].flushed
        /\ r.sent = lead[n].sent /\ r.committed = lead[n].committed
        /\ r.counting = lead[n].counting /\ r.job = lead[n].job /\ r.acks = lead[n].acks
        /\ r.todo = lead[n].todo \ {p}
        /\ r.found = Merge(lead[n].found, Answer(p, lead[n].opened))
    BY <1>0 DEF Lead
  <2> HIDE DEF r
  <2>3. lead'[n] = r /\ Others(n)
    BY <1>0, <2>1 DEF Others
  <2>4. HeardOf(p, proc[n].term)
    BY <1>0, <1>1, HearsDoes DEF Collect
  <2>5. proc[n].role = "recovering" /\ p \in lead[n].todo /\ SameRoles /\ UNCHANGED <<bucket, held, wire, acked>>
    BY <1>1 DEF Collect, SameRoles
  <2> QED
    BY <2>2, <2>3, <2>4, <2>5 DEF Answered, SameLog, SameSent, SameRound
<1>2. CASE Skip(n, p)
  <2> DEFINE r == [lead[n] EXCEPT !.todo = @ \ {p}, !.skipped = @ + 1]
  <2>1. lead' = [lead EXCEPT ![n] = r]
    BY <1>0, <1>2 DEF Skip
  <2>2. /\ r.log = lead[n].log /\ r.opened = lead[n].opened /\ r.flushed = lead[n].flushed
        /\ r.sent = lead[n].sent /\ r.committed = lead[n].committed
        /\ r.counting = lead[n].counting /\ r.job = lead[n].job /\ r.durable = lead[n].durable
    BY <1>0 DEF Lead
  <2> HIDE DEF r
  <2>3. lead'[n] = r /\ Others(n)
    BY <1>0, <2>1 DEF Others
  <2>4. lead[n].skipped < MaxSkips /\ SameRoles /\ UNCHANGED <<bucket, fol, held, acked>>
    BY <1>2 DEF Skip, SameRoles
  <2> QED
    BY <2>2, <2>3, <2>4 DEF Skipped, SameLog, SameSent, SameRound
<1> QED
  BY <1>1, <1>2

\* Rewrite and Serve.
LEMMA SettleDoes ==
  ASSUME IInv, NEW n \in Nodes, Rewrite(n) \/ Serve(n)
  PROVE  Rewrote(n) \/ Served(n)
<1> USE BoundsAssumption
<1>0. /\ TypeOK /\ EpochInv /\ lead \in [Nodes -> Lead] /\ lead[n] \in Lead
      /\ proc \in [Nodes -> Proc] /\ proc[n] \in Proc
  BY DEF IInv, TypeOK
<1>1. CASE Rewrite(n)
  <2> DEFINE off == IF Replicas[n] = 1 /\ Listed(bucket) # {}
                    THEN <<[by |-> proc[n].epoch, m |-> {{}}]>> ELSE <<>>
             lg == lead[n].log \o Recovered(n) \o off
             r == [lead[n] EXCEPT !.log = lg, !.found = {}]
  <2>1. lead' = [lead EXCEPT ![n] = r]
    BY <1>0, <1>1 DEF Rewrite
  <2>2. off \in Seq(Change)
    <3>1. proc[n].epoch \in 1 .. MaxEpoch
      BY <1>0, <1>1 DEF Rewrite, EpochInv, InCharge, Proc
    <3>2. [by |-> proc[n].epoch, m |-> {{}}] \in Change
      BY <3>1 DEF Change
    <3> QED
      BY <3>2
  <2> HIDE DEF off
  <2>3. \E o \in Seq(Change) : lg = lead[n].log \o Recovered(n) \o o
    BY <2>2
  <2> HIDE DEF lg
  <2>4. /\ r.log = lg /\ r.opened = lead[n].opened /\ r.flushed = lead[n].flushed
        /\ r.sent = lead[n].sent /\ r.committed = lead[n].committed
        /\ r.counting = lead[n].counting /\ r.job = lead[n].job /\ r.acks = lead[n].acks
        /\ r.found = {}
    BY <1>0 DEF Lead
  <2> HIDE DEF r
  <2>5. lead'[n] = r /\ Others(n)
    BY <1>0, <2>1 DEF Others
  <2>6. /\ proc[n].role = "recovering" /\ lead[n].todo = {}
        /\ UNCHANGED <<bucket, fence, owner, fol, held, wire, acked>>
    BY <1>1 DEF Rewrite
  <2>7. /\ proc'[n].role = "settling" /\ proc'[n].term = proc[n].term /\ proc'[n].epoch = proc[n].epoch
        /\ \A m \in Nodes : m # n => proc'[m] = proc[m]
    BY <1>0, <1>1 DEF Rewrite, Proc
  <2> QED
    BY <2>3, <2>4, <2>5, <2>6, <2>7 DEF Rewrote, SameSent, SameRound
<1>2. CASE Serve(n)
  <2>1. /\ proc'[n].role = "leading" /\ proc'[n].term = proc[n].term /\ proc'[n].epoch = proc[n].epoch
        /\ \A m \in Nodes : m # n => proc'[m] = proc[m]
    BY <1>0, <1>2 DEF Serve, Proc
  <2> QED
    BY <1>2, <2>1 DEF Serve, Served
<1> QED
  BY <1>1, <1>2

\* Write and List.
LEMMA WriteDoes ==
  ASSUME IInv, NEW n \in Nodes, Write(n) \/ List(n)
  PROVE  \E w \in Change : Wrote(n, w)
<1> USE BoundsAssumption
<1>0. /\ TypeOK /\ EpochInv /\ lead \in [Nodes -> Lead] /\ lead[n] \in Lead /\ lead[n].job \in Job
      /\ proc[n] \in Proc /\ Leads(n)
  BY LeadFields DEF IInv, TypeOK, Write, List
<1>a. proc[n].epoch \in 1 .. MaxEpoch
  BY <1>0 DEF Leads, EpochInv, InCharge, Proc
<1>1. CASE Write(n)
  <2> DEFINE w == [by |-> proc[n].epoch, m |-> NoList]
             lg == Append(lead[n].log, w)
             r == [lead[n] EXCEPT !.log = lg]
  <2>1. lead' = [lead EXCEPT ![n] = r]
    BY <1>0, <1>1 DEF Write
  <2>2. w \in Change /\ w.m = NoList
    BY <1>a DEF Change
  <2> HIDE DEF w
  <2>3. lg = Append(lead[n].log, w)
    OBVIOUS
  <2> HIDE DEF lg
  <2>4. /\ r.log = lg /\ r.opened = lead[n].opened /\ r.flushed = lead[n].flushed
        /\ r.sent = lead[n].sent /\ r.committed = lead[n].committed /\ r.durable = lead[n].durable
        /\ r.counting = lead[n].counting /\ r.job = lead[n].job /\ r.acks = lead[n].acks
        /\ r.todo = lead[n].todo /\ r.found = lead[n].found
    BY <1>0 DEF Lead
  <2> HIDE DEF r
  <2>5. lead'[n] = r /\ Others(n)
    BY <1>0, <2>1 DEF Others
  <2>6. SameRoles /\ UNCHANGED <<bucket, fol, held, wire, acked>>
    BY <1>1 DEF Write, SameRoles
  <2>7. Wrote(n, w)
    BY <1>0, <2>2, <2>3, <2>4, <2>5, <2>6 DEF Wrote, SameSent, SameAsked
  <2> QED
    BY <2>2, <2>7
<1>2. CASE List(n)
  <2> DEFINE w == [by |-> proc[n].epoch, m |-> {lead[n].job.live}]
             lg == Append(lead[n].log, w)
             j == [lead[n].job EXCEPT !.at = "list", !.upto = Len(lead[n].log) + 1]
             r == [lead[n] EXCEPT !.log = lg, !.job = j]
  <2>1. lead' = [lead EXCEPT ![n] = r]
    BY <1>0, <1>2, ZenonT(60) DEF List, Lead
  <2>2. w \in Change /\ w.m = {lead[n].job.live}
    BY <1>0, <1>a DEF Change, Job
  <2>3. j.at = "list" /\ j.live = lead[n].job.live /\ j.upto = Len(lead[n].log) + 1
    BY <1>0 DEF Job
  <2> HIDE DEF w, j
  <2>4. lg = Append(lead[n].log, w)
    OBVIOUS
  <2> HIDE DEF lg
  <2>5. /\ r.log = lg /\ r.opened = lead[n].opened /\ r.flushed = lead[n].flushed
        /\ r.sent = lead[n].sent /\ r.committed = lead[n].committed /\ r.durable = lead[n].durable
        /\ r.counting = lead[n].counting /\ r.job = j /\ r.acks = lead[n].acks
        /\ r.todo = lead[n].todo /\ r.found = lead[n].found
    BY <1>0 DEF Lead
  <2> HIDE DEF r
  <2>6. lead'[n] = r /\ Others(n)
    BY <1>0, <2>1 DEF Others
  <2>7. lead[n].job.at = "drain" /\ SameRoles /\ UNCHANGED <<bucket, fol, held, wire, acked>>
    BY <1>2 DEF List, SameRoles
  <2>8. Wrote(n, w)
    BY <1>0, <2>2, <2>3, <2>4, <2>5, <2>6, <2>7 DEF Wrote, SameSent, SameAsked
  <2> QED
    BY <2>2, <2>8
<1> QED
  BY <1>1, <1>2

\* Flush.
LEMMA FlushDoes == ASSUME IInv, NEW n \in Nodes, Flush(n) PROVE Flushed(n)
<1>0. lead \in [Nodes -> Lead] /\ lead[n] \in Lead
  BY DEF IInv, TypeOK
<1> DEFINE r == [lead[n] EXCEPT !.flushed = @ + 1]
<1>1. lead' = [lead EXCEPT ![n] = r]
  BY <1>0 DEF Flush
<1>2. /\ r.log = lead[n].log /\ r.opened = lead[n].opened /\ r.flushed = lead[n].flushed + 1
      /\ r.sent = lead[n].sent /\ r.committed = lead[n].committed /\ r.durable = lead[n].durable
      /\ r.counting = lead[n].counting /\ r.job = lead[n].job /\ r.acks = lead[n].acks
      /\ r.todo = lead[n].todo /\ r.found = lead[n].found
  BY <1>0 DEF Lead
<1> HIDE DEF r
<1>3. lead'[n] = r /\ Others(n)
  BY <1>0, <1>1 DEF Others
<1>4. /\ Commits(n) /\ Unfenced(n) /\ lead[n].flushed < Len(lead[n].log)
      /\ bucket' = Append(bucket, lead[n].log[lead[n].flushed + 1])
      /\ SameRoles /\ UNCHANGED <<fol, held, wire, acked>>
  BY DEF Flush, SameRoles
<1> QED
  BY <1>2, <1>3, <1>4 DEF Flushed, SameSent, SameRound, SameAsked

\* Stream, Commit and NoteDurable.
LEMMA LoopDoes ==
  ASSUME IInv, NEW n \in Nodes, Stream(n) \/ Commit(n) \/ NoteDurable(n)
  PROVE  Sent(n) \/ Confirmed(n) \/ Noted(n)
<1>0. lead \in [Nodes -> Lead] /\ lead[n] \in Lead
  BY DEF IInv, TypeOK
<1>1. CASE Stream(n)
  <2> DEFINE cl == IsClose(n)
             r == [lead[n] EXCEPT !.sent = @ + 1, !.close = cl]
  <2>1. lead' = [lead EXCEPT ![n] = r]
    BY <1>0, <1>1 DEF Stream
  <2> HIDE DEF cl
  <2>2. /\ r.log = lead[n].log /\ r.opened = lead[n].opened /\ r.flushed = lead[n].flushed
        /\ r.sent = lead[n].sent + 1 /\ r.committed = lead[n].committed /\ r.durable = lead[n].durable
        /\ r.counting = lead[n].counting /\ r.job = lead[n].job /\ r.acks = lead[n].acks
        /\ r.todo = lead[n].todo /\ r.found = lead[n].found
    BY <1>0 DEF Lead
  <2> HIDE DEF r
  <2>3. lead'[n] = r /\ Others(n)
    BY <1>0, <2>1 DEF Others
  <2>4. /\ Commits(n) /\ lead[n].sent = lead[n].committed /\ lead[n].sent < Len(lead[n].log)
        /\ SameRoles /\ UNCHANGED <<bucket, fol, held, wire, acked>>
    BY <1>1 DEF Stream, SameRoles
  <2> QED
    BY <2>2, <2>3, <2>4 DEF Sent, LoopSame, SameLog, SameRound, SameAsked
<1>2. CASE Commit(n)
  <2> DEFINE r == [lead[n] EXCEPT !.committed = @ + 1]
  <2>1. lead' = [lead EXCEPT ![n] = r]
    BY <1>0, <1>2 DEF Commit
  <2>2. /\ r.log = lead[n].log /\ r.opened = lead[n].opened /\ r.flushed = lead[n].flushed
        /\ r.sent = lead[n].sent /\ r.committed = lead[n].committed + 1 /\ r.durable = lead[n].durable
        /\ r.counting = lead[n].counting /\ r.job = lead[n].job /\ r.acks = lead[n].acks
        /\ r.todo = lead[n].todo /\ r.found = lead[n].found
    BY <1>0 DEF Lead
  <2> HIDE DEF r
  <2>3. lead'[n] = r /\ Others(n)
    BY <1>0, <2>1 DEF Others
  <2>4. /\ Commits(n) /\ lead[n].sent = lead[n].committed + 1
        /\ acked' = acked \cup {[id |-> lead[n].sent, change |-> lead[n].log[lead[n].sent]]}
        /\ SameRoles /\ UNCHANGED <<bucket, fol, held, wire>>
    BY <1>2 DEF Commit, SameRoles
  <2>5. lead[n].flushed >= lead[n].sent \/ \E f \in Nodes : f \in Holders(n, lead[n].sent)
    <3>1. CASE lead[n].flushed >= lead[n].sent
      BY <3>1
    <3>2. CASE Need(n) > 0 /\ EnoughHold(n)
      <4>1. Need(n) > 0 /\ Cardinality(Holders(n, lead[n].sent)) >= Need(n) /\ Need(n) \in Int
        BY <3>2, ReplicasAssumption DEF EnoughHold, Need
      <4>2. Holders(n, lead[n].sent) # {}
        BY <4>1, FS_EmptySet
      <4>3. Holders(n, lead[n].sent) \subseteq Nodes
        BY <1>0, LeadFields DEF Holders
      <4> QED
        BY <4>2, <4>3
    <3> QED
      BY <1>2, <3>1, <3>2 DEF Commit, Decides
  <2> QED
    BY <2>2, <2>3, <2>4, <2>5 DEF Confirmed, LoopSame, SameLog, SameRound, SameAsked
<1>3. CASE NoteDurable(n)
  <2> DEFINE r == [lead[n] EXCEPT !.durable = @ + 1]
  <2>1. lead' = [lead EXCEPT ![n] = r]
    BY <1>0, <1>3 DEF NoteDurable
  <2>2. /\ r.log = lead[n].log /\ r.opened = lead[n].opened /\ r.flushed = lead[n].flushed
        /\ r.sent = lead[n].sent /\ r.committed = lead[n].committed /\ r.durable = lead[n].durable + 1
        /\ r.counting = lead[n].counting /\ r.job = lead[n].job /\ r.acks = lead[n].acks
        /\ r.todo = lead[n].todo /\ r.found = lead[n].found
    BY <1>0 DEF Lead
  <2> HIDE DEF r
  <2>3. lead'[n] = r /\ Others(n)
    BY <1>0, <2>1 DEF Others
  <2>4. /\ Commits(n) /\ lead[n].durable < lead[n].flushed
        /\ SameRoles /\ UNCHANGED <<bucket, fol, held, wire, acked>>
    BY <1>3 DEF NoteDurable, SameRoles
  <2> QED
    BY <2>2, <2>3, <2>4 DEF Noted, LoopSame, SameLog, SameSent, SameRound, SameAsked
<1> QED
  BY <1>1, <1>2, <1>3

\* Shrink and Count.
LEMMA RoundDoes ==
  ASSUME IInv, NEW n \in Nodes, Count(n) \/ \E live \in SUBSET Beating(n) : Shrink(n, live)
  PROVE  Shrunk(n) \/ Counted(n)
<1>0. lead \in [Nodes -> Lead] /\ lead[n] \in Lead
  BY DEF IInv, TypeOK
<1>1. CASE Count(n)
  <2> DEFINE lv == lead[n].job.live
             r == [lead[n] EXCEPT !.counting = lv, !.job = Idle]
  <2>1. lead' = [lead EXCEPT ![n] = r]
    BY <1>0, <1>1 DEF Count
  <2> HIDE DEF lv
  <2>2. /\ r.log = lead[n].log /\ r.opened = lead[n].opened /\ r.flushed = lead[n].flushed
        /\ r.sent = lead[n].sent /\ r.committed = lead[n].committed /\ r.durable = lead[n].durable
        /\ r.counting = lv /\ r.job = Idle /\ r.acks = lead[n].acks
        /\ r.todo = lead[n].todo /\ r.found = lead[n].found
    BY <1>0 DEF Lead
  <2> HIDE DEF r
  <2>3. lead'[n] = r /\ Others(n)
    BY <1>0, <2>1 DEF Others
  <2>4. /\ Leads(n) /\ lead[n].job.at = "list" /\ JobInBucket(n)
        /\ SameRoles /\ UNCHANGED <<bucket, fol, held, wire, acked>>
    BY <1>1 DEF Count, SameRoles
  <2> QED
    BY <2>2, <2>3, <2>4 DEF Counted, RoundSame, SameLog, SameSent, SameAsked, lv
<1>2. ASSUME NEW live \in SUBSET Beating(n), Shrink(n, live) PROVE Shrunk(n)
  <2> DEFINE listed == Listed(SubSeq(lead[n].log, 1, lead[n].committed))
             c == listed \cap live
             j == [at |-> "drain", live |-> live, upto |-> lead[n].committed]
             r == [lead[n] EXCEPT !.counting = c, !.job = j]
  <2>1. lead' = [lead EXCEPT ![n] = r]
    BY <1>0, <1>2 DEF Shrink
  <2>2. j.at = "drain" /\ j.live = live /\ c \subseteq live /\ c \subseteq listed
    OBVIOUS
  <2> HIDE DEF c, j
  <2>3. /\ r.log = lead[n].log /\ r.opened = lead[n].opened /\ r.flushed = lead[n].flushed
        /\ r.sent = lead[n].sent /\ r.committed = lead[n].committed /\ r.durable = lead[n].durable
        /\ r.counting = c /\ r.job = j /\ r.acks = lead[n].acks
        /\ r.todo = lead[n].todo /\ r.found = lead[n].found
    BY <1>0 DEF Lead
  <2> HIDE DEF r
  <2>4. lead'[n] = r /\ Others(n)
    BY <1>0, <2>1 DEF Others
  <2>5. /\ Leads(n) /\ lead[n].job = Idle
        /\ SameRoles /\ UNCHANGED <<bucket, fol, held, wire, acked>>
    BY <1>2 DEF Shrink, SameRoles
  <2>6. RoundSame(n)
    BY <2>3, <2>4, <2>5 DEF RoundSame, SameLog, SameSent, SameAsked
  <2> HIDE DEF listed
  <2>7. lead'[n].job.at = "drain" /\ lead'[n].counting \subseteq lead'[n].job.live /\ lead'[n].counting \subseteq listed
    BY <2>2, <2>3, <2>4
  <2> QED
    BY <2>5, <2>6, <2>7 DEF Shrunk, listed
<1> QED
  BY <1>1, <1>2

\* ReceiveAck.
LEMMA AckDoes == ASSUME IInv, NEW a \in wire, ReceiveAck(a) PROVE Received(a)
<1>0. /\ lead \in [Nodes -> Lead] /\ a.to \in Nodes /\ a.from \in Nodes
      /\ lead[a.to] \in Lead /\ lead[a.to].acks \in [Nodes -> (Nat \X Nat)]
  BY LeadFields DEF IInv, TypeOK, Ack
<1>1. wire' = wire \ {a} /\ SameRoles /\ UNCHANGED <<bucket, fol, held, acked>>
  BY DEF ReceiveAck, SameRoles
<1>2. CASE lead' = lead
  BY <1>1, <1>2 DEF Received, SameLog, SameSent, SameRound, SameAsked
<1>3. CASE lead' # lead
  <2> DEFINE x == [lead[a.to].acks EXCEPT ![a.from] = <<a.first, a.upto>>]
             r == [lead[a.to] EXCEPT !.acks = x]
  <2>1. lead' = [lead EXCEPT ![a.to] = r] /\ Leads(a.to) /\ proc[a.to].term = a.term
    BY <1>0, <1>3 DEF ReceiveAck
  <2>2. \A f \in Nodes : x[f] = IF f = a.from THEN <<a.first, a.upto>> ELSE lead[a.to].acks[f]
    BY <1>0
  <2> HIDE DEF x
  <2>3. /\ r.log = lead[a.to].log /\ r.opened = lead[a.to].opened /\ r.flushed = lead[a.to].flushed
        /\ r.sent = lead[a.to].sent /\ r.committed = lead[a.to].committed /\ r.durable = lead[a.to].durable
        /\ r.counting = lead[a.to].counting /\ r.job = lead[a.to].job /\ r.acks = x
        /\ r.todo = lead[a.to].todo /\ r.found = lead[a.to].found
    BY <1>0 DEF Lead
  <2> HIDE DEF r
  <2>4. lead'[a.to] = r /\ \A m \in Nodes : m # a.to => lead'[m] = lead[m]
    BY <1>0, <2>1
  <2>5. ASSUME NEW m \in Nodes
        PROVE  /\ SameLog(m) /\ SameSent(m) /\ SameRound(m) /\ SameAsked(m)
               /\ lead'[m].durable = lead[m].durable
               /\ \A f \in Nodes :
                    \/ lead'[m].acks[f] = lead[m].acks[f]
                    \/ /\ Leads(m) /\ a.from = f /\ a.to = m /\ a.term = proc[m].term
                       /\ lead'[m].acks[f] = <<a.first, a.upto>>
               /\ ~ Leads(m) => lead'[m] = lead[m]
    <3>1. CASE m = a.to
      BY <2>1, <2>2, <2>3, <2>4, <3>1 DEF SameLog, SameSent, SameRound, SameAsked
    <3>2. CASE m # a.to
      BY <2>4, <3>2 DEF SameLog, SameSent, SameRound, SameAsked
    <3> QED
      BY <3>1, <3>2
  <2> QED
    BY <1>1, <2>5 DEF Received
<1> QED
  BY <1>2, <1>3

\* Connect, Disconnect, Hold and Prune.
LEMMA MirrorDoes == ASSUME IInv, NEW f \in Nodes, Mirror(f) PROVE Followed(f)
<1> USE BoundsAssumption
<1> DEFINE l == LeaderOf(f)
<1>0. /\ TypeOK /\ TermInv /\ CountInv /\ FolInv
      /\ fol \in [Nodes -> Fol] /\ fol[f] \in Fol /\ held \in [Nodes -> SUBSET Copy]
  BY DEF IInv, TypeOK
<1>a. proc[f].role = "follower" /\ Leads(l)
  BY DEF Mirror, Connect, Disconnect, Hold, Prune, Connected
<1>b. /\ l \in Nodes /\ Streamed(l) \in 0 .. MaxId /\ Streamed(l) <= Len(lead[l].log)
      /\ proc[l].term \in 0 .. MaxTerm /\ proc[l].epoch \in 0 .. MaxEpoch
  BY <1>0, <1>a, StreamedType, ProcFields DEF TypeOK
<1>c. StreamSame
  BY DEF Mirror, Connect, Disconnect, Hold, Prune, StreamSame, SameRoles
<1>1. CASE Connect(f)
  <2> DEFINE t == proc[l].term
             s == Hears(f, t)
             last == IF fol[f].sterm = t THEN fol[f].last ELSE 0
  <2>1. PICK from \in (lead[l].opened + 1) .. (Streamed(l) + 1) :
           /\ fol' = [fol EXCEPT ![f].conn = proc[l].epoch, ![f].sterm = t,
                                 ![f].seen = s, ![f].last = MaxOf({from - 1, last})]
           /\ held' = [held EXCEPT ![f] = StillGood(@, t)]
    BY <1>1 DEF Connect
  <2> DEFINE mx == MaxOf({from - 1, last})
             r == [fol[f] EXCEPT !.conn = proc[l].epoch, !.sterm = t, !.seen = s, !.last = mx]
  <2> HIDE DEF mx
  <2>2. s >= fol[f].seen /\ s >= t
    <3>1. fol[f].seen \in Nat /\ proc[l].term \in Nat
      BY <1>0, <1>b, FolFields
    <3> QED
      BY <3>1, MaxOfTwo DEF Hears
  <2> HIDE DEF s
  <2>3. fol' = [fol EXCEPT ![f] = r]
    BY <2>1, <1>0 DEF mx
  <2>4. r.conn = proc[l].epoch /\ r.sterm = t /\ r.seen = s
    BY <1>0 DEF Fol
  <2> HIDE DEF r
  <2>5. fol'[f] = r /\ \A m \in Nodes : m # f => fol'[m] = fol[m]
    BY <1>0, <2>3
  <2>6. held'[f] = {c \in held[f] : c.term >= t} /\ \A m \in Nodes : m # f => held'[m] = held[m]
    BY <1>0, <2>1 DEF StillGood
  <2>7. wire' = wire
    BY <1>1 DEF Connect
  <2>8. Joined(f)
    BY <1>a, <1>b, <1>c, <2>2, <2>4, <2>5, <2>6, <2>7 DEF Joined
  <2> QED
    BY <2>8 DEF Followed
<1>2. CASE Disconnect(f)
  <2> DEFINE r == [fol[f] EXCEPT !.conn = 0]
  <2>1. fol' = [fol EXCEPT ![f] = r] /\ UNCHANGED <<held, wire>>
    BY <1>0, <1>2 DEF Disconnect
  <2>2. r.conn = 0 /\ r.sterm = fol[f].sterm /\ r.seen = fol[f].seen
    BY <1>0 DEF Fol
  <2> HIDE DEF r
  <2>3. fol'[f] = r /\ \A m \in Nodes : m # f => fol'[m] = fol[m]
    BY <1>0, <2>1
  <2>4. Dropped(f)
    BY <1>c, <2>1, <2>2, <2>3 DEF Dropped
  <2> QED
    BY <2>4 DEF Followed
<1>3. CASE Hold(f)
  <2> DEFINE t == fol[f].sterm
             i == fol[f].last + 1
             o == fol[f].run
             run == IF o[2] > 0 /\ i = o[2] + 1 THEN <<o[1], i>> ELSE <<i, i>>
             keeps == Need(l) > 0 /\ Helps(f, t)
             nrun == IF keeps THEN run ELSE o
             r == [fol[f] EXCEPT !.last = i, !.run = nrun]
             new == {[id |-> i, term |-> t, change |-> lead[l].log[i]]}
  <2>1. /\ Connected(f) /\ i <= Streamed(l)
        /\ fol' = [fol EXCEPT ![f].last = i, ![f].run = nrun]
        /\ held' = IF keeps THEN [held EXCEPT ![f] = Merge(@, new)] ELSE held
        /\ wire' = IF keeps
                   THEN wire \cup {[from |-> f, to |-> l, term |-> t, first |-> run[1], upto |-> i]}
                   ELSE wire
    BY <1>3 DEF Hold
  <2>2. i \in Ids
    <3>1. fol[f].last \in Nat
      BY <1>0, FolFields
    <3> QED
      BY <1>b, <2>1, <3>1, SMTT(60) DEF Ids
  <2>3. run[1] \in Ids
    <3>1. o[2] > 0 => o[1] \in Ids
      BY <1>0 DEF FolInv
    <3> HIDE DEF o, i
    <3> QED
      BY <2>2, <3>1
  <2> DEFINE j == run[1]
  <2>4. \E jj \in Ids : jj = j
    BY <2>3
  <2> HIDE DEF nrun, i, run
  <2>5. fol' = [fol EXCEPT ![f] = r]
    BY <1>0, <2>1
  <2>6. r.conn = fol[f].conn /\ r.sterm = fol[f].sterm /\ r.seen = fol[f].seen
    BY <1>0 DEF Fol
  <2> HIDE DEF r
  <2>7. fol'[f] = r /\ \A m \in Nodes : m # f => fol'[m] = fol[m]
    BY <1>0, <2>5
  <2>8. CASE keeps
    <3>1. i <= lead[l].sent
      BY <2>1, <2>8 DEF Streamed
    <3>2. held'[f] = Merge(held[f], new) /\ \A m \in Nodes : m # f => held'[m] = held[m]
      BY <1>0, <2>1, <2>8
    <3>3. Helps(f, t) /\ fol[f].conn = proc[l].epoch
      BY <2>1, <2>8 DEF Connected
    <3>4. wire' = wire \cup {[from |-> f, to |-> l, term |-> t, first |-> j, upto |-> i]}
      BY <2>1, <2>8
    <3> HIDE DEF j
    <3>5. Held(f, l, i, j)
      BY <1>a, <1>b, <1>c, <2>6, <2>7, <3>1, <3>2, <3>3, <3>4 DEF Held
    <3> QED
      BY <1>b, <2>2, <2>4, <3>5 DEF Followed
  <2>9. CASE ~ keeps
    <3>1. Fetched(f)
      BY <1>c, <2>1, <2>6, <2>7, <2>9 DEF Fetched
    <3> QED
      BY <3>1 DEF Followed
  <2> QED
    BY <2>8, <2>9
<1>4. CASE Prune(f)
  <2>1. held' = [held EXCEPT ![f] = @ \ Durable(f)] /\ UNCHANGED <<fol, wire>>
    BY <1>4 DEF Prune
  <2>2. held'[f] = held[f] \ Durable(f) /\ \A m \in Nodes : m # f => held'[m] = held[m]
    BY <1>0, <2>1
  <2>3. \A c \in Durable(f) : c.id <= lead[l].durable
    BY DEF Durable
  <2>4. Pruned(f)
    BY <1>a, <1>b, <1>c, <2>1, <2>2, <2>3 DEF Pruned
  <2> QED
    BY <2>4 DEF Followed
<1> QED
  BY <1>1, <1>2, <1>3, <1>4 DEF Mirror

\* Every step is one of these.
LEMMA StepDoes ==
  ASSUME IInv, [Next]_vars
  PROVE  \/ UNCHANGED vars
         \/ \E n \in Nodes : Moved(n) \/ Worked(n) \/ Followed(n)
         \/ \E a \in wire : Received(a)
<1>1. ASSUME NEW n \in Nodes, Takeover(n) \/ Recover(n) PROVE Moved(n)
  BY <1>1, EndedDoes, OpenedDoes, AskDoes, SettleDoes DEF Recover, Ask, Moved
<1>2. ASSUME NEW n \in Nodes, CommitStep(n) \/ Members(n) PROVE Worked(n)
  BY <1>2, WriteDoes, FlushDoes, LoopDoes, RoundDoes DEF CommitStep, Members, Worked
<1> QED
  BY <1>1, <1>2, MirrorDoes, AckDoes DEF Next

-----------------------------------------------------------------------------
(* The rounds of the members loop (replica::members)                       *)

\* What isn't in the bucket yet lists nobody but the round's new members; and
\* only members the bucket lists, and that stay, count.
RoundOK(r) ==
    /\ r.job.at # "list" =>
          \A i \in 1 .. Len(r.log) : i > r.durable => r.log[i].m = NoList
    /\ r.job.at = "list" =>
          /\ r.job.upto \in 1 .. Len(r.log)
          /\ r.log[r.job.upto].m = {r.job.live}
          /\ \A i \in 1 .. Len(r.log) :
                i > r.job.upto \/ (i > r.durable /\ i # r.job.upto) => r.log[i].m = NoList
    /\ r.job.at # "idle" => r.counting \subseteq r.job.live
    /\ r.counting \subseteq ListedTo(r.log, r.flushed)

\* (A node that doesn't lead has no round, and counts nobody.)
RoundInv ==
    \A n \in Nodes :
        /\ ~ Leads(n) => lead[n].counting = {} /\ lead[n].job = Idle
        /\ Leads(n) => RoundOK(lead[n])

\* A leader's numbers and log, as the proofs use them.
LEMMA LeadNumbers ==
  ASSUME TypeOK, CountInv, NEW n \in Nodes
  PROVE  /\ lead[n] \in Lead /\ lead[n].log \in Seq(Change) /\ Len(lead[n].log) \in Nat
         /\ lead[n].opened \in Nat /\ lead[n].sent \in Nat /\ lead[n].committed \in Nat
         /\ lead[n].flushed \in Nat /\ lead[n].durable \in Nat
         /\ lead[n].durable <= lead[n].committed /\ lead[n].durable <= lead[n].flushed
         /\ lead[n].committed <= lead[n].sent /\ lead[n].sent <= lead[n].committed + 1
         /\ lead[n].sent <= Len(lead[n].log) /\ lead[n].flushed <= Len(lead[n].log)
         /\ Len(lead[n].log) <= MaxId
<1>1. lead[n] \in Lead /\ CountOK(lead[n])
  BY DEF TypeOK, CountInv
<1> QED
  BY <1>1, LeadFields, BoundsAssumption, SMTT(60) DEF CountOK

\* The loop that writes keeps the round's invariant: Write and List,
LEMMA RoundWrote ==
  ASSUME IInv, RoundInv, NEW n \in Nodes, NEW w \in Change, Wrote(n, w)
  PROVE  RoundOK(lead'[n])
<1> DEFINE r == lead[n]
           s == lead'[n]
<1>0. /\ r.log \in Seq(Change) /\ Len(r.log) \in Nat /\ r.flushed \in Nat /\ r.durable \in Nat
      /\ r.flushed <= Len(r.log) /\ r.durable <= r.flushed
  BY LeadNumbers DEF IInv
<1>1. RoundOK(r)
  BY DEF RoundInv, Wrote
<1>2. /\ s.log = Append(r.log, w) /\ s.flushed = r.flushed /\ s.durable = r.durable
      /\ s.counting = r.counting
  BY DEF Wrote
<1>3. /\ Len(s.log) = Len(r.log) + 1 /\ s.log[Len(r.log) + 1] = w
      /\ \A i \in 1 .. Len(r.log) : s.log[i] = r.log[i]
  BY <1>0, <1>2
<1>4. s.counting \subseteq ListedTo(s.log, s.flushed)
  <2>1. ListedTo(s.log, s.flushed) = ListedTo(r.log, r.flushed)
    <3>1. r.flushed \in Nat /\ \A i \in 1 .. r.flushed : r.log[i] = s.log[i]
      BY <1>0, <1>3
    <3>2. ListedTo(r.log, r.flushed) = ListedTo(s.log, r.flushed)
      <4> HIDE DEF r, s
      <4> QED
        BY <3>1, ListedToSame
    <3> QED
      BY <1>2, <3>2
  <2> QED
    BY <1>1, <1>2, <2>1 DEF RoundOK
<1>5. CASE w.m = NoList /\ s.job = r.job
  <2>1. RoundOK(s)
    <3> HIDE DEF r, s
    <3>1. /\ Len(s.log) = Len(r.log) + 1
          /\ \A i \in 1 .. Len(s.log) : s.log[i].m = NoList \/ (i \in 1 .. Len(r.log) /\ s.log[i] = r.log[i])
      BY <1>0, <1>3, <1>5, SMTT(60)
    <3>2. CASE r.job.at # "list"
      BY <1>1, <1>2, <1>4, <1>5, <3>1, <3>2 DEF RoundOK
    <3>3. CASE r.job.at = "list"
      <4>1. /\ r.job.upto \in 1 .. Len(r.log) /\ r.log[r.job.upto].m = {r.job.live}
            /\ \A i \in 1 .. Len(r.log) :
                  i > r.job.upto \/ (i > r.durable /\ i # r.job.upto) => r.log[i].m = NoList
        BY <1>1, <3>3 DEF RoundOK
      <4>2. s.job.upto \in 1 .. Len(s.log) /\ s.log[s.job.upto].m = {s.job.live}
        <5>1. PICK u \in 1 .. Len(r.log) : u = r.job.upto /\ u = s.job.upto
          BY <1>5, <4>1
        <5>2. s.log[u] = r.log[u]
          BY <1>3
        <5>3. u \in 1 .. Len(s.log)
          BY <1>0, <3>1
        <5> QED
          BY <1>5, <4>1, <5>1, <5>2, <5>3
      <4>3. \A i \in 1 .. Len(s.log) :
               i > s.job.upto \/ (i > s.durable /\ i # s.job.upto) => s.log[i].m = NoList
        BY <1>2, <1>5, <3>1, <4>1
      <4> QED
        BY <1>1, <1>2, <1>4, <1>5, <3>3, <4>2, <4>3 DEF RoundOK
    <3> QED
      BY <3>2, <3>3
  <2> QED
    BY <2>1
<1>6. CASE /\ w.m = {r.job.live}
           /\ r.job.at = "drain" /\ s.job.at = "list"
           /\ s.job.live = r.job.live
           /\ s.job.upto = Len(r.log) + 1
  BY <1>0, <1>1, <1>2, <1>3, <1>4, <1>6, SMTT(60) DEF RoundOK
<1> QED
  BY <1>5, <1>6 DEF Wrote

\* ... Flush,
LEMMA RoundFlushed ==
  ASSUME IInv, RoundInv, NEW n \in Nodes, Leads(n), Flushed(n)
  PROVE  RoundOK(lead'[n])
<1> DEFINE r == lead[n]
           s == lead'[n]
           k == r.flushed + 1
<1>0. /\ r.log \in Seq(Change) /\ Len(r.log) \in Nat /\ r.flushed \in Nat /\ r.durable \in Nat
      /\ r.flushed < Len(r.log) /\ r.durable <= r.flushed /\ r.job \in Job
  BY LeadNumbers, LeadFields DEF IInv, Flushed
<1>1. RoundOK(r)
  BY DEF RoundInv
<1>2. /\ s.log = r.log /\ s.flushed = k /\ s.durable = r.durable
      /\ s.counting = r.counting /\ s.job = r.job
  BY DEF Flushed, SameRound
<1>3. CASE r.job.at = "list" /\ k = r.job.upto
  <2>1. ListedTo(r.log, k) = r.job.live
    <3>1. r.log[k].m = {r.job.live} /\ k \in 1 .. k
      BY <1>0, <1>1, <1>3, SMTT(60) DEF RoundOK
    <3>2. k \in Nat /\ \A i \in (k + 1) .. k : r.log[i].m = NoList
      BY <1>0
    <3> HIDE DEF k, r
    <3> QED
      BY <3>1, <3>2, ListedToLast
  <2>2. r.counting \subseteq r.job.live
    BY <1>1, <1>3 DEF RoundOK
  <2> QED
    BY <1>1, <1>2, <2>1, <2>2 DEF RoundOK
<1>4. CASE ~ (r.job.at = "list" /\ k = r.job.upto)
  <2>1. r.log[k].m = NoList
    <3>1. k \in 1 .. Len(r.log) /\ k > r.durable
      BY <1>0
    <3> HIDE DEF k, r
    <3>2. CASE r.job.at # "list"
      BY <1>1, <3>1, <3>2 DEF RoundOK
    <3>3. CASE r.job.at = "list" /\ k # r.job.upto
      BY <1>1, <3>1, <3>3 DEF RoundOK
    <3> QED
      BY <1>4, <3>2, <3>3
  <2>2. ListedTo(r.log, r.flushed) = ListedTo(r.log, k)
    <3>1. \A i \in (r.flushed + 1) .. k : r.log[i].m = NoList
      BY <1>0, <2>1
    <3> QED
      BY <1>0, <3>1, ListedToLonger
  <2> QED
    BY <1>1, <1>2, <2>2 DEF RoundOK
<1> QED
  BY <1>3, <1>4

\* ... NoteDurable, Stream and Commit,
LEMMA RoundLoop ==
  ASSUME IInv, RoundInv, NEW n \in Nodes, Leads(n), Sent(n) \/ Confirmed(n) \/ Noted(n)
  PROVE  RoundOK(lead'[n])
<1>0. lead[n].durable \in Nat /\ lead[n].log \in Seq(Change) /\ Len(lead[n].log) \in Nat
  BY LeadNumbers DEF IInv
<1>1. RoundOK(lead[n])
  BY DEF RoundInv
<1>2. /\ lead'[n].log = lead[n].log /\ lead'[n].flushed = lead[n].flushed
      /\ lead'[n].counting = lead[n].counting /\ lead'[n].job = lead[n].job
      /\ lead'[n].durable \in Nat /\ lead'[n].durable >= lead[n].durable
  BY <1>0, SMTT(60) DEF Sent, Confirmed, Noted, LoopSame, SameLog, SameRound
<1> QED
  BY <1>0, <1>1, <1>2 DEF RoundOK

\* ... Shrink and Count.
LEMMA RoundRound ==
  ASSUME IInv, RoundInv, NEW n \in Nodes, Shrunk(n) \/ Counted(n)
  PROVE  RoundOK(lead'[n])
<1> DEFINE r == lead[n]
           s == lead'[n]
<1>0. /\ r.log \in Seq(Change) /\ Len(r.log) \in Nat /\ r.flushed \in Nat /\ r.durable \in Nat
      /\ r.committed \in Nat /\ r.sent <= Len(r.log) /\ r.committed <= r.sent /\ r.sent \in Nat
      /\ r.flushed <= Len(r.log) /\ r.durable <= r.flushed /\ r.durable <= r.committed /\ r.job \in Job
  BY LeadNumbers, LeadFields DEF IInv
<1>1. RoundOK(r)
  BY DEF RoundInv, Shrunk, Counted, RoundSame
<1>2. s.log = r.log /\ s.flushed = r.flushed /\ s.durable = r.durable
  BY DEF Shrunk, Counted, RoundSame, SameLog
<1>3. CASE Shrunk(n)
  <2>1. /\ r.job = Idle /\ s.job.at = "drain" /\ s.counting \subseteq s.job.live
        /\ s.counting \subseteq Listed(SubSeq(r.log, 1, r.committed))
    BY <1>3 DEF Shrunk
  <2>2. \A i \in 1 .. Len(r.log) : i > r.durable => r.log[i].m = NoList
    BY <1>1, <2>1 DEF RoundOK, Idle
  <2>3. Listed(SubSeq(r.log, 1, r.committed)) = ListedTo(r.log, r.committed)
    BY <1>0, ListedIsTo
  <2>4. /\ ListedTo(r.log, r.durable) = ListedTo(r.log, r.committed)
        /\ ListedTo(r.log, r.durable) = ListedTo(r.log, r.flushed)
    <3> HIDE DEF r
    <3>1. /\ \A i \in (r.durable + 1) .. r.committed : r.log[i].m = NoList
          /\ \A i \in (r.durable + 1) .. r.flushed : r.log[i].m = NoList
      <4>1. /\ \A i \in (r.durable + 1) .. r.committed : i \in 1 .. Len(r.log) /\ i > r.durable
            /\ \A i \in (r.durable + 1) .. r.flushed : i \in 1 .. Len(r.log) /\ i > r.durable
        <5>1. /\ r.durable \in Nat /\ r.committed \in Nat /\ r.flushed \in Nat /\ Len(r.log) \in Nat
              /\ r.committed <= Len(r.log) /\ r.flushed <= Len(r.log)
          BY <1>0
        <5> QED
          BY ONLY <5>1
      <4> QED
        BY <2>2, <4>1
    <3> QED
      BY <1>0, <3>1, ListedToLonger
  <2> QED
    BY <1>2, <2>1, <2>2, <2>3, <2>4 DEF RoundOK
<1>4. CASE Counted(n)
  <2>1. /\ r.job.at = "list" /\ r.durable >= r.job.upto
        /\ s.job = Idle /\ s.counting = r.job.live
    BY <1>4 DEF Counted, JobInBucket
  <2>2. /\ r.job.upto \in 1 .. Len(r.log) /\ r.log[r.job.upto].m = {r.job.live}
        /\ \A i \in 1 .. Len(r.log) : i > r.job.upto => r.log[i].m = NoList
    BY <1>1, <2>1 DEF RoundOK
  <2>3. ListedTo(r.log, r.flushed) = r.job.live
    <3>1. r.job.upto \in 1 .. r.flushed
      BY <1>0, <2>1, <2>2
    <3>2. \A i \in (r.job.upto + 1) .. r.flushed : r.log[i].m = NoList
      BY <1>0, <2>2, SMTT(60)
    <3> QED
      BY <1>0, <2>2, <3>1, <3>2, ListedToLast, ZenonT(60)
  <2>4. \A i \in 1 .. Len(r.log) : i > r.durable => r.log[i].m = NoList
    BY <1>0, <2>1, <2>2
  <2>5. s.job.at = "idle"
    BY <2>1 DEF Idle
  <2> QED
    BY <1>2, <2>1, <2>3, <2>4, <2>5 DEF RoundOK
<1> QED
  BY <1>3, <1>4

\* Every step keeps RoundInv.
LEMMA RoundStep == IInv /\ RoundInv /\ [Next]_vars => RoundInv'
<1> SUFFICES ASSUME IInv, RoundInv, [Next]_vars PROVE RoundInv'
  OBVIOUS
<1> DEFINE Fine(n) == /\ ~ Leads(n)' => lead'[n].counting = {} /\ lead'[n].job = Idle
                      /\ Leads(n)' => RoundOK(lead'[n])
<1>a. ASSUME NEW n \in Nodes, Fine(n),
             \A m \in Nodes : m # n => proc'[m] = proc[m] /\ lead'[m] = lead[m]
      PROVE  RoundInv'
  <2>1. \A m \in Nodes : m # n => Fine(m)
    BY <1>a DEF RoundInv, Leads
  <2> QED
    BY <1>a, <2>1 DEF RoundInv
<1>b. ASSUME NEW n \in Nodes, SameRound(n), SameLog(n), lead'[n].durable = lead[n].durable, proc' = proc
      PROVE  Fine(n)
  BY <1>b DEF RoundInv, RoundOK, SameRound, SameLog, Leads
<1>1. ASSUME NEW n \in Nodes, Moved(n) PROVE RoundInv'
  <2>1. ASSUME NEW p \in Proc, Ended(n, p) PROVE RoundInv'
    <3>1. lead'[n] = NoLead /\ ~ Leads(n)'
      BY <2>1 DEF Ended, Leads
    <3>2. Fine(n)
      BY <3>1 DEF NoLead
    <3> QED
      BY <1>a, <2>1, <3>2 DEF Ended, Others
  <2>2. CASE Opened(n)
    <3>1. Fine(n)
      BY <2>2 DEF Opened, Leads
    <3> QED
      BY <1>a, <2>2, <3>1 DEF Opened, Others
  <2>3. ASSUME NEW p \in Nodes, Answered(n, p) PROVE RoundInv'
    <3>1. Fine(n)
      BY <2>3 DEF Answered, SameRound, SameRoles, RoundInv, Leads
    <3> QED
      BY <1>a, <2>3, <3>1 DEF Answered, Others, SameRoles
  <2>4. ASSUME NEW p \in Nodes, Skipped(n, p) PROVE RoundInv'
    <3>1. Fine(n)
      BY <1>b, <2>4 DEF Skipped, SameRoles
    <3> QED
      BY <1>a, <2>4, <3>1 DEF Skipped, Others, SameRoles
  <2>5. CASE Rewrote(n)
    <3>1. Fine(n)
      BY <2>5 DEF Rewrote, SameRound, RoundInv, Leads
    <3> QED
      BY <1>a, <2>5, <3>1 DEF Rewrote, Others
  <2>6. CASE Served(n)
    <3>1. /\ lead' = lead /\ lead[n].counting = {} /\ lead[n].job = Idle
          /\ lead[n].durable >= Len(lead[n].log)
      BY <2>6 DEF Served, RoundInv, Leads
    <3>2. lead[n].durable \in Nat /\ Len(lead[n].log) \in Nat
      BY LeadNumbers DEF IInv
    <3>3. RoundOK(lead[n])
      BY <3>1, <3>2 DEF RoundOK, Idle
    <3>4. Fine(n)
      BY <2>6, <3>1, <3>3 DEF Served, Leads
    <3> QED
      BY <1>a, <2>6, <3>4 DEF Served
  <2> QED
    BY <1>1, <2>1, <2>2, <2>3, <2>4, <2>5, <2>6 DEF Moved
<1>2. ASSUME NEW n \in Nodes, Worked(n) PROVE RoundInv'
  <2>1. /\ proc' = proc
        /\ \A m \in Nodes : m # n => lead'[m] = lead[m]
    BY <1>2 DEF Worked, Wrote, Flushed, Sent, Confirmed, Noted, LoopSame, Shrunk, Counted,
                RoundSame, Others, SameRoles
  <2>2. CASE Leads(n)
    <3>1. RoundOK(lead'[n])
      BY <1>2, <2>2, RoundWrote, RoundFlushed, RoundLoop, RoundRound DEF Worked
    <3>2. Fine(n)
      BY <2>1, <2>2, <3>1 DEF Leads
    <3> QED
      BY <1>a, <2>1, <3>2
  <2>3. CASE ~ Leads(n)
    <3>1. SameRound(n)
      BY <1>2, <2>3 DEF Worked, Wrote, Flushed, Sent, Confirmed, Noted, LoopSame, Shrunk, Counted, RoundSame
    <3>2. Fine(n)
      BY <2>1, <2>3, <3>1 DEF SameRound, RoundInv, Leads
    <3> QED
      BY <1>a, <2>1, <3>2
  <2> QED
    BY <2>2, <2>3
<1>3. ASSUME NEW n \in Nodes, Followed(n) PROVE RoundInv'
  <2>1. proc' = proc /\ lead' = lead
    BY <1>3 DEF Followed, Joined, Dropped, Fetched, Pruned, Held, StreamSame, SameRoles
  <2> QED
    BY <2>1 DEF RoundInv, Leads
<1>4. ASSUME NEW a \in wire, Received(a) PROVE RoundInv'
  <2>1. \A n \in Nodes : Fine(n)
    BY <1>4, <1>b DEF Received, SameRoles
  <2> QED
    BY <2>1 DEF RoundInv
<1>5. CASE UNCHANGED vars
  BY <1>5 DEF RoundInv, Leads, vars
<1> QED
  BY <1>1, <1>2, <1>3, <1>4, <1>5, StepDoes

\* The rounds' invariant holds always, as does what it rests on.
LEMMA RoundAlways == Spec => [](IInv /\ RoundInv)
<1>1. Init => RoundInv
  BY DEF Init, RoundInv, Leads, NoLead
<1>2. IInv /\ [Next]_vars => IInv'
  BY TypeStep, TermStep, EpochStep, OpeningStep, CountStep, BucketStep, FolStep, OlderStep DEF IInv
<1> QED
  BY <1>1, <1>2, InitIInv, RoundStep, PTL DEF Spec

\* Only members the bucket lists count towards committing at a leader that the
\* bucket doesn't refuse, however the rounds of the members loop, the commits
\* and the takeovers interleave (replica::members).
THEOREM ListedCounted == Spec => []ListedBeforeCounted
<1>1. IInv /\ RoundInv => ListedBeforeCounted
  <2> SUFFICES ASSUME IInv, RoundInv, NEW n \in Nodes, Unfenced(n)
               PROVE  lead[n].counting \subseteq Listed(bucket)
    BY DEF ListedBeforeCounted
  <2>1. CASE ~ Leads(n)
    BY <2>1 DEF RoundInv
  <2>2. CASE Leads(n)
    <3>1. proc[n].epoch > 0
      BY <2>2 DEF IInv, EpochInv, InCharge, Leads
    <3>2. /\ Len(bucket) = lead[n].flushed
          /\ \A i \in 1 .. Len(bucket) : bucket[i] = lead[n].log[i]
      BY <3>1 DEF IInv, BucketInv
    <3>3. bucket \in Seq(Change) /\ Len(bucket) \in Nat
      BY DEF IInv, TypeOK
    <3>4. ListedTo(bucket, Len(bucket)) = ListedTo(lead[n].log, lead[n].flushed)
      BY <3>2, <3>3, ListedToSame
    <3>5. Listed(bucket) = ListedTo(bucket, Len(bucket))
      BY <3>3, ListedIsTo
    <3> QED
      BY <2>2, <3>4, <3>5 DEF RoundInv, RoundOK
  <2> QED
    BY <2>1, <2>2
<1> QED
  BY <1>1, RoundAlways, PTL
==============================================================================
