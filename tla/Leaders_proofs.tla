--------------------------- MODULE Leaders_proofs ---------------------------
(***************************************************************************)
(* Why no acknowledged change is lost or replaced, on any number of nodes   *)
(* and for any bounds, where every recovery gets every member's answer      *)
(* (MaxSkips = 0), a claimer opens the catalog before a newer term is       *)
(* claimed (~ LateOpen), and no leader that takes writes restarts in place  *)
(* (`InPlace` never happens): each of the three is needed, see README.md.   *)
(*                                                                         *)
(* The argument.  A change beyond the bucket is *chosen* once it is         *)
(* acknowledged, or as soon as the copy that will make its leader           *)
(* acknowledge it is counted or on its way.  A copy is *firm* when no copy  *)
(* beyond the bucket and no leader is of a newer term.  Every chosen change *)
(* has a firm copy at a member of each list the next leader may read        *)
(* (KeepInv); a copy's term says which change it is (CopyInv), so two       *)
(* chosen changes never share a number.  A new leader asks everyone who     *)
(* helps an older one (HelpInv), so what it finds holds every chosen        *)
(* change (FoundInv), and so does what it writes again (LogInv).            *)
(***************************************************************************)
EXTENDS ReplicatedCommit_proofs

-----------------------------------------------------------------------------
(* Notions                                                                 *)

T(l) == proc[l].term

\* A leader that takes writes restarts in place, under its own term.
InPlace == \E n \in Nodes : Leads(n) /\ TakeBack(n)

\* A copy, in a replica file or collected by a recovery.
IsCopy(c) == (\E f \in Nodes : c \in held[f]) \/ (\E n \in Nodes : c \in lead[n].found)

\* Not in the bucket yet.
Beyond(i) == i > Len(bucket)

\* The members as the changes l flushed list them, and those that count, or
\* will once it notes them.
Base(l) == ListedTo(lead[l].log, lead[l].flushed)
Counters(l) ==
    IF lead[l].job.at = "list" /\ lead[l].flushed < lead[l].job.upto THEN lead[l].counting ELSE Base(l)

\* f acknowledged a run up to i to l, which had it or is about to.
Told(l, f, i) ==
    \/ lead[l].acks[f][2] = i
    \/ \E a \in wire : a.from = f /\ a.to = l /\ a.term = T(l) /\ a.upto = i

\* The next change of l, and whether a counted copy of it was acknowledged.
NextOf(l) == [id |-> lead[l].sent, change |-> lead[l].log[lead[l].sent]]
Backed(l) ==
    /\ Leads(l) /\ lead[l].sent > lead[l].committed
    /\ \E f \in Counters(l) : Told(l, f, lead[l].sent)

Chosen(p) ==
    /\ Beyond(p.id)
    /\ p \in acked \/ \E l \in Nodes : Backed(l) /\ p = NextOf(l)

\* f may still acknowledge changes to l; l may still get changes chosen.
Helping(f, l) == proc[f].role = "follower" /\ LeaderOf(f) = l /\ Helps(f, T(l))
Able(l) == proc[l].epoch > 0 /\ (Unfenced(l) \/ \E f \in Base(l) : Helping(f, l))

\* A copy of term t beyond the bucket is firm.
Top(t) ==
    /\ \A e \in Copy : IsCopy(e) /\ Beyond(e.id) => e.term <= t
    /\ \A l \in Nodes : Leads(l) => T(l) <= t

Of(c, p)  == c.id = p.id /\ c.change = p.change
Has(f, p) == \E c \in held[f] : Of(c, p) /\ Top(c.term)

-----------------------------------------------------------------------------
(* Who leads, who follows, who holds what                                  *)

\* One copy of a change in a replica file, and in what a recovery found.
UniqueInv ==
    /\ \A f \in Nodes : \A c, e \in held[f] : c.id = e.id => c = e
    /\ \A n \in Nodes : \A c, e \in lead[n].found : c.id = e.id => c = e

\* Nobody claims a term while leading one; the newest leader isn't fenced.
OwnerInv ==
    \A n \in Nodes :
        /\ proc[n].role \in InCharge \cup {"opening"} => \A t \in (T(n) + 1) .. Len(owner) : owner[t] # n
        /\ proc[n].epoch > 0 /\ T(n) = Len(owner) => Unfenced(n)

\* The bucket's fence goes by the terms.
OrderInv ==
    \A n, p \in Nodes :
        proc[n].epoch > 0 /\ proc[p].epoch > 0 => (T(n) < T(p) <=> proc[n].epoch < proc[p].epoch)

\* The stream a follower reads is of the term it says, and it has heard of
\* that term and of those of its copies.
ConnInv ==
    \A f \in Nodes :
        /\ fol[f].conn <= fence
        /\ \A l \in Nodes : proc[l].epoch > 0 /\ fol[f].conn = proc[l].epoch => fol[f].sterm = T(l)
        /\ fol[f].conn > 0 => fol[f].sterm <= fol[f].seen
        /\ \A c \in held[f] : c.term <= fol[f].seen

\* What a node has at each stage of leading.
StageInv ==
    \A n \in Nodes :
        /\ proc[n].role \notin InCharge => lead[n] = NoLead
        /\ proc[n].role = "recovering" =>
              /\ Len(lead[n].log) = lead[n].opened /\ lead[n].flushed = lead[n].opened
              /\ lead[n].committed = lead[n].opened /\ lead[n].sent = lead[n].opened
              /\ \A c \in lead[n].found : c.id > lead[n].opened
        /\ proc[n].role # "recovering" => lead[n].found = {}
        /\ ~ Leads(n) => lead[n].acks = NoLead.acks
        /\ lead[n].opened <= lead[n].flushed

\* An older leader flushed nothing the newer one didn't find in the bucket.
LateInv ==
    \A n, p \in Nodes :
        proc[p].epoch > 0 /\ proc[p].epoch < proc[n].epoch => lead[p].flushed <= lead[n].opened

\* A number and a term say which change it is.
CopyInv ==
    \A c, e \in Copy : IsCopy(c) /\ IsCopy(e) /\ c.id = e.id /\ c.term = e.term => c.change = e.change

\* A copy's term was claimed; its leader streamed the change; and there is no
\* copy of a term whose leader doesn't serve yet, nor of a newer one than that
\* of a leader that may still get changes chosen.
TermsInv ==
    \A c \in Copy : IsCopy(c) =>
        /\ c.term <= Len(owner)
        /\ \A n \in Nodes :
              /\ Leads(n) /\ c.term = T(n) => c.id <= lead[n].sent /\ c.change = lead[n].log[c.id]
              /\ proc[n].role \in {"opening", "recovering", "settling"} => c.term # T(n)
              /\ Able(n) => c.term <= T(n)

\* ... nor an acknowledgement of such a term.
WireInv ==
    \A a \in wire :
        /\ a.term <= Len(owner)
        /\ proc[a.to].role \in {"opening", "recovering", "settling"} => a.term # T(a.to)

\* A member that still helps an older leader is yet to be asked by every newer
\* one.
HelpInv ==
    \A k, l, f \in Nodes :
        proc[k].epoch > 0 /\ proc[l].epoch > 0 /\ T(l) < T(k) /\ f \in Base(l) /\ Helping(f, l)
            => proc[k].role = "recovering" /\ f \in lead[k].todo

\* What a leader flushed is in the bucket, and the bucket has no more than
\* that while the leader may still get changes chosen.
PrefixInv ==
    \A n \in Nodes :
        /\ lead[n].flushed <= Len(bucket)
        /\ \A i \in 1 .. lead[n].flushed : bucket[i] = lead[n].log[i]
AbleInv == \A l \in Nodes : Able(l) => lead[l].flushed = Len(bucket)

-----------------------------------------------------------------------------
(* What is chosen, and who has it                                          *)

\* What a leader was told of it streamed; and a member that counts, or may
\* come to count, holds it.
TellInv ==
    \A l, f \in Nodes, i \in Nat : Leads(l) /\ i > 0 /\ Told(l, f, i) =>
        /\ i <= lead[l].sent
        /\ (f \in Counters(l) \/ Unfenced(l)) /\ Beyond(i) =>
              \E c \in held[f] : c.id = i /\ c.term = T(l)

\* What a leader committed is in the bucket or acknowledged.
CommittedInv ==
    \A l \in Nodes :
        /\ \A i \in 1 .. lead[l].committed :
              /\ i <= Len(bucket) => bucket[i] = lead[l].log[i]
              /\ Beyond(i) => [id |-> i, change |-> lead[l].log[i]] \in acked
        /\ Backed(l) /\ lead[l].sent <= Len(bucket) => bucket[lead[l].sent] = lead[l].log[lead[l].sent]

\* A leader with a change chosen beyond the bucket is the newest with a copy.
Far(l) == lead[l].committed > Len(bucket) \/ (Backed(l) /\ Beyond(lead[l].sent))
OnlyInv ==
    \A l \in Nodes : Leads(l) /\ Far(l) =>
        /\ \A c \in Copy : IsCopy(c) /\ Beyond(c.id) => c.term <= T(l)
        /\ \A k \in Nodes : Leads(k) => T(k) <= T(l)

\* Every chosen change has a firm copy at a member the bucket lists, and at one
\* of each list chosen before it; and no number before it is open.
KeepInv ==
    \A p \in Placed : Chosen(p) =>
        /\ \E f \in Listed(bucket) : Has(f, p)
        /\ \A q \in Placed : Chosen(q) /\ q.id < p.id /\ q.change.m # NoList =>
              \E f \in UNION q.change.m : Has(f, p)
        /\ \A i \in (Len(bucket) + 1) .. (p.id - 1) : \E a \in acked : a.id = i

\* The leader the bucket doesn't refuse has it in its log once it wrote again
\* what it found; before that, among what it found or has yet to ask for.
LogInv ==
    \A w \in Nodes : Commits(w) /\ Unfenced(w) =>
        \A p \in Placed : Chosen(p) => p.id <= Len(lead[w].log) /\ lead[w].log[p.id] = p.change
FoundInv ==
    \A k \in Nodes : proc[k].role = "recovering" /\ Unfenced(k) =>
        \A p \in Placed : Chosen(p) =>
            \/ \E f \in lead[k].todo : Has(f, p)
            \/ \E c \in lead[k].found : Of(c, p) /\ Top(c.term)

\* A recovery that went on, but that the bucket refuses by now, never gets to
\* serve: it has something to write again that it can't.
Stops(k) ==
    \/ /\ proc[k].role = "settling"
       /\ lead[k].flushed < Len(lead[k].log)
    \/ /\ proc[k].role = "recovering"
       /\ \/ \E c \in lead[k].found : c.id = lead[k].opened + 1
          \/ \E f \in lead[k].todo : \E c \in held[f] : c.id = lead[k].opened + 1 /\ Top(c.term)
StopInv ==
    \A k, f \in Nodes, p \in Placed : \A c \in held[f] :
        /\ proc[k].role \in {"recovering", "settling"}
        /\ Chosen(p) /\ Of(c, p) /\ Top(c.term) /\ c.term < T(k)
        => Stops(k)

-----------------------------------------------------------------------------
(* The invariant, and the steps considered                                 *)

WhoInv == /\ UniqueInv /\ OwnerInv /\ OrderInv /\ ConnInv /\ StageInv /\ LateInv
          /\ CopyInv /\ TermsInv /\ WireInv /\ HelpInv /\ PrefixInv /\ AbleInv
WhatInv == /\ TellInv /\ CommittedInv /\ OnlyInv /\ KeepInv /\ LogInv /\ FoundInv /\ StopInv
           /\ AckedInBucket
DInv == IInv /\ RoundInv /\ WhoInv /\ WhatInv

MovesOn(n) ==
    \/ \E p \in Proc : Ended(n, p) /\ (p.role = "opening" /\ owner' = owner => ~ Leads(n))
    \/ Opened(n)
    \/ \E p \in Nodes : Answered(n, p)
    \/ Rewrote(n)
    \/ Served(n)
Goes ==
    \/ UNCHANGED vars
    \/ \E n \in Nodes : MovesOn(n) \/ Worked(n) \/ Followed(n)
    \/ \E a \in wire : Received(a)

\* The three conditions, as the steps below use them.
Sound == MaxSkips = 0 /\ ~ LateOpen

LEMMA StepGoes ==
  ASSUME Sound, IInv, [Next]_vars, [~ InPlace]_vars
  PROVE  Goes
<1>1. \A n, p \in Nodes : ~ Skipped(n, p)
  <2> SUFFICES ASSUME NEW n \in Nodes, NEW p \in Nodes, Skipped(n, p) PROVE FALSE
    OBVIOUS
  <2>1. lead[n].skipped \in Nat
    BY LeadFields DEF IInv, TypeOK
  <2> QED
    BY <2>1 DEF Skipped, Sound
<1>2. CASE UNCHANGED vars
  BY <1>2 DEF Goes
<1>3. CASE ~ InPlace
  <2>1. ASSUME NEW n \in Nodes, NEW p \in Proc, Ended(n, p), p.role = "opening", owner' = owner
        PROVE  ~ Leads(n)
    <3>1. owner \in Seq(Nodes)
      BY DEF IInv, TypeOK
    <3>2. Append(owner, n) # owner
      BY <3>1
    <3>3. TakeBack(n)
      BY <2>1, <3>2 DEF Ended
    <3> QED
      BY <1>3, <3>3 DEF InPlace
  <2>2. ASSUME NEW n \in Nodes, Moved(n) PROVE MovesOn(n)
    BY <1>1, <2>1, <2>2 DEF Moved, MovesOn
  <2> QED
    BY <2>2, StepDoes DEF Goes
<1> QED
  BY <1>2, <1>3

-----------------------------------------------------------------------------
(* Types and numbers, now and after a step                                 *)

Types ==
    /\ bucket \in Seq(Change) /\ Len(bucket) \in Nat /\ fence \in Nat
    /\ owner \in Seq(Nodes) /\ Len(owner) \in Nat
    /\ \A n \in Nodes :
          /\ proc[n].role \in Roles /\ proc[n].term \in Nat /\ proc[n].epoch \in Nat
          /\ fol[n].seen \in Nat /\ fol[n].conn \in Nat /\ fol[n].sterm \in Nat
          /\ held[n] \subseteq Copy /\ lead[n].found \subseteq Copy
          /\ lead[n].todo \subseteq Nodes /\ lead[n].counting \subseteq Nodes
    /\ wire \subseteq Ack /\ acked \subseteq Placed
Numbers ==
    \A n \in Nodes :
        /\ lead[n].log \in Seq(Change) /\ Len(lead[n].log) \in Nat
        /\ lead[n].opened \in Nat /\ lead[n].sent \in Nat /\ lead[n].committed \in Nat
        /\ lead[n].flushed \in Nat /\ lead[n].durable \in Nat
        /\ lead[n].durable <= lead[n].committed /\ lead[n].durable <= lead[n].flushed
        /\ lead[n].committed <= lead[n].sent /\ lead[n].sent <= lead[n].committed + 1
        /\ lead[n].sent <= Len(lead[n].log) /\ lead[n].flushed <= Len(lead[n].log)
        /\ Len(lead[n].log) <= MaxId

\* (The record types, field by field.)
LEMMA CopyFields == \A c \in Copy : c.id \in Nat /\ c.id > 0 /\ c.id <= MaxId /\ c.term \in Nat /\ c.term > 0 /\ c.change \in Change
  BY BoundsAssumption DEF Copy, Ids, Terms
LEMMA AckFields == \A a \in Ack : a.from \in Nodes /\ a.to \in Nodes /\ a.term \in Nat /\ a.upto \in Nat /\ a.upto > 0
  BY BoundsAssumption DEF Ack, Ids, Terms
LEMMA PlacedFields == \A p \in Placed : p.id \in Nat /\ p.id > 0 /\ p.id <= MaxId /\ p.change \in Change
  BY BoundsAssumption DEF Placed, Ids
LEMMA NoLeadFields ==
  /\ NoLead.acks = [f \in Nodes |-> None] /\ NoLead.found = {} /\ NoLead.counting = {} /\ NoLead.job = Idle
  /\ NoLead.log = <<>> /\ NoLead.opened = 0 /\ NoLead.flushed = 0 /\ NoLead.sent = 0
  /\ NoLead.committed = 0 /\ NoLead.todo = {}
  BY DEF NoLead

LEMMA TypesHold == IInv => Types /\ Numbers
<1> SUFFICES ASSUME IInv PROVE Types /\ Numbers
  OBVIOUS
<1>0. TypeOK /\ CountInv
  BY DEF IInv
<1>1. Numbers
  <2> SUFFICES ASSUME NEW n \in Nodes
               PROVE  /\ lead[n].log \in Seq(Change) /\ Len(lead[n].log) \in Nat
                      /\ lead[n].opened \in Nat /\ lead[n].sent \in Nat /\ lead[n].committed \in Nat
                      /\ lead[n].flushed \in Nat /\ lead[n].durable \in Nat
                      /\ lead[n].durable <= lead[n].committed /\ lead[n].durable <= lead[n].flushed
                      /\ lead[n].committed <= lead[n].sent /\ lead[n].sent <= lead[n].committed + 1
                      /\ lead[n].sent <= Len(lead[n].log) /\ lead[n].flushed <= Len(lead[n].log)
                      /\ Len(lead[n].log) <= MaxId
    BY DEF Numbers
  <2> QED
    BY <1>0, LeadNumbers
<1>2. ASSUME NEW n \in Nodes
      PROVE  /\ proc[n].role \in Roles /\ proc[n].term \in Nat /\ proc[n].epoch \in Nat
             /\ fol[n].seen \in Nat /\ fol[n].conn \in Nat /\ fol[n].sterm \in Nat
             /\ held[n] \subseteq Copy /\ lead[n].found \subseteq Copy
             /\ lead[n].todo \subseteq Nodes /\ lead[n].counting \subseteq Nodes
  <2>1. proc[n] \in Proc /\ fol[n] \in Fol /\ lead[n] \in Lead /\ held[n] \in SUBSET Copy
    BY <1>0 DEF TypeOK
  <2>2. proc[n].role \in Roles /\ proc[n].term \in Nat /\ proc[n].epoch \in Nat
    BY <2>1, ProcFields, BoundsAssumption
  <2>3. fol[n].seen \in Nat /\ fol[n].conn \in Nat /\ fol[n].sterm \in Nat
    BY <2>1, FolFields, BoundsAssumption
  <2> QED
    BY <2>1, <2>2, <2>3, LeadFields
<1>3. /\ bucket \in Seq(Change) /\ Len(bucket) \in Nat /\ fence \in Nat
      /\ owner \in Seq(Nodes) /\ Len(owner) \in Nat
      /\ wire \subseteq Ack /\ acked \subseteq Placed
  BY <1>0 DEF TypeOK
<1> QED
  BY <1>1, <1>2, <1>3 DEF Types

LEMMA TypesNext == IInv' => Types' /\ Numbers'
  BY TypesHold, PTL

\* The members a leader's changes list are nodes.
BaseType == \A l \in Nodes : Base(l) \subseteq Nodes
LEMMA BaseHolds == IInv => BaseType
<1> SUFFICES ASSUME IInv, NEW l \in Nodes PROVE Base(l) \subseteq Nodes
  BY DEF BaseType
<1> DEFINE log == lead[l].log
           k   == lead[l].flushed
<1>1. log \in Seq(Change) /\ k \in 0 .. Len(log)
  BY TypesHold DEF Numbers
<1> HIDE DEF log, k
<1>2. SubSeq(log, 1, k) \in Seq(Change)
  BY <1>1
<1>3. Listed(SubSeq(log, 1, k)) = ListedTo(log, k)
  BY <1>1, ListedIsTo
<1>4. ListedTo(log, k) \subseteq Nodes
  BY <1>2, <1>3, ListedType
<1> QED
  BY <1>4 DEF Base, log, k

LEMMA BaseNext == IInv' => BaseType'
  BY BaseHolds, PTL

-----------------------------------------------------------------------------
(* What steps leave alone                                                  *)

Step == Sound /\ DInv /\ IInv' /\ RoundInv' /\ Goes

\* The terms claimed stay claimed, the bucket only grows, epochs only rise.
LEMMA StoreSteps ==
  ASSUME Step
  PROVE  /\ Len(owner) <= Len(owner') /\ \A t \in 1 .. Len(owner) : owner'[t] = owner[t]
         /\ Len(bucket) <= Len(bucket') /\ \A i \in 1 .. Len(bucket) : bucket'[i] = bucket[i]
         /\ fence <= fence'
         /\ acked \subseteq acked'
<1>0. Types
  BY TypesHold DEF Step, DInv
<1>1. ASSUME NEW n \in Nodes, NEW p \in Proc, Ended(n, p)
      PROVE  /\ owner' = owner \/ owner' = Append(owner, n)
             /\ UNCHANGED <<bucket, fence, acked>>
  BY <1>1 DEF Ended
<1>2. ASSUME NEW n \in Nodes, Opened(n)
      PROVE  fence' = fence + 1 /\ UNCHANGED <<bucket, owner, acked>>
  BY <1>2 DEF Opened
<1>3. ASSUME NEW n \in Nodes, (\E p \in Nodes : Answered(n, p)) \/ Rewrote(n) \/ Served(n) \/ Followed(n)
      PROVE  UNCHANGED <<bucket, fence, owner, acked>>
  BY <1>3 DEF Answered, Rewrote, Served, Followed, Joined, Dropped, Fetched, Pruned, Held, StreamSame, SameRoles
<1>4. ASSUME NEW n \in Nodes, Worked(n)
      PROVE  /\ bucket' = bucket \/ bucket' = Append(bucket, lead[n].log[lead[n].flushed + 1])
             /\ fence' = fence /\ owner' = owner
             /\ acked \subseteq acked'
  BY <1>4 DEF Worked, Wrote, Flushed, Sent, Confirmed, Noted, LoopSame, Shrunk, Counted, RoundSame, SameRoles
<1>5. ASSUME NEW a \in wire, Received(a) PROVE UNCHANGED <<bucket, fence, owner, acked>>
  BY <1>5 DEF Received, SameRoles
<1>7. /\ owner' = owner \/ \E n \in Nodes : owner' = Append(owner, n)
      /\ bucket' = bucket \/ \E c : bucket' = Append(bucket, c)
      /\ fence' = fence \/ fence' = fence + 1
      /\ acked \subseteq acked'
  <2>1. CASE \E n \in Nodes, p \in Proc : Ended(n, p)
    BY <2>1, <1>1
  <2>2. CASE \E n \in Nodes : Opened(n)
    BY <2>2, <1>2
  <2>3. CASE \E n \in Nodes : (\E p \in Nodes : Answered(n, p)) \/ Rewrote(n) \/ Served(n) \/ Followed(n)
    BY <2>3, <1>3
  <2>4. CASE \E n \in Nodes : Worked(n)
    BY <2>4, <1>4
  <2>5. CASE \E a \in wire : Received(a)
    BY <2>5, <1>5
  <2>6. CASE UNCHANGED vars
    BY <2>6 DEF vars
  <2> QED
    BY <2>1, <2>2, <2>3, <2>4, <2>5, <2>6 DEF Step, Goes, MovesOn
<1>8. Len(owner) <= Len(owner') /\ \A t \in 1 .. Len(owner) : owner'[t] = owner[t]
  BY <1>0, <1>7 DEF Types
<1>9. Len(bucket) <= Len(bucket') /\ \A i \in 1 .. Len(bucket) : bucket'[i] = bucket[i]
  BY <1>0, <1>7, SMTT(60) DEF Types
<1> QED
  BY <1>0, <1>7, <1>8, <1>9 DEF Types

\* A leader's process goes on: under its term and epoch, its log, its stream
\* and its commits only growing.
Continues(l) ==
    /\ proc[l].epoch > 0 /\ proc'[l].term = proc[l].term /\ proc'[l].epoch = proc[l].epoch
    /\ lead'[l].opened = lead[l].opened
    /\ Len(lead[l].log) <= Len(lead'[l].log)
    /\ \A i \in 1 .. Len(lead[l].log) : lead'[l].log[i] = lead[l].log[i]
    /\ lead[l].sent <= lead'[l].sent /\ lead[l].committed <= lead'[l].committed
    /\ lead'[l].flushed = lead[l].flushed \/ Flushed(l)
    /\ proc'[l].role = proc[l].role \/ Rewrote(l) \/ Served(l)

LEMMA LeadSteps ==
  ASSUME Step, NEW l \in Nodes, proc'[l].epoch > 0, ~ Opened(l)
  PROVE  Continues(l)
<1>0. Types /\ Numbers
  BY TypesHold DEF Step, DInv
<1>a. ASSUME proc'[l] = proc[l], lead'[l] = lead[l] PROVE Continues(l)
  BY <1>0, <1>a DEF Continues, Numbers
<1>b. ASSUME proc'[l] = proc[l], SameLog(l), SameSent(l) PROVE Continues(l)
  BY <1>0, <1>b DEF Continues, Numbers, SameLog, SameSent
<1>1. ASSUME NEW n \in Nodes, NEW p \in Proc, Ended(n, p) PROVE Continues(l)
  <2>1. n # l
    <3>1. p.epoch = 0 /\ proc'[n] = p
      BY <1>1 DEF Ended
    <3> QED
      BY <3>1
  <2> QED
    BY <1>1, <1>a, <2>1 DEF Ended, Others
<1>2. ASSUME NEW n \in Nodes, Opened(n) PROVE Continues(l)
  BY <1>2, <1>a DEF Opened, Others
<1>3. ASSUME NEW n \in Nodes, NEW p \in Nodes, Answered(n, p) PROVE Continues(l)
  BY <1>3, <1>a, <1>b DEF Answered, Others, SameRoles
<1>4. ASSUME NEW n \in Nodes, Rewrote(n) PROVE Continues(l)
  <2>1. CASE n # l
    BY <1>4, <1>a, <2>1 DEF Rewrote, Others
  <2>2. CASE n = l
    <3>1. PICK off \in Seq(Change) : lead'[l].log = lead[l].log \o Recovered(l) \o off
      BY <1>4, <2>2 DEF Rewrote
    <3>2. Recovered(l) \in Seq(Change) /\ lead[l].log \in Seq(Change)
      <4>1. lead[l] \in Lead
        BY DEF Step, DInv, IInv, TypeOK
      <4> QED
        BY <4>1, RecoveredType, LeadFields
    <3>3. /\ Len(lead[l].log) <= Len(lead'[l].log)
          /\ \A i \in 1 .. Len(lead[l].log) : lead'[l].log[i] = lead[l].log[i]
      <4> DEFINE r == Recovered(l)
                 g == lead[l].log
      <4>1. g \in Seq(Change) /\ r \in Seq(Change) /\ off \in Seq(Change) /\ lead'[l].log = g \o r \o off
        BY <3>1, <3>2
      <4> HIDE DEF r, g
      <4>2. /\ Len(g) <= Len((g \o r) \o off)
            /\ \A i \in 1 .. Len(g) : ((g \o r) \o off)[i] = g[i]
        <5>1. /\ g \o r \in Seq(Change) /\ Len(g \o r) = Len(g) + Len(r)
              /\ \A i \in 1 .. Len(g) : (g \o r)[i] = g[i]
          BY <4>1
        <5> DEFINE h == g \o r
        <5> HIDE DEF h
        <5>2. /\ Len(h \o off) = Len(h) + Len(off)
              /\ \A i \in 1 .. Len(h) : (h \o off)[i] = h[i]
          BY <4>1, <5>1 DEF h
        <5> QED
          BY <4>1, <5>1, <5>2 DEF h
      <4> QED
        BY <4>1, <4>2 DEF g
    <3>4. proc[l].epoch > 0 /\ proc'[l].term = proc[l].term /\ proc'[l].epoch = proc[l].epoch
      BY <1>4, <2>2 DEF Rewrote
    <3>5. /\ lead'[l].opened = lead[l].opened /\ lead'[l].flushed = lead[l].flushed
          /\ lead'[l].sent = lead[l].sent /\ lead'[l].committed = lead[l].committed
      BY <1>4, <2>2 DEF Rewrote, SameSent
    <3>6. lead[l].sent \in Nat /\ lead[l].committed \in Nat
      BY <1>0 DEF Numbers
    <3> QED
      BY <1>4, <2>2, <3>3, <3>4, <3>5, <3>6 DEF Continues
  <2> QED
    BY <2>1, <2>2
<1>5. ASSUME NEW n \in Nodes, Served(n) PROVE Continues(l)
  <2>1. CASE n # l
    BY <1>5, <1>a, <2>1 DEF Served
  <2>2. CASE n = l
    BY <1>0, <1>5, <2>2 DEF Served, Continues, Numbers
  <2> QED
    BY <2>1, <2>2
<1>6. ASSUME NEW n \in Nodes, Worked(n) PROVE Continues(l)
  <2>1. proc' = proc /\ \A m \in Nodes : m # n => lead'[m] = lead[m]
    BY <1>6 DEF Worked, Wrote, Flushed, Sent, Confirmed, Noted, LoopSame, Shrunk, Counted,
                RoundSame, SameRoles, Others
  <2>2. CASE n # l
    BY <1>a, <2>1, <2>2
  <2>3. CASE n = l /\ \E w \in Change : Wrote(n, w)
    <3>1. PICK w \in Change : Wrote(l, w)
      BY <2>3
    <3>2. lead'[l].log = Append(lead[l].log, w) /\ lead[l].log \in Seq(Change)
      BY <1>0, <3>1 DEF Wrote, Numbers
    <3>3. /\ Len(lead[l].log) <= Len(lead'[l].log)
          /\ \A i \in 1 .. Len(lead[l].log) : lead'[l].log[i] = lead[l].log[i]
      BY <3>2
    <3> QED
      BY <1>0, <2>1, <3>1, <3>3, SMTT(60) DEF Continues, Wrote, Numbers, SameSent
  <2>4. CASE n = l /\ Flushed(n)
    BY <1>0, <2>1, <2>4, SMTT(60) DEF Continues, Flushed, Numbers, SameSent
  <2>5. CASE n = l /\ (Sent(n) \/ Confirmed(n) \/ Noted(n))
    BY <1>0, <2>1, <2>5, SMTT(60) DEF Continues, Sent, Confirmed, Noted, LoopSame, SameLog, SameSent, Numbers
  <2>6. CASE n = l /\ (Shrunk(n) \/ Counted(n))
    BY <1>b, <2>1, <2>6 DEF Shrunk, Counted, RoundSame
  <2> QED
    BY <1>6, <2>2, <2>3, <2>4, <2>5, <2>6 DEF Worked
<1>7. ASSUME NEW n \in Nodes, Followed(n) PROVE Continues(l)
  BY <1>7, <1>a DEF Followed, Joined, Dropped, Fetched, Pruned, Held, StreamSame, SameRoles
<1>8. ASSUME NEW a \in wire, Received(a) PROVE Continues(l)
  BY <1>8, <1>b DEF Received, SameRoles
<1>9. CASE UNCHANGED vars
  BY <1>a, <1>9 DEF vars
<1> QED
  BY <1>1, <1>2, <1>3, <1>4, <1>5, <1>6, <1>7, <1>8, <1>9 DEF Step, Goes, MovesOn

\* Who leads led before, or begins to serve; and goes on.
LEMMA LeadsBack ==
  ASSUME Step, NEW l \in Nodes, Leads(l)'
  PROVE  Continues(l) /\ (Leads(l) \/ Served(l))
<1>1. proc'[l].epoch > 0
  BY DEF Step, IInv, EpochInv, Leads, InCharge
<1>2. ~ Opened(l)
  BY DEF Opened, Leads
<1>3. Continues(l)
  BY <1>1, <1>2, LeadSteps
<1> QED
  BY <1>3 DEF Continues, Rewrote, Leads

\* The members a leader's flushed changes list change as it flushes one.
LEMMA BaseSame ==
  ASSUME Step, NEW l \in Nodes, Continues(l), ~ Flushed(l)
  PROVE  Base(l)' = Base(l)
<1>1. lead'[l].flushed = lead[l].flushed /\ lead[l].flushed \in Nat /\ lead[l].flushed <= Len(lead[l].log)
      /\ Len(lead[l].log) \in Nat
  BY TypesHold DEF Step, DInv, Numbers, Continues
<1>2. \A i \in 1 .. lead[l].flushed : lead[l].log[i] = lead'[l].log[i]
  BY <1>1, SMTT(60) DEF Continues
<1>3. ListedTo(lead[l].log, lead[l].flushed) = ListedTo(lead'[l].log, lead[l].flushed)
  BY <1>1, <1>2, ListedToSame
<1> QED
  BY <1>1, <1>3 DEF Base

\* A follower was one of the same term, and has forgotten nothing, or is new.
LEMMA FollowerBack ==
  ASSUME Step, NEW f \in Nodes, proc'[f].role = "follower"
  PROVE  \/ proc'[f] = proc[f] /\ fol'[f].seen >= fol[f].seen
         \/ \E p \in Proc : Ended(f, p)
<1>0. Types
  BY TypesHold DEF Step, DInv
<1>1. ASSUME NEW n \in Nodes, NEW p \in Proc, Ended(n, p), n # f PROVE proc'[f] = proc[f] /\ fol'[f] = fol[f]
  BY <1>1 DEF Ended
<1>2. ASSUME NEW n \in Nodes, Opened(n) \/ (\E p \in Nodes : Answered(n, p)) \/ Rewrote(n) \/ Served(n)
      PROVE  proc'[f] = proc[f] /\ fol'[f].seen >= fol[f].seen
  BY <1>0, <1>2, SMTT(60) DEF Opened, Answered, Rewrote, Served, HeardOf, SameRoles, Types
<1>3. ASSUME NEW n \in Nodes, Worked(n) PROVE proc' = proc /\ fol' = fol
  BY <1>3 DEF Worked, Wrote, Flushed, Sent, Confirmed, Noted, LoopSame, Shrunk, Counted, RoundSame, SameRoles
<1>4. ASSUME NEW n \in Nodes, Followed(n) PROVE proc' = proc /\ fol'[f].seen >= fol[f].seen
  <2>1. proc' = proc
    BY <1>4 DEF Followed, Joined, Dropped, Fetched, Pruned, Held, StreamSame, SameRoles
  <2>2. \/ fol'[f].seen = fol[f].seen
        \/ fol'[f].seen >= fol[f].seen
    BY <1>4 DEF Followed, Joined, Dropped, Fetched, Pruned, Held
  <2> QED
    BY <1>0, <2>1, <2>2 DEF Types
<1>5. ASSUME NEW a \in wire, Received(a) PROVE proc' = proc /\ fol' = fol
  BY <1>5 DEF Received, SameRoles
<1>6. CASE UNCHANGED vars
  BY <1>0, <1>6 DEF vars, Types
<1>7. fol[f].seen >= fol[f].seen
  BY <1>0 DEF Types
<1> QED
  BY <1>1, <1>2, <1>3, <1>4, <1>5, <1>6, <1>7 DEF Step, Goes, MovesOn

\* Whoever helps a leader did before, or that leader is the newest.
LEMMA HelpingBack ==
  ASSUME Step, NEW f \in Nodes, NEW l \in Nodes, Continues(l), Helping(f, l)'
  PROVE  Helping(f, l) \/ T(l) = Len(owner)
<1>0. Types /\ TermInv /\ EpochInv
  BY TypesHold DEF Step, DInv, IInv
<1>1. proc'[f].role = "follower" /\ owner'[proc'[f].term] = l /\ proc'[l].term >= fol'[f].seen
  BY DEF Helping, LeaderOf, Helps, T
<1>2. CASE proc'[f] = proc[f] /\ fol'[f].seen >= fol[f].seen
  <2>1. proc[f].role = "follower" /\ proc[f].term \in 1 .. Len(owner)
    BY <1>0, <1>1, <1>2 DEF TermInv
  <2>2. owner[proc[f].term] = l
    BY <1>1, <1>2, <2>1, StoreSteps
  <2>3. fol[f].seen \in Nat /\ fol'[f].seen \in Nat /\ proc[l].term \in Nat
    BY <1>0, TypesNext DEF Step, Types
  <2>4. proc[l].term >= fol[f].seen
    BY <1>1, <1>2, <2>3 DEF Continues
  <2> QED
    BY <2>1, <2>2, <2>4 DEF Helping, LeaderOf, Helps, T
<1>3. ASSUME NEW p \in Proc, Ended(f, p) PROVE T(l) = Len(owner)
  <2>1. owner' = owner /\ proc'[f].term = Len(owner)
    BY <1>1, <1>3 DEF Ended
  <2>2. owner[Len(owner)] = l
    BY <1>1, <2>1
  <2>3. proc[l].role \in InCharge /\ proc[l].term \in 1 .. Len(owner)
    BY <1>0 DEF Continues, EpochInv, TermInv, InCharge
  <2>4. \A t \in (T(l) + 1) .. Len(owner) : owner[t] # l
    BY <2>3 DEF Step, DInv, WhoInv, OwnerInv
  <2>5. Len(owner) \in Nat /\ T(l) \in 1 .. Len(owner)
    BY <1>0, <2>3 DEF T, Types
  <2>6. Len(owner) \notin (T(l) + 1) .. Len(owner)
    BY <2>2, <2>4
  <2> HIDE DEF T
  <2> QED
    BY <2>5, <2>6
<1> QED
  BY <1>1, <1>2, <1>3, FollowerBack

\* Who isn't fenced wasn't.
LEMMA UnfencedBack ==
  ASSUME Step, NEW l \in Nodes, Continues(l), Unfenced(l)'
  PROVE  Unfenced(l)
<1>1. proc'[l].epoch = proc[l].epoch /\ proc'[l].epoch = fence' /\ fence <= fence'
  BY StoreSteps DEF Continues, Unfenced
<1>2. proc[l].epoch <= fence /\ fence \in Nat /\ fence' \in Nat
  BY TypesHold, TypesNext DEF Step, DInv, IInv, EpochInv, Types
<1> QED
  BY <1>1, <1>2 DEF Unfenced

\* Who may get changes chosen might before, or has just opened the catalog.
LEMMA AbleBack ==
  ASSUME Step, NEW l \in Nodes, Able(l)', ~ Opened(l)
  PROVE  Continues(l) /\ Able(l)
<1>1. Continues(l)
  BY LeadSteps DEF Able
<1>2. proc[l].epoch > 0
  BY <1>1 DEF Continues
<1>3. CASE Unfenced(l)'
  BY <1>1, <1>2, <1>3, UnfencedBack DEF Able
<1>4. ASSUME NEW f \in Base(l)', Helping(f, l)' PROVE Able(l)
  <2>1. f \in Nodes
    BY <1>4, BaseNext DEF Step, BaseType
  <2>2. CASE Flushed(l)
    BY <1>2, <2>2 DEF Flushed, Able
  <2>3. CASE ~ Flushed(l)
    <3>1. f \in Base(l)
      BY <1>1, <1>4, <2>3, BaseSame
    <3>2. T(l) = Len(owner) => Unfenced(l)
      BY <1>2 DEF Step, DInv, WhoInv, OwnerInv
    <3> QED
      BY <1>1, <1>2, <1>4, <2>1, <3>1, <3>2, HelpingBack DEF Able
  <2> QED
    BY <2>2, <2>3
<1> QED
  BY <1>1, <1>3, <1>4 DEF Able

-----------------------------------------------------------------------------
(* Where copies come from, and what becomes of them                        *)

Single(copies) == \A c, e \in copies : c.id = e.id => c = e

LEMMA MergeFacts ==
  ASSUME NEW old \in SUBSET Copy, NEW new \in SUBSET Copy, Single(old), Single(new)
  PROVE  /\ Merge(old, new) \subseteq old \cup new
         /\ Single(Merge(old, new))
         /\ \A c \in old \cup new : \E m \in Merge(old, new) :
               m.id = c.id /\ m.term >= c.term /\ (m \in old /\ c \in old => m = c)
<1>0. \A c \in old \cup new : c.term \in Nat
  BY CopyFields
<1>1. Merge(old, new) \subseteq old \cup new
  BY DEF Merge
<1>2. ASSUME NEW x \in Merge(old, new), NEW y \in Merge(old, new), x.id = y.id PROVE x = y
  BY <1>0, <1>2 DEF Merge, Single
<1>3. ASSUME NEW c \in old \cup new
      PROVE  \E m \in Merge(old, new) :
               m.id = c.id /\ m.term >= c.term /\ (m \in old /\ c \in old => m = c)
  <2>1. CASE c \in Merge(old, new)
    BY <1>0, <2>1
  <2>2. CASE c \in old /\ c \notin Merge(old, new)
    <3>1. PICK n \in new : n.id = c.id /\ c.term <= n.term
      BY <2>2 DEF Merge
    <3>2. n \in Merge(old, new)
      BY <1>0, <2>2, <3>1 DEF Merge, Single
    <3>3. n \in old => n = c
      BY <2>2, <3>1 DEF Single
    <3> QED
      BY <1>0, <3>1, <3>2, <3>3
  <2>3. CASE c \in new /\ c \notin Merge(old, new)
    <3>1. PICK o \in old : o.id = c.id /\ o.term > c.term
      BY <2>3 DEF Merge
    <3>2. o \in Merge(old, new)
      BY <1>0, <2>3, <3>1 DEF Merge, Single
    <3>3. c \in old => o = c
      BY <3>1 DEF Single
    <3> QED
      BY <1>0, <3>1, <3>2, <3>3
  <2> QED
    BY <2>1, <2>2, <2>3
<1> QED
  BY <1>1, <1>2, <1>3 DEF Single

\* The copy a change that arrives makes.
NewCopy(l, i) == [id |-> i, term |-> T(l), change |-> lead[l].log[i]]

LEMMA HeldDoes ==
  ASSUME DInv, NEW f \in Nodes, NEW l \in Nodes, NEW i \in Ids, NEW j \in Ids, Held(f, l, i, j)
  PROVE  /\ Leads(l) /\ Helping(f, l) /\ i <= lead[l].sent /\ fol[f].sterm = T(l)
         /\ held'[f] = Merge(held[f], {NewCopy(l, i)})
         /\ NewCopy(l, i) \in Copy
         /\ wire' = wire \cup {[from |-> f, to |-> l, term |-> T(l), first |-> j, upto |-> i]}
<1>1. proc[l].epoch > 0
  BY DEF DInv, IInv, EpochInv, Held, Leads, InCharge
<1>2. fol[f].sterm = T(l)
  BY <1>1 DEF DInv, WhoInv, ConnInv, Held
<1>3. NewCopy(l, i) \in Copy
  <2>1. lead[l].log \in Seq(Change) /\ i \in 1 .. Len(lead[l].log)
    BY TypesHold, BoundsAssumption DEF DInv, Numbers, Held, Ids
  <2>2. lead[l].log[i] \in Change
    BY <2>1
  <2>3. T(l) \in Terms
    BY BoundsAssumption DEF T, DInv, IInv, TermInv, TypeOK, Held, Leads, Terms
  <2> QED
    BY <2>2, <2>3 DEF NewCopy, Copy
<1> QED
  BY <1>2, <1>3 DEF Held, NewCopy, Helping

\* A replica file's copies were there, or one of them has just arrived.
LEMMA HeldBack ==
  ASSUME Step, NEW f \in Nodes
  PROVE  \/ held'[f] = held[f] /\ ~ \E l \in Nodes, i, j \in Ids : Held(f, l, i, j)
         \/ Joined(f) \/ Pruned(f)
         \/ \E l \in Nodes, i, j \in Ids : Held(f, l, i, j)
<1>1. ASSUME NEW n \in Nodes, MovesOn(n) \/ Worked(n) PROVE held' = held
  BY <1>1 DEF MovesOn, Ended, Opened, Answered, Rewrote, Served, Worked, Wrote, Flushed, Sent,
              Confirmed, Noted, LoopSame, Shrunk, Counted, RoundSame
<1>2. ASSUME NEW n \in Nodes, Followed(n), n # f PROVE held'[f] = held[f]
  BY <1>2 DEF Followed, Joined, Dropped, Fetched, Held, Pruned
<1>3. CASE Followed(f)
  BY <1>3 DEF Followed, Dropped, Fetched
<1>4. ASSUME NEW a \in wire, Received(a) PROVE held' = held
  BY <1>4 DEF Received
<1>5. CASE UNCHANGED vars
  BY <1>5 DEF vars
<1> QED
  BY <1>1, <1>2, <1>3, <1>4, <1>5 DEF Step, Goes

\* What a recovery has found, it had, or has just been told.
LEMMA FoundBack ==
  ASSUME Step, NEW n \in Nodes
  PROVE  \/ lead'[n].found = lead[n].found \/ lead'[n].found = {}
         \/ Opened(n) \/ \E p \in Nodes : Answered(n, p)
<1>1. ASSUME NEW k \in Nodes, MovesOn(k), k # n PROVE lead'[n] = lead[n]
  BY <1>1 DEF MovesOn, Ended, Opened, Answered, Rewrote, Served, Others
<1>2. CASE MovesOn(n)
  BY <1>2, NoLeadFields DEF MovesOn, Ended, Rewrote, Served
<1>3. ASSUME NEW k \in Nodes, Worked(k) PROVE lead'[n].found = lead[n].found
  BY <1>3 DEF Worked, Wrote, Flushed, Sent, Confirmed, Noted, LoopSame, Shrunk, Counted,
              RoundSame, SameAsked, Others
<1>4. ASSUME NEW k \in Nodes, Followed(k) PROVE lead' = lead
  BY <1>4 DEF Followed, Joined, Dropped, Fetched, Held, Pruned, StreamSame
<1>5. ASSUME NEW a \in wire, Received(a) PROVE lead'[n].found = lead[n].found
  BY <1>5 DEF Received, SameAsked
<1>6. CASE UNCHANGED vars
  BY <1>6 DEF vars
<1> QED
  BY <1>1, <1>2, <1>3, <1>4, <1>5, <1>6 DEF Step, Goes

\* Every copy was one, or has just arrived.
LEMMA CopyBack ==
  ASSUME Step, NEW c \in Copy, IsCopy(c)'
  PROVE  \/ IsCopy(c)
         \/ \E f, l \in Nodes, i, j \in Ids : Held(f, l, i, j) /\ c = NewCopy(l, i)
<1>0. Types
  BY TypesHold DEF Step, DInv
<1>1. ASSUME NEW f \in Nodes, c \in held'[f]
      PROVE  c \in held[f] \/ \E l \in Nodes, i, j \in Ids : Held(f, l, i, j) /\ c = NewCopy(l, i)
  <2>1. CASE Joined(f) \/ Pruned(f)
    BY <1>1, <2>1 DEF Joined, Pruned
  <2>2. ASSUME NEW l \in Nodes, NEW i \in Ids, NEW j \in Ids, Held(f, l, i, j)
        PROVE  c \in held[f] \/ c = NewCopy(l, i)
    <3>1. held'[f] = Merge(held[f], {NewCopy(l, i)})
      BY <2>2, HeldDoes DEF Step
    <3> QED
      BY <1>1, <3>1 DEF Merge
  <2> QED
    BY <1>1, <2>1, <2>2, HeldBack
<1>2. ASSUME NEW n \in Nodes, c \in lead'[n].found
      PROVE  c \in lead[n].found \/ \E f \in Nodes : c \in held[f]
  <2>1. CASE Opened(n)
    BY <1>2, <2>1 DEF Opened, Answer
  <2>2. ASSUME NEW p \in Nodes, Answered(n, p) PROVE c \in lead[n].found \/ c \in held[p]
    BY <1>2, <2>2 DEF Answered, Answer, Merge
  <2> QED
    BY <1>2, <2>1, <2>2, FoundBack
<1> QED
  BY <1>1, <1>2 DEF IsCopy

LEMMA UniqueStep == ASSUME Step PROVE UniqueInv'
<1>0. Types /\ UniqueInv
  BY TypesHold DEF Step, DInv, WhoInv
<1>1. ASSUME NEW f \in Nodes PROVE Single(held'[f])
  <2>1. Single(held[f]) /\ held[f] \in SUBSET Copy
    BY <1>0 DEF UniqueInv, Single, Types
  <2>2. CASE Joined(f) \/ Pruned(f)
    <3>1. held'[f] \subseteq held[f]
      BY <2>2 DEF Joined, Pruned
    <3> QED
      BY <2>1, <3>1 DEF Single
  <2>3. ASSUME NEW l \in Nodes, NEW i \in Ids, NEW j \in Ids, Held(f, l, i, j) PROVE Single(held'[f])
    <3>0. DInv
      BY DEF Step
    <3>1. held'[f] = Merge(held[f], {NewCopy(l, i)}) /\ NewCopy(l, i) \in Copy
      BY <2>3, <3>0, HeldDoes
    <3>2. Single({NewCopy(l, i)})
      BY DEF Single
    <3> QED
      BY <2>1, <3>1, <3>2, MergeFacts
  <2> QED
    BY <2>1, <2>2, <2>3, HeldBack
<1>2. ASSUME NEW n \in Nodes PROVE Single(lead'[n].found)
  <2>1. Single(lead[n].found) /\ lead[n].found \in SUBSET Copy
    BY <1>0 DEF UniqueInv, Single, Types
  <2>2. ASSUME NEW p \in Nodes, NEW b PROVE Single(Answer(p, b)) /\ Answer(p, b) \in SUBSET Copy
    BY <1>0 DEF UniqueInv, Single, Types, Answer
  <2>3. CASE Opened(n)
    BY <2>2, <2>3 DEF Opened
  <2>4. ASSUME NEW p \in Nodes, Answered(n, p) PROVE Single(lead'[n].found)
    BY <2>1, <2>2, <2>4, MergeFacts DEF Answered
  <2>5. Single({})
    BY DEF Single
  <2> QED
    BY <2>1, <2>3, <2>4, <2>5, FoundBack
<1> QED
  BY <1>1, <1>2 DEF UniqueInv, Single

-----------------------------------------------------------------------------
(* Who leads, and who follows: the steps                                   *)

\* Roles, terms and epochs change as a process ends, or its recovery goes on.
LEMMA ProcSteps ==
  ASSUME Step
  PROVE  \/ UNCHANGED <<proc, owner, fence>>
         \/ \E n \in Nodes :
               \/ \E p \in Proc : Ended(n, p) /\ (p.role = "opening" /\ owner' = owner => ~ Leads(n))
               \/ Opened(n) \/ Rewrote(n) \/ Served(n)
<1>1. ASSUME NEW n \in Nodes, Worked(n) \/ Followed(n) \/ \E p \in Nodes : Answered(n, p)
      PROVE  UNCHANGED <<proc, owner, fence>>
  BY <1>1 DEF Worked, Wrote, Flushed, Sent, Confirmed, Noted, LoopSame, Shrunk, Counted, RoundSame,
              SameRoles, Followed, Joined, Dropped, Fetched, Held, Pruned, StreamSame, Answered
<1>2. ASSUME NEW a \in wire, Received(a) PROVE UNCHANGED <<proc, owner, fence>>
  BY <1>2 DEF Received, SameRoles
<1>3. CASE UNCHANGED vars
  BY <1>3 DEF vars
<1> QED
  BY <1>1, <1>2, <1>3 DEF Step, Goes, MovesOn

LEMMA OwnerStep == ASSUME Step PROVE OwnerInv'
<1>0. Types /\ TermInv /\ EpochInv /\ OpeningInv /\ OwnerInv /\ ~ LateOpen
  BY TypesHold DEF Step, DInv, IInv, WhoInv, Sound
<1>1. SUFFICES ASSUME NEW n \in Nodes
               PROVE  /\ proc'[n].role \in InCharge \cup {"opening"}
                            => \A t \in (proc'[n].term + 1) .. Len(owner') : owner'[t] # n
                      /\ proc'[n].epoch > 0 /\ proc'[n].term = Len(owner') => proc'[n].epoch = fence'
  BY DEF OwnerInv, T, Unfenced
<1>2. proc[n].epoch > 0 => proc[n].role \in InCharge
  BY <1>0 DEF EpochInv
<1>3. CASE proc'[n] = proc[n] /\ UNCHANGED <<owner, fence>>
  BY <1>0, <1>3 DEF OwnerInv, T, Unfenced
<1>4. ASSUME NEW k \in Nodes, NEW p \in Proc, Ended(k, p), k = n
      PROVE  /\ proc'[n].role \in InCharge \cup {"opening"}
                   => \A t \in (proc'[n].term + 1) .. Len(owner') : owner'[t] # n
             /\ proc'[n].epoch > 0 /\ proc'[n].term = Len(owner') => proc'[n].epoch = fence'
  <2>1. p.epoch = 0 /\ proc'[n] = p
    BY <1>4 DEF Ended
  <2>2. p.role \notin InCharge \/ FALSE
    BY <1>4 DEF Ended, InCharge
  <2>3. p.role = "opening" => p.term = Len(owner') /\ Len(owner') \in Nat
    BY <1>0, <1>4 DEF Ended, Types
  <2>4. p.role = "opening" => (p.term + 1) .. Len(owner') = {}
    BY <2>3
  <2> QED
    BY <2>1, <2>2, <2>4
<1>5. ASSUME NEW k \in Nodes, NEW p \in Proc, Ended(k, p), k # n
      PROVE  /\ proc'[n].role \in InCharge \cup {"opening"}
                   => \A t \in (proc'[n].term + 1) .. Len(owner') : owner'[t] # n
             /\ proc'[n].epoch > 0 /\ proc'[n].term = Len(owner') => proc'[n].epoch = fence'
  <2>1. proc'[n] = proc[n] /\ fence' = fence
    BY <1>5 DEF Ended
  <2>2. CASE owner' = owner
    BY <1>3, <2>1, <2>2
  <2>3. CASE owner' = Append(owner, k)
    <3>1. /\ Len(owner') = Len(owner) + 1 /\ owner'[Len(owner) + 1] = k
          /\ \A t \in 1 .. Len(owner) : owner'[t] = owner[t]
      BY <1>0, <2>3 DEF Types
    <3>2. proc[n].role \in InCharge \cup {"opening"} => proc[n].term \in 1 .. Len(owner)
      BY <1>0 DEF TermInv, InCharge
    <3>3. ASSUME proc[n].role \in InCharge \cup {"opening"}, NEW t \in (proc[n].term + 1) .. (Len(owner) + 1)
          PROVE  owner'[t] # n
      <4>1. t \in (proc[n].term + 1) .. Len(owner) \/ t = Len(owner) + 1
        BY <1>0 DEF Types
      <4>2. t \in (proc[n].term + 1) .. Len(owner) => t \in 1 .. Len(owner) /\ owner[t] # n
        BY <1>0, <3>2, <3>3 DEF OwnerInv, T, Types
      <4> QED
        BY <1>5, <3>1, <4>1, <4>2
    <3>4. ~ (proc[n].epoch > 0 /\ proc[n].term = Len(owner) + 1)
      BY <1>0, <1>2, <3>2 DEF Types
    <3> QED
      BY <2>1, <3>1, <3>3, <3>4
  <2> QED
    BY <1>5, <2>2, <2>3 DEF Ended
<1>6. ASSUME NEW k \in Nodes, Opened(k)
      PROVE  /\ proc'[n].role \in InCharge \cup {"opening"}
                   => \A t \in (proc'[n].term + 1) .. Len(owner') : owner'[t] # n
             /\ proc'[n].epoch > 0 /\ proc'[n].term = Len(owner') => proc'[n].epoch = fence'
  <2>1. proc[k].term = Len(owner) /\ owner[proc[k].term] = k
    BY <1>0, <1>6 DEF Opened, OpeningInv, TermInv
  <2>2. CASE n = k
    BY <1>0, <1>6, <2>2 DEF Opened, OwnerInv, T
  <2>3. CASE n # k
    <3>1. proc[n].role \in InCharge => owner[proc[n].term] = n
      BY <1>0 DEF TermInv
    <3> QED
      BY <1>0, <1>2, <1>6, <2>1, <2>3, <3>1 DEF Opened, OwnerInv, T
  <2> QED
    BY <2>2, <2>3
<1>7. ASSUME NEW k \in Nodes, Rewrote(k) \/ Served(k)
      PROVE  /\ proc'[n].role \in InCharge \cup {"opening"} => proc[n].role \in InCharge \cup {"opening"}
             /\ proc'[n].term = proc[n].term /\ proc'[n].epoch = proc[n].epoch
             /\ UNCHANGED <<owner, fence>>
  BY <1>7 DEF Rewrote, Served, InCharge
<1>8. ASSUME NEW k \in Nodes, Rewrote(k) \/ Served(k)
      PROVE  /\ proc'[n].role \in InCharge \cup {"opening"}
                   => \A t \in (proc'[n].term + 1) .. Len(owner') : owner'[t] # n
             /\ proc'[n].epoch > 0 /\ proc'[n].term = Len(owner') => proc'[n].epoch = fence'
  BY <1>0, <1>7, <1>8 DEF OwnerInv, T, Unfenced
<1> QED
  BY <1>3, <1>4, <1>5, <1>6, <1>8, ProcSteps

LEMMA OrderStep == ASSUME Step PROVE OrderInv'
<1>0. Types /\ TermInv /\ EpochInv /\ OpeningInv /\ OrderInv /\ ~ LateOpen
  BY TypesHold DEF Step, DInv, IInv, WhoInv, Sound
<1>1. SUFFICES ASSUME NEW n \in Nodes, NEW p \in Nodes, proc'[n].epoch > 0, proc'[p].epoch > 0
               PROVE  proc'[n].term < proc'[p].term <=> proc'[n].epoch < proc'[p].epoch
  BY DEF OrderInv, T
<1>a. ASSUME NEW m \in {n, p}, ~ Opened(m)
      PROVE  proc[m].epoch > 0 /\ proc'[m].term = proc[m].term /\ proc'[m].epoch = proc[m].epoch
  BY <1>a, <1>1, LeadSteps DEF Continues
<1>b. ASSUME NEW k \in {n, p}, NEW m \in {n, p}, Opened(k), m # k
      PROVE  /\ proc[m].epoch > 0 /\ proc'[m].term = proc[m].term /\ proc'[m].epoch = proc[m].epoch
             /\ proc'[m].term < proc'[k].term /\ proc'[m].epoch < proc'[k].epoch
  <2>1. proc[k].term = Len(owner) /\ owner[proc[k].term] = k
    BY <1>0, <1>b DEF Opened, OpeningInv, TermInv
  <2>2. proc'[m] = proc[m]
    BY <1>b DEF Opened
  <2>3. proc[m].epoch > 0
    BY <1>1, <2>2
  <2>4. proc[m].role \in InCharge
    BY <1>0, <2>3 DEF EpochInv
  <2>5. owner[proc[m].term] = m /\ proc[m].term \in 1 .. Len(owner)
    BY <1>0, <2>4 DEF TermInv, InCharge
  <2>6. proc[m].term < proc[k].term
    <3>1. proc[m].term # Len(owner)
      BY <1>b, <2>1, <2>5
    <3> QED
      BY <1>0, <2>1, <2>5, <3>1 DEF Types
  <2>7. proc'[k].term = proc[k].term /\ proc'[k].epoch = fence + 1
    BY <1>b DEF Opened
  <2>8. proc[m].epoch <= fence /\ proc[m].epoch \in Nat /\ fence \in Nat
    BY <1>0 DEF EpochInv, Types
  <2> QED
    BY <2>2, <2>3, <2>6, <2>7, <2>8
<1>c. proc'[n].term \in Nat /\ proc'[n].epoch \in Nat /\ proc'[p].term \in Nat /\ proc'[p].epoch \in Nat
  BY TypesNext DEF Step, Types
<1>2. CASE n = p
  BY <1>2, <1>c
<1>3. CASE Opened(n) /\ n # p
  BY <1>3, <1>b, <1>c
<1>4. CASE Opened(p) /\ n # p
  BY <1>4, <1>b, <1>c
<1>5. CASE ~ Opened(n) /\ ~ Opened(p)
  BY <1>0, <1>5, <1>a DEF OrderInv, T
<1> QED
  BY <1>2, <1>3, <1>4, <1>5

\* What a process remembers of the terms it has copies of.
LEMMA NewestBounds ==
  ASSUME NEW copies \in SUBSET Copy
  PROVE  \A c \in copies : c.term <= NewestTerm(copies)
<1> DEFINE S == {0} \cup {c.term : c \in copies}
<1>1. S \in SUBSET (0 .. MaxTerm) /\ S # {}
  BY BoundsAssumption DEF Copy, Terms
<1> HIDE DEF S
<1>2. \A y \in S : y <= MaxOf(S)
  BY <1>1, MaxOfBounded, BoundsAssumption
<1> QED
  BY <1>2 DEF NewestTerm, S

LEMMA LateStep == ASSUME Step PROVE LateInv'
<1>0. Types /\ Numbers /\ EpochInv /\ LateInv /\ PrefixInv
  BY TypesHold DEF Step, DInv, IInv, WhoInv
<1>1. SUFFICES ASSUME NEW n \in Nodes, NEW p \in Nodes, proc'[p].epoch > 0, proc'[p].epoch < proc'[n].epoch
               PROVE  lead'[p].flushed <= lead'[n].opened
  BY DEF LateInv
<1>2. proc'[n].epoch \in Nat /\ proc'[p].epoch \in Nat /\ fence \in Nat /\ proc[n].epoch \in Nat
      /\ proc[n].epoch <= fence
  BY <1>0, TypesNext DEF Step, Types, EpochInv
<1>3. proc'[n].epoch > 0
  BY <1>1, <1>2
<1>4. CASE Opened(n)
  <2>1. n # p
    BY <1>1, <1>2
  <2>2. lead'[p] = lead[p] /\ lead'[n].opened = Len(bucket)
    BY <1>4, <2>1 DEF Opened, Others
  <2> QED
    BY <1>0, <2>2 DEF PrefixInv
<1>5. CASE Opened(p)
  <2>1. n # p
    BY <1>1, <1>2
  <2>2. proc'[n] = proc[n] /\ proc'[p].epoch = fence + 1
    BY <1>5, <2>1 DEF Opened
  <2> QED
    BY <1>1, <1>2, <2>2
<1>6. CASE ~ Opened(n) /\ ~ Opened(p)
  <2>1. Continues(n) /\ Continues(p)
    BY <1>1, <1>3, <1>6, LeadSteps
  <2>2. ~ Flushed(p)
    BY <1>0, <1>1, <1>2, <2>1 DEF Flushed, Unfenced, Continues
  <2>3. lead'[p].flushed = lead[p].flushed /\ lead'[n].opened = lead[n].opened
    BY <2>1, <2>2 DEF Continues
  <2>4. proc[p].epoch > 0 /\ proc[p].epoch < proc[n].epoch
    BY <1>1, <2>1 DEF Continues
  <2> QED
    BY <1>0, <2>3, <2>4 DEF LateInv
<1> QED
  BY <1>4, <1>5, <1>6

\* A follower's state: of a new process, of a new stream, or as it was.
LEMMA FolSteps ==
  ASSUME Step, NEW f \in Nodes
  PROVE  \/ \E p \in Proc : Ended(f, p)
         \/ Joined(f)
         \/ /\ fol'[f].conn = fol[f].conn \/ fol'[f].conn = 0
            /\ fol'[f].sterm = fol[f].sterm /\ fol'[f].seen >= fol[f].seen
<1>0. Types
  BY TypesHold DEF Step, DInv
<1>1. ASSUME NEW n \in Nodes, MovesOn(n), ~ \E p \in Proc : Ended(f, p)
      PROVE  fol'[f].conn = fol[f].conn /\ fol'[f].sterm = fol[f].sterm /\ fol'[f].seen >= fol[f].seen
  <2>1. CASE \E p \in Proc : Ended(n, p)
    <3>1. fol'[f] = fol[f]
      BY <1>1, <2>1 DEF Ended
    <3> QED
      BY <1>0, <3>1 DEF Types
  <2>2. CASE Opened(n) \/ \E p \in Nodes : Answered(n, p)
    BY <2>2 DEF Opened, Answered, HeardOf
  <2>3. CASE Rewrote(n) \/ Served(n)
    BY <1>0, <2>3 DEF Rewrote, Served, Types
  <2> QED
    BY <1>1, <2>1, <2>2, <2>3 DEF MovesOn
<1>2. ASSUME NEW n \in Nodes, Worked(n) PROVE fol' = fol
  BY <1>2 DEF Worked, Wrote, Flushed, Sent, Confirmed, Noted, LoopSame, Shrunk, Counted, RoundSame
<1>3. ASSUME NEW n \in Nodes, Followed(n)
      PROVE  \/ fol'[f] = fol[f] \/ Joined(f)
             \/ /\ fol'[f].conn = fol[f].conn \/ fol'[f].conn = 0
                /\ fol'[f].sterm = fol[f].sterm /\ fol'[f].seen = fol[f].seen
  <2>1. CASE n # f
    BY <1>3, <2>1 DEF Followed, Joined, Dropped, Fetched, Held, Pruned
  <2>2. CASE n = f /\ ~ Joined(f)
    BY <1>3, <2>2 DEF Followed, Dropped, Fetched, Held, Pruned
  <2> QED
    BY <2>1, <2>2
<1>4. ASSUME NEW a \in wire, Received(a) PROVE fol' = fol
  BY <1>4 DEF Received
<1>5. UNCHANGED vars => fol' = fol
  BY DEF vars
<1>6. fol[f].seen >= fol[f].seen
  BY <1>0 DEF Types
<1>7. fol'[f] = fol[f] => fol'[f].conn = fol[f].conn /\ fol'[f].sterm = fol[f].sterm /\ fol'[f].seen >= fol[f].seen
  BY <1>6
<1>8. /\ fol'[f].conn = fol[f].conn \/ fol'[f].conn = 0
      /\ fol'[f].sterm = fol[f].sterm /\ fol'[f].seen = fol[f].seen
      => fol'[f].seen >= fol[f].seen
  BY <1>6
<1> QED
  BY <1>1, <1>2, <1>3, <1>4, <1>5, <1>7, <1>8 DEF Step, Goes

\* Where a follower's copies come from.
LEMMA HeldSteps ==
  ASSUME Step, NEW f \in Nodes, NEW c \in held'[f]
  PROVE  c \in held[f] \/ \E l \in Nodes, i, j \in Ids : Held(f, l, i, j) /\ c = NewCopy(l, i)
<1>1. CASE Joined(f) \/ Pruned(f)
  BY <1>1 DEF Joined, Pruned
<1>2. ASSUME NEW l \in Nodes, NEW i \in Ids, NEW j \in Ids, Held(f, l, i, j)
      PROVE  c \in held[f] \/ c = NewCopy(l, i)
  <2>1. held'[f] = Merge(held[f], {NewCopy(l, i)})
    BY <1>2, HeldDoes DEF Step
  <2> QED
    BY <2>1 DEF Merge
<1> QED
  BY <1>1, <1>2, HeldBack

LEMMA ConnStep == ASSUME Step PROVE ConnInv'
<1>0. Types /\ TermInv /\ EpochInv /\ ConnInv /\ DInv
  BY TypesHold DEF Step, DInv, IInv, WhoInv
<1>1. Types' /\ EpochInv'
  BY TypesNext DEF Step, IInv
<1>2. fence <= fence'
  BY StoreSteps
<1>3. SUFFICES ASSUME NEW f \in Nodes
               PROVE  /\ fol'[f].conn <= fence'
                      /\ \A l \in Nodes : proc'[l].epoch > 0 /\ fol'[f].conn = proc'[l].epoch
                            => fol'[f].sterm = proc'[l].term
                      /\ fol'[f].conn > 0 => fol'[f].sterm <= fol'[f].seen
                      /\ \A c \in held'[f] : c.term <= fol'[f].seen
  BY DEF ConnInv, T
<1>n. /\ fol[f].conn \in Nat /\ fol[f].sterm \in Nat /\ fol[f].seen \in Nat
      /\ fol'[f].conn \in Nat /\ fol'[f].sterm \in Nat /\ fol'[f].seen \in Nat
      /\ fence \in Nat /\ fence' \in Nat
      /\ \A c \in held[f] : c.term \in Nat
  BY <1>0, <1>1, CopyFields DEF Types
<1>4. ASSUME NEW p \in Proc, Ended(f, p)
      PROVE  /\ fol'[f].conn = 0
             /\ \A c \in held'[f] : c.term <= fol'[f].seen
  <2>1. fol'[f] = NewFol(held[f]) /\ held' = held /\ held[f] \in SUBSET Copy
    BY <1>0, <1>4 DEF Ended, Types
  <2>2. fol'[f].conn = 0 /\ fol'[f].seen = NewestTerm(held[f])
    BY <2>1 DEF NewFol
  <2> QED
    BY <2>1, <2>2, NewestBounds
<1>5. CASE Joined(f)
  <2> DEFINE k == LeaderOf(f)
  <2>1. /\ k \in Nodes /\ Leads(k) /\ fol'[f].conn = proc[k].epoch /\ fol'[f].sterm = proc[k].term
        /\ fol'[f].seen >= fol[f].seen /\ fol'[f].seen >= proc[k].term
        /\ proc' = proc /\ fence' = fence /\ held'[f] \subseteq held[f]
    BY <1>5 DEF Joined, StreamSame, SameRoles
  <2> HIDE DEF k
  <2>2. fol'[f].conn <= fence'
    BY <1>0, <2>1 DEF EpochInv
  <2>3. \A l \in Nodes : proc'[l].epoch > 0 /\ fol'[f].conn = proc'[l].epoch => fol'[f].sterm = proc'[l].term
    <3> SUFFICES ASSUME NEW l \in Nodes, proc'[l].epoch > 0, fol'[f].conn = proc'[l].epoch
                 PROVE  l = k
      BY <2>1
    <3> QED
      BY <1>0, <2>1 DEF EpochInv
  <2>4. \A c \in held'[f] : c.term <= fol[f].seen
    BY <1>0, <2>1 DEF ConnInv
  <2>5. \A c \in held'[f] : c.term <= fol'[f].seen
    BY <1>n, <2>1, <2>4
  <2>6. fol'[f].sterm <= fol'[f].seen
    BY <1>n, <2>1
  <2> QED
    BY <2>2, <2>3, <2>5, <2>6
<1>6. CASE /\ fol'[f].conn = fol[f].conn \/ fol'[f].conn = 0
           /\ fol'[f].sterm = fol[f].sterm /\ fol'[f].seen >= fol[f].seen
  <2>1. fol'[f].conn <= fence'
    BY <1>0, <1>2, <1>n, <1>6 DEF ConnInv
  <2>2. \A l \in Nodes : proc'[l].epoch > 0 /\ fol'[f].conn = proc'[l].epoch => fol'[f].sterm = proc'[l].term
    <3> SUFFICES ASSUME NEW l \in Nodes, proc'[l].epoch > 0, fol'[f].conn = proc'[l].epoch
                 PROVE  fol'[f].sterm = proc'[l].term
      OBVIOUS
    <3>1. fol'[f].conn = fol[f].conn
      BY <1>6, <1>1
    <3>2. ~ Opened(l)
      <4>1. Opened(l) => proc'[l].epoch = fence + 1
        BY DEF Opened
      <4> QED
        BY <1>0, <1>n, <3>1, <4>1 DEF ConnInv
    <3>3. Continues(l)
      BY <3>2, LeadSteps
    <3> QED
      BY <1>0, <1>6, <3>1, <3>3 DEF ConnInv, T, Continues
  <2>3. fol'[f].conn > 0 => fol'[f].sterm <= fol'[f].seen
    BY <1>0, <1>n, <1>6 DEF ConnInv
  <2>4. \A c \in held'[f] : c.term <= fol'[f].seen
    <3> SUFFICES ASSUME NEW c \in held'[f] PROVE c.term <= fol'[f].seen
      OBVIOUS
    <3>1. CASE c \in held[f]
      BY <1>0, <1>n, <1>6, <3>1 DEF ConnInv
    <3>2. ASSUME NEW l \in Nodes, NEW i \in Ids, NEW j \in Ids, Held(f, l, i, j), c = NewCopy(l, i)
          PROVE  c.term <= fol'[f].seen
      <4>1. c.term = fol[f].sterm
        BY <1>0, <3>2, HeldDoes DEF NewCopy
      <4>2. fol[f].conn > 0
        BY <1>0, <3>2 DEF Held, Leads, EpochInv, InCharge
      <4> QED
        BY <1>0, <1>n, <1>6, <4>1, <4>2 DEF ConnInv
    <3> QED
      BY <3>1, <3>2, HeldSteps
  <2> QED
    BY <2>1, <2>2, <2>3, <2>4
<1> QED
  BY <1>n, <1>1, <1>4, <1>5, <1>6, FolSteps

\* What a leader's state says of its stage.
Stage(role, r) ==
    /\ role \notin InCharge => r = NoLead
    /\ role = "recovering" =>
          /\ Len(r.log) = r.opened /\ r.flushed = r.opened
          /\ r.committed = r.opened /\ r.sent = r.opened
          /\ \A c \in r.found : c.id > r.opened
    /\ role # "recovering" => r.found = {}
    /\ role # "leading" => r.acks = NoLead.acks
    /\ r.opened <= r.flushed

LEMMA StageIs == StageInv <=> \A n \in Nodes : Stage(proc[n].role, lead[n])
  BY DEF StageInv, Stage, Leads
LEMMA StageIsNext == StageInv' <=> \A n \in Nodes : Stage(proc'[n].role, lead'[n])
  BY DEF StageInv, Stage, Leads

LEMMA StageStep == ASSUME Step PROVE StageInv'
<1>0. Types /\ Numbers /\ \A n \in Nodes : Stage(proc[n].role, lead[n])
  BY StageIs, TypesHold DEF Step, DInv, WhoInv
<1>1. SUFFICES ASSUME NEW n \in Nodes PROVE Stage(proc'[n].role, lead'[n])
  BY StageIsNext
<1>a. ASSUME proc'[n] = proc[n], lead'[n] = lead[n] PROVE Stage(proc'[n].role, lead'[n])
  BY <1>0, <1>a
<1>n. lead[n].opened \in Nat /\ lead[n].flushed \in Nat /\ Stage(proc[n].role, lead[n])
  BY <1>0 DEF Numbers
<1>2. ASSUME NEW k \in Nodes, NEW p \in Proc, Ended(k, p) PROVE Stage(proc'[n].role, lead'[n])
  <2>1. CASE k = n
    <3>1. p.role \notin InCharge /\ proc'[n].role = p.role /\ lead'[n] = NoLead
      BY <1>2, <2>1 DEF Ended, InCharge
    <3>2. p.role # "recovering"
      BY <3>1 DEF InCharge
    <3> QED
      BY <3>1, <3>2, NoLeadFields DEF Stage
  <2>2. CASE k # n
    BY <1>2, <1>a, <2>2 DEF Ended, Others
  <2> QED
    BY <2>1, <2>2
<1>3. ASSUME NEW k \in Nodes, Opened(k) PROVE Stage(proc'[n].role, lead'[n])
  <2>1. CASE k = n
    <3>1. lead'[n].found = {c \in held[n] : c.id > Len(bucket)}
      BY <1>3, <2>1 DEF Opened, Answer
    <3>2. Len(bucket) <= Len(bucket)
      BY <1>0 DEF Types
    <3> QED
      BY <1>3, <2>1, <3>1, <3>2 DEF Opened, Stage, InCharge
  <2>2. CASE k # n
    BY <1>3, <1>a, <2>2 DEF Opened, Others
  <2> QED
    BY <2>1, <2>2
<1>4. ASSUME NEW k \in Nodes, NEW p \in Nodes, Answered(k, p) PROVE Stage(proc'[n].role, lead'[n])
  <2>1. CASE k = n
    <3>1. \A c \in lead'[n].found : c \in lead[n].found \/ c.id > lead[n].opened
      BY <1>4, <2>1 DEF Answered, Merge, Answer
    <3> QED
      BY <1>4, <1>n, <2>1, <3>1 DEF Answered, Stage, SameRoles, SameLog, SameSent, InCharge
  <2>2. CASE k # n
    BY <1>4, <1>a, <2>2 DEF Answered, Others, SameRoles
  <2> QED
    BY <2>1, <2>2
<1>5. ASSUME NEW k \in Nodes, Rewrote(k) PROVE Stage(proc'[n].role, lead'[n])
  <2>1. CASE k = n
    BY <1>5, <1>n, <2>1 DEF Rewrote, Stage, InCharge
  <2>2. CASE k # n
    BY <1>5, <1>a, <2>2 DEF Rewrote, Others
  <2> QED
    BY <2>1, <2>2
<1>6. ASSUME NEW k \in Nodes, Served(k) PROVE Stage(proc'[n].role, lead'[n])
  BY <1>6, <1>n, <1>0 DEF Served, Stage, InCharge
<1>7. ASSUME NEW k \in Nodes, Worked(k) PROVE Stage(proc'[n].role, lead'[n])
  <2>1. CASE k = n
    <3>1. /\ proc' = proc /\ proc[n].role \in {"settling", "leading"}
          /\ lead'[n].acks = lead[n].acks /\ lead'[n].found = lead[n].found
          /\ lead'[n].opened = lead[n].opened
          /\ lead'[n].flushed = lead[n].flushed \/ lead'[n].flushed = lead[n].flushed + 1
      BY <1>7, <2>1 DEF Worked, Wrote, Flushed, Sent, Confirmed, Noted, LoopSame, Shrunk, Counted,
                        RoundSame, SameRoles, SameAsked, SameLog, Commits, Leads
    <3> QED
      BY <1>n, <3>1 DEF Stage, InCharge
  <2>2. CASE k # n
    BY <1>7, <1>a, <2>2 DEF Worked, Wrote, Flushed, Sent, Confirmed, Noted, LoopSame, Shrunk, Counted,
                            RoundSame, SameRoles, Others
  <2> QED
    BY <2>1, <2>2
<1>8. ASSUME NEW k \in Nodes, Followed(k) PROVE Stage(proc'[n].role, lead'[n])
  BY <1>8, <1>a DEF Followed, Joined, Dropped, Fetched, Held, Pruned, StreamSame, SameRoles
<1>9. ASSUME NEW a \in wire, Received(a) PROVE Stage(proc'[n].role, lead'[n])
  <2>1. CASE ~ Leads(n)
    BY <1>9, <1>a, <2>1 DEF Received, SameRoles
  <2>2. CASE Leads(n)
    BY <1>9, <1>n, <2>2 DEF Received, Stage, SameRoles, SameAsked, SameLog, Leads, InCharge
  <2> QED
    BY <2>1, <2>2
<1>10. CASE UNCHANGED vars
  BY <1>10, <1>a DEF vars
<1> QED
  BY <1>2, <1>3, <1>4, <1>5, <1>6, <1>7, <1>8, <1>9, <1>10 DEF Step, Goes, MovesOn

\* A node in charge owns its term, so two of them have different ones.
LEMMA OneOfTerm ==
  ASSUME IInv, NEW n \in Nodes, NEW l \in Nodes, T(n) = T(l),
         proc[n].role \in InCharge \cup {"opening"}, proc[l].role \in InCharge \cup {"opening"}
  PROVE  n = l
BY DEF IInv, TermInv, T

\* Who begins to serve held no copy, and no acknowledgement, of its term; who
\* claims a term, or takes back one it didn't serve, neither.
LEMMA NewStages ==
  ASSUME Step, NEW n \in Nodes, proc'[n].role \in {"opening", "recovering", "settling"},
         ~ UNCHANGED <<proc, owner>>
  PROVE  /\ held' = held /\ wire' \subseteq wire
         /\ \/ T(n)' > Len(owner)
            \/ T(n)' = T(n) /\ proc[n].role \in {"opening", "recovering", "settling"}
<1>0. Types /\ TermInv /\ OwnerInv
  BY TypesHold DEF Step, DInv, IInv, WhoInv
<1>1. ASSUME NEW k \in Nodes, NEW p \in Proc, Ended(k, p), p.role = "opening" /\ owner' = owner => ~ Leads(k)
      PROVE  /\ held' = held /\ wire' \subseteq wire
             /\ \/ T(n)' > Len(owner)
                \/ T(n)' = T(n) /\ proc[n].role \in {"opening", "recovering", "settling"}
  <2>1. held' = held /\ wire' \subseteq wire
    BY <1>1 DEF Ended
  <2>2. CASE k # n
    BY <1>1, <2>1, <2>2 DEF Ended, T
  <2>3. CASE k = n
    <3>1. p.role = "opening" /\ proc'[n].term = p.term
      BY <1>1, <2>3 DEF Ended
    <3>2. CASE owner' # owner
      <4>1. p.term = Len(owner) + 1
        BY <1>1, <3>2 DEF Ended
      <4> QED
        BY <1>0, <2>1, <3>1, <4>1 DEF T, Types
    <3>3. CASE owner' = owner
      <4>0. owner # Append(owner, n)
        BY <1>0 DEF Types
      <4>1. p.term = Len(owner) /\ owner[p.term] = n /\ proc[n].role \in InCharge
        BY <1>1, <2>3, <3>1, <3>3, <4>0 DEF Ended
      <4>2. proc[n].role \in {"recovering", "settling"}
        BY <1>1, <2>3, <3>1, <3>3, <4>1 DEF InCharge, Leads
      <4>3. proc[n].term \in 1 .. Len(owner) /\ \A t \in (proc[n].term + 1) .. Len(owner) : owner[t] # n
        BY <1>0, <4>1 DEF TermInv, OwnerInv, T, InCharge
      <4>4. proc[n].term = p.term
        BY <1>0, <4>1, <4>3, SMTT(60) DEF Types
      <4> QED
        BY <2>1, <3>1, <4>2, <4>4 DEF T
    <3> QED
      BY <3>2, <3>3
  <2> QED
    BY <2>2, <2>3
<1>2. ASSUME NEW k \in Nodes, Opened(k) \/ Rewrote(k) \/ Served(k)
      PROVE  /\ held' = held /\ wire' \subseteq wire
             /\ T(n)' = T(n) /\ proc[n].role \in {"opening", "recovering", "settling"}
  BY <1>2 DEF Opened, Rewrote, Served, T
<1> QED
  BY <1>1, <1>2, ProcSteps

LEMMA CopyStep == ASSUME Step PROVE CopyInv'
<1>0. DInv /\ IInv /\ CopyInv /\ TermsInv
  BY DEF Step, DInv, WhoInv
<1>1. SUFFICES ASSUME NEW c \in Copy, NEW e \in Copy, IsCopy(c)', IsCopy(e)', c.id = e.id, c.term = e.term
               PROVE  c.change = e.change
  BY DEF CopyInv
<1>a. ASSUME NEW x \in Copy, NEW y \in Copy, x.id = y.id, x.term = y.term, IsCopy(x),
             NEW f \in Nodes, NEW l \in Nodes, NEW i \in Ids, NEW j \in Ids, Held(f, l, i, j), y = NewCopy(l, i)
      PROVE  x.change = y.change
  <2>1. Leads(l) /\ y.term = T(l) /\ y.id = i /\ y.change = lead[l].log[i]
    BY <1>0, <1>a, HeldDoes DEF NewCopy
  <2> QED
    BY <1>0, <1>a, <2>1 DEF TermsInv
<1>b. ASSUME NEW f \in Nodes, NEW l \in Nodes, NEW i \in Ids, NEW j \in Ids, Held(f, l, i, j), c = NewCopy(l, i),
             NEW g \in Nodes, NEW k \in Nodes, NEW i1 \in Ids, NEW j1 \in Ids, Held(g, k, i1, j1), e = NewCopy(k, i1)
      PROVE  c.change = e.change
  <2>1. Leads(l) /\ Leads(k)
    BY <1>b DEF Held
  <2>2. T(l) = T(k) /\ i = i1
    BY <1>1, <1>b DEF NewCopy
  <2>3. l = k
    BY <1>0, <2>1, <2>2, OneOfTerm DEF Leads, InCharge
  <2> QED
    BY <1>b, <2>2, <2>3 DEF NewCopy
<1> QED
  BY <1>0, <1>1, <1>a, <1>b, CopyBack DEF CopyInv

LEMMA TermsStep == ASSUME Step PROVE TermsInv'
<1>0. DInv /\ IInv /\ Types /\ Numbers /\ TermInv /\ EpochInv /\ TermsInv
  BY TypesHold DEF Step, DInv, IInv, WhoInv
<1>1. SUFFICES ASSUME NEW c \in Copy, IsCopy(c)', NEW n \in Nodes
               PROVE  /\ c.term <= Len(owner')
                      /\ Leads(n)' /\ c.term = T(n)' => c.id <= lead'[n].sent /\ c.change = lead'[n].log[c.id]
                      /\ proc'[n].role \in {"opening", "recovering", "settling"} => c.term # T(n)'
                      /\ Able(n)' => c.term <= T(n)'
  BY DEF TermsInv, IsCopy
<1>n. c.id \in Nat /\ c.id > 0 /\ c.term \in Nat /\ T(n) \in Nat /\ T(n)' \in Nat
  BY <1>0, TypesNext, CopyFields DEF Step, Types, T
<1>s. Len(owner) <= Len(owner') /\ Len(owner) \in Nat /\ Len(owner') \in Nat
  BY <1>0, StoreSteps, TypesNext DEF Step, Types
<1>2. CASE IsCopy(c)
  <2>1. c.term <= Len(owner)
    BY <1>0, <1>2 DEF TermsInv
  <2>2. ASSUME Leads(n)', c.term = T(n)' PROVE c.id <= lead'[n].sent /\ c.change = lead'[n].log[c.id]
    <3>1. Continues(n) /\ (Leads(n) \/ Served(n))
      BY <2>2, LeadsBack
    <3>2. T(n)' = T(n)
      BY <3>1 DEF Continues, T
    <3>3. ~ Served(n)
      BY <1>0, <1>2, <2>2, <3>2 DEF Served, TermsInv
    <3>4. c.id <= lead[n].sent /\ c.change = lead[n].log[c.id]
      BY <1>0, <1>2, <2>2, <3>1, <3>2, <3>3 DEF TermsInv
    <3>5. /\ lead[n].sent \in Nat /\ lead'[n].sent \in Nat /\ lead[n].sent <= Len(lead[n].log)
          /\ Len(lead[n].log) \in Nat
      BY <1>0, TypesNext DEF Step, Numbers
    <3>6. c.id \in 1 .. Len(lead[n].log)
      BY <1>n, <3>4, <3>5
    <3> QED
      BY <1>n, <3>1, <3>4, <3>5, <3>6, SMTT(60) DEF Continues
  <2>3. ASSUME proc'[n].role \in {"opening", "recovering", "settling"} PROVE c.term # T(n)'
    <3>1. CASE UNCHANGED <<proc, owner>>
      BY <1>0, <1>2, <2>3, <3>1 DEF TermsInv, T
    <3>2. CASE ~ UNCHANGED <<proc, owner>>
      BY <1>0, <1>2, <1>n, <1>s, <2>1, <2>3, <3>2, NewStages DEF TermsInv
    <3> QED
      BY <3>1, <3>2
  <2>4. ASSUME Able(n)' PROVE c.term <= T(n)'
    <3>1. CASE Opened(n)
      <4>1. proc[n].term = Len(owner) /\ proc'[n].term = proc[n].term
        BY <1>0, <3>1 DEF Opened, Step, Sound, IInv, OpeningInv
      <4>2. ~ LateOpen
        BY DEF Step, Sound
      <4> QED
        BY <2>1, <4>1 DEF T
    <3>2. CASE ~ Opened(n)
      BY <1>0, <1>2, <2>4, <3>2, AbleBack DEF TermsInv, Continues, T
    <3> QED
      BY <3>1, <3>2
  <2> QED
    BY <1>n, <1>s, <2>1, <2>2, <2>3, <2>4
<1>3. ASSUME NEW f \in Nodes, NEW l \in Nodes, NEW i \in Ids, NEW j \in Ids, Held(f, l, i, j), c = NewCopy(l, i)
      PROVE  /\ c.term <= Len(owner')
             /\ Leads(n)' /\ c.term = T(n)' => c.id <= lead'[n].sent /\ c.change = lead'[n].log[c.id]
             /\ proc'[n].role \in {"opening", "recovering", "settling"} => c.term # T(n)'
             /\ Able(n)' => c.term <= T(n)'
  <2>1. /\ Leads(l) /\ Helping(f, l) /\ i <= lead[l].sent
        /\ c.id = i /\ c.term = T(l) /\ c.change = lead[l].log[i]
    BY <1>0, <1>3, HeldDoes DEF NewCopy
  <2>2. UNCHANGED <<proc, owner, fence, lead>>
    BY <1>3 DEF Held, StreamSame, SameRoles
  <2>3. T(l) <= Len(owner)
    BY <1>0, <2>1 DEF TermInv, Leads, T, InCharge
  <2>4. ASSUME proc[n].role \in InCharge \cup {"opening"}, T(l) = T(n) PROVE l = n
    BY <1>0, <2>1, <2>4, OneOfTerm DEF Leads, InCharge
  <2>5. ASSUME Leads(n)', c.term = T(n)' PROVE c.id <= lead'[n].sent /\ c.change = lead'[n].log[c.id]
    <3>1. l = n
      BY <2>1, <2>2, <2>4, <2>5 DEF Leads, T, InCharge
    <3> QED
      BY <2>1, <2>2, <3>1
  <2>6. ASSUME proc'[n].role \in {"opening", "recovering", "settling"}, c.term = T(n)' PROVE FALSE
    <3>1. l = n
      BY <2>1, <2>2, <2>4, <2>6 DEF T, InCharge
    <3> QED
      BY <2>1, <2>2, <2>6, <3>1 DEF Leads
  <2>7. ASSUME Able(n)', T(n) < T(l) PROVE FALSE
    <3>1. Able(n)
      BY <2>2, <2>7, AbleBack DEF Opened, Leads
    <3>2. proc[n].epoch > 0 /\ proc[l].epoch > 0
      BY <1>0, <2>1, <3>1 DEF Able, EpochInv, Leads, InCharge
    <3>3. ~ Unfenced(n)
      BY <2>7, <3>2 DEF Step, Sound, DInv, IInv, OlderInv, OlderIsFenced, T
    <3>4. PICK g \in Base(n) : Helping(g, n)
      BY <3>1, <3>3 DEF Able
    <3>5. g \in Nodes
      BY <1>0, <3>4, BaseHolds DEF BaseType
    <3>6. proc[l].role = "recovering"
      BY <2>7, <3>2, <3>4, <3>5 DEF Step, DInv, WhoInv, HelpInv
    <3> QED
      BY <2>1, <3>6 DEF Leads
  <2>8. T(l) \in Nat
    BY <1>0 DEF T, Types
  <2>9. Able(n)' => c.term <= T(n)'
    BY <1>n, <2>1, <2>2, <2>7, <2>8 DEF T
  <2>10. c.term <= Len(owner')
    BY <2>1, <2>2, <2>3
  <2> QED
    BY <2>5, <2>6, <2>9, <2>10
<1> QED
  BY <1>1, <1>2, <1>3, CopyBack

\* Acknowledgements are sent as a change is kept.
LEMMA WireSteps ==
  ASSUME Step, NEW a \in wire'
  PROVE  a \in wire \/ \E f, l \in Nodes, i, j \in Ids :
            Held(f, l, i, j) /\ a = [from |-> f, to |-> l, term |-> T(l), first |-> j, upto |-> i]
<1>1. ASSUME NEW n \in Nodes, MovesOn(n) \/ Worked(n) PROVE wire' \subseteq wire
  BY <1>1 DEF MovesOn, Ended, Opened, Answered, Rewrote, Served, Worked, Wrote, Flushed, Sent,
              Confirmed, Noted, LoopSame, Shrunk, Counted, RoundSame
<1>2. ASSUME NEW f \in Nodes, Joined(f) \/ Dropped(f) \/ Fetched(f) \/ Pruned(f) PROVE wire' \subseteq wire
  BY <1>2 DEF Joined, Dropped, Fetched, Pruned
<1>3. ASSUME NEW f \in Nodes, NEW l \in Nodes, NEW i \in Ids, NEW j \in Ids, Held(f, l, i, j)
      PROVE  wire' = wire \cup {[from |-> f, to |-> l, term |-> T(l), first |-> j, upto |-> i]}
  BY <1>3, HeldDoes DEF Step
<1>4. ASSUME NEW x \in wire, Received(x) PROVE wire' \subseteq wire
  BY <1>4 DEF Received
<1>5. UNCHANGED vars => wire' = wire
  BY DEF vars
<1> QED
  BY <1>1, <1>2, <1>3, <1>4, <1>5 DEF Step, Goes, Followed

LEMMA WireStep == ASSUME Step PROVE WireInv'
<1>0. DInv /\ IInv /\ Types /\ TermInv /\ WireInv
  BY TypesHold DEF Step, DInv, IInv, WhoInv
<1>1. SUFFICES ASSUME NEW a \in wire'
               PROVE  /\ a.term <= Len(owner')
                      /\ proc'[a.to].role \in {"opening", "recovering", "settling"} => a.term # T(a.to)'
  BY DEF WireInv
<1>s. Len(owner) <= Len(owner') /\ Len(owner) \in Nat /\ Len(owner') \in Nat
  BY <1>0, StoreSteps, TypesNext DEF Step, Types
<1>2. CASE a \in wire
  <2>1. a.term <= Len(owner) /\ a.term \in Nat /\ a.to \in Nodes
    BY <1>0, <1>2, AckFields DEF WireInv, Types
  <2>2. CASE UNCHANGED <<proc, owner>>
    BY <1>0, <1>2, <2>2 DEF WireInv, T
  <2>3. CASE ~ UNCHANGED <<proc, owner>>
    <3>1. T(a.to)' \in Nat
      BY <2>1, TypesNext DEF Step, Types, T
    <3>2. ASSUME proc'[a.to].role \in {"opening", "recovering", "settling"} PROVE a.term # T(a.to)'
      BY <1>0, <1>2, <1>s, <2>1, <2>3, <3>1, <3>2, NewStages DEF WireInv
    <3> QED
      BY <1>s, <2>1, <3>2
  <2> QED
    BY <2>2, <2>3
<1>3. ASSUME NEW f \in Nodes, NEW l \in Nodes, NEW i \in Ids, NEW j \in Ids, Held(f, l, i, j),
             a = [from |-> f, to |-> l, term |-> T(l), first |-> j, upto |-> i]
      PROVE  /\ a.term <= Len(owner')
             /\ proc'[a.to].role \in {"opening", "recovering", "settling"} => a.term # T(a.to)'
  <2>1. UNCHANGED <<proc, owner>> /\ Leads(l) /\ a.to = l /\ a.term = T(l)
    BY <1>3 DEF Held, StreamSame, SameRoles
  <2>2. T(l) <= Len(owner)
    BY <1>0, <2>1 DEF TermInv, Leads, T, InCharge
  <2> QED
    BY <2>1, <2>2 DEF Leads
<1> QED
  BY <1>2, <1>3, WireSteps

\* Members to ask are asked one by one.
LEMMA TodoSteps ==
  ASSUME Step, NEW n \in Nodes, proc'[n].role = "recovering", ~ Opened(n)
  PROVE  /\ Continues(n) /\ proc[n].role = "recovering"
         /\ \/ lead'[n].todo = lead[n].todo /\ lead'[n].found = lead[n].found
            \/ \E p \in Nodes : Answered(n, p)
<1>0. proc'[n].epoch > 0
  BY DEF Step, IInv, EpochInv, InCharge
<1>1. Continues(n)
  BY <1>0, LeadSteps
<1>2. proc[n].role = "recovering"
  BY <1>1 DEF Continues, Rewrote, Served
<1>3. ASSUME NEW k \in Nodes, MovesOn(k), k # n PROVE lead'[n] = lead[n]
  BY <1>3 DEF MovesOn, Ended, Opened, Answered, Rewrote, Served, Others
<1>4. CASE MovesOn(n)
  <2>1. ~ Rewrote(n) /\ ~ Served(n)
    BY DEF Rewrote, Served
  <2>2. ~ \E p \in Proc : Ended(n, p)
    BY <1>0 DEF Ended
  <2> QED
    BY <1>1, <1>2, <1>4, <2>1, <2>2 DEF MovesOn
<1>5. ASSUME NEW k \in Nodes, Worked(k)
      PROVE  lead'[n].todo = lead[n].todo /\ lead'[n].found = lead[n].found
  BY <1>5 DEF Worked, Wrote, Flushed, Sent, Confirmed, Noted, LoopSame, Shrunk, Counted,
              RoundSame, SameAsked, Others
<1>6. ASSUME NEW k \in Nodes, Followed(k) PROVE lead' = lead
  BY <1>6 DEF Followed, Joined, Dropped, Fetched, Held, Pruned, StreamSame
<1>7. ASSUME NEW a \in wire, Received(a)
      PROVE  lead'[n].todo = lead[n].todo /\ lead'[n].found = lead[n].found
  BY <1>7 DEF Received, SameAsked
<1>8. UNCHANGED vars => lead' = lead
  BY DEF vars
<1> QED
  BY <1>1, <1>2, <1>3, <1>4, <1>5, <1>6, <1>7, <1>8 DEF Step, Goes

\* The members the bucket lists are those of a leader that flushed all it has.
LEMMA BaseInBucket ==
  ASSUME IInv, PrefixInv, NEW l \in Nodes, lead[l].flushed = Len(bucket)
  PROVE  Base(l) = Listed(bucket)
<1>1. bucket \in Seq(Change) /\ Len(bucket) \in Nat
  BY TypesHold DEF Types
<1>2. \A i \in 1 .. Len(bucket) : bucket[i] = lead[l].log[i]
  BY DEF PrefixInv
<1>3. ListedTo(bucket, Len(bucket)) = ListedTo(lead[l].log, Len(bucket))
  BY <1>1, <1>2, ListedToSame
<1>4. Listed(bucket) = ListedTo(bucket, Len(bucket))
  BY <1>1, ListedIsTo
<1> QED
  BY <1>3, <1>4 DEF Base

LEMMA HelpStep == ASSUME Step PROVE HelpInv'
<1>0. DInv /\ IInv /\ Types /\ TermInv /\ EpochInv /\ HelpInv /\ ~ LateOpen
  BY TypesHold DEF Step, DInv, IInv, WhoInv, Sound
<1>1. SUFFICES ASSUME NEW k \in Nodes, NEW l \in Nodes, NEW f \in Nodes,
                      proc'[k].epoch > 0, proc'[l].epoch > 0, T(l)' < T(k)', f \in Base(l)', Helping(f, l)'
               PROVE  proc'[k].role = "recovering" /\ f \in lead'[k].todo
  BY DEF HelpInv
<1>n. T(k)' \in Nat /\ T(l)' \in Nat /\ T(k) \in Nat /\ T(l) \in Nat /\ Len(owner) \in Nat
  BY <1>0, TypesNext DEF Step, Types, T
<1>2. k # l
  BY <1>1, <1>n
<1>3. T(k)' = T(k) /\ T(k) <= Len(owner)
  <2>1. CASE Opened(k)
    BY <1>0, <2>1 DEF Opened, TermInv, T
  <2>2. CASE ~ Opened(k)
    BY <1>0, <1>1, <2>2, LeadSteps DEF Continues, TermInv, EpochInv, T, InCharge
  <2> QED
    BY <2>1, <2>2
<1>4. Continues(l)
  <2>1. ~ Opened(l)
    <3>1. Opened(l) => T(l)' = Len(owner)
      BY <1>0 DEF Opened, OpeningInv, IInv, T
    <3> QED
      BY <1>1, <1>3, <1>n, <3>1
  <2> QED
    BY <1>1, <2>1, LeadSteps
<1>5. T(l)' = T(l) /\ T(l) < T(k) /\ proc[l].epoch > 0
  BY <1>1, <1>3, <1>4 DEF Continues, T
<1>6. ~ Flushed(l)
  <2>1. ASSUME Flushed(l) PROVE FALSE
    <3>1. proc' = proc /\ Unfenced(l)
      BY <2>1 DEF Flushed, SameRoles
    <3> QED
      BY <1>0, <1>1, <1>5, <3>1 DEF IInv, OlderInv, OlderIsFenced, T
  <2> QED
    BY <2>1
<1>7. f \in Base(l) /\ Helping(f, l)
  <2>1. f \in Base(l)
    BY <1>1, <1>4, <1>6, BaseSame
  <2>2. T(l) # Len(owner)
    BY <1>3, <1>5, <1>n
  <2> QED
    BY <1>1, <1>4, <2>1, <2>2, HelpingBack
<1>8. CASE Opened(k)
  <2>1. Able(l)
    BY <1>5, <1>7 DEF Able
  <2>2. Base(l) = Listed(bucket)
    BY <1>0, <2>1, BaseInBucket DEF DInv, WhoInv, AbleInv
  <2>3. f # k
    BY <1>7, <1>8 DEF Helping, Opened
  <2> QED
    BY <1>7, <1>8, <2>2, <2>3 DEF Opened
<1>9. CASE ~ Opened(k)
  <2>1. Continues(k)
    BY <1>1, <1>9, LeadSteps
  <2>2. proc[k].role = "recovering" /\ f \in lead[k].todo
    BY <1>0, <1>5, <1>7, <2>1 DEF HelpInv, Continues
  <2>3. proc'[k].role = "recovering"
    BY <2>1, <2>2 DEF Continues, Rewrote, Served
  <2>4. ASSUME NEW p \in Nodes, Answered(k, p) PROVE f \in lead'[k].todo
    <3>1. p # f
      <4>1. ASSUME p = f PROVE FALSE
        <5>1. fol'[f].seen >= T(k) /\ fol'[f].seen \in Nat
          BY <1>0, <2>4, <4>1, TypesNext DEF Answered, HeardOf, T, Step, Types
        <5>2. T(l)' >= fol'[f].seen
          BY <1>1 DEF Helping, Helps
        <5> QED
          BY <1>5, <1>n, <5>1, <5>2
      <4> QED
        BY <4>1
    <3> QED
      BY <2>2, <2>4, <3>1 DEF Answered
  <2> QED
    BY <1>9, <2>2, <2>3, <2>4, TodoSteps
<1> QED
  BY <1>8, <1>9

\* The bucket grows as a leader flushes.
LEMMA BucketSteps == ASSUME Step PROVE bucket' = bucket \/ \E n \in Nodes : Flushed(n)
<1>1. ASSUME NEW n \in Nodes, MovesOn(n) \/ (Worked(n) /\ ~ Flushed(n)) \/ Followed(n) PROVE bucket' = bucket
  BY <1>1 DEF MovesOn, Ended, Opened, Answered, Rewrote, Served, Worked, Wrote, Sent, Confirmed, Noted,
              LoopSame, Shrunk, Counted, RoundSame, Followed, Joined, Dropped, Fetched, Held, Pruned, StreamSame
<1>2. ASSUME NEW a \in wire, Received(a) PROVE bucket' = bucket
  BY <1>2 DEF Received
<1>3. UNCHANGED vars => bucket' = bucket
  BY DEF vars
<1> QED
  BY <1>1, <1>2, <1>3 DEF Step, Goes

LEMMA PrefixStep == ASSUME Step, StageInv' PROVE PrefixInv'
<1>0. DInv /\ IInv /\ Types /\ Numbers /\ EpochInv /\ BucketInv /\ PrefixInv
  BY TypesHold DEF Step, DInv, IInv, WhoInv
<1>1. SUFFICES ASSUME NEW n \in Nodes
               PROVE  /\ lead'[n].flushed <= Len(bucket')
                      /\ \A i \in 1 .. lead'[n].flushed : bucket'[i] = lead'[n].log[i]
  BY DEF PrefixInv
<1>n. /\ Len(bucket) <= Len(bucket') /\ \A i \in 1 .. Len(bucket) : bucket'[i] = bucket[i]
      /\ Len(bucket) \in Nat /\ Len(bucket') \in Nat /\ lead[n].flushed \in Nat /\ lead'[n].flushed \in Nat
      /\ lead[n].flushed <= Len(lead[n].log) /\ Len(lead[n].log) \in Nat
  BY <1>0, StoreSteps, TypesNext DEF Step, Types, Numbers
<1>2. CASE ~ (proc'[n].epoch > 0)
  <2>1. lead'[n] = NoLead
    BY <1>2 DEF StageInv, Step, IInv, EpochInv
  <2> QED
    BY <1>n, <2>1, NoLeadFields
<1>3. CASE Opened(n)
  BY <1>3, <1>n DEF Opened
<1>4. CASE proc'[n].epoch > 0 /\ ~ Opened(n) /\ ~ Flushed(n)
  <2>1. Continues(n) /\ lead'[n].flushed = lead[n].flushed
    BY <1>4, LeadSteps DEF Continues
  <2>2. \A i \in 1 .. lead[n].flushed :
           i \in 1 .. Len(bucket) /\ i \in 1 .. Len(lead[n].log) /\ bucket[i] = lead[n].log[i]
    BY <1>0, <1>n, SMTT(60) DEF PrefixInv
  <2>3. lead[n].flushed <= Len(bucket')
    BY <1>0, <1>n DEF PrefixInv
  <2> QED
    BY <1>n, <2>1, <2>2, <2>3 DEF Continues
<1>5. CASE Flushed(n)
  <2>1. /\ bucket' = Append(bucket, lead[n].log[lead[n].flushed + 1])
        /\ lead'[n].flushed = lead[n].flushed + 1 /\ lead'[n].log = lead[n].log
    BY <1>5 DEF Flushed
  <2>2. proc[n].epoch > 0
    BY <1>0, <1>5 DEF Flushed, Commits, EpochInv, InCharge
  <2>3. Len(bucket) = lead[n].flushed /\ \A i \in 1 .. Len(bucket) : bucket[i] = lead[n].log[i]
    BY <1>0, <1>5, <2>2 DEF BucketInv, Flushed
  <2>4. bucket \in Seq(Change)
    BY <1>0 DEF Types
  <2>5. /\ Len(bucket') = Len(bucket) + 1 /\ bucket'[Len(bucket) + 1] = lead[n].log[lead[n].flushed + 1]
        /\ \A i \in 1 .. Len(bucket) : bucket'[i] = bucket[i]
    BY <2>1, <2>4
  <2> QED
    BY <1>n, <2>1, <2>3, <2>5
<1> QED
  BY <1>2, <1>3, <1>4, <1>5

LEMMA AbleStep == ASSUME Step PROVE AbleInv'
<1>0. DInv /\ IInv /\ Types /\ EpochInv /\ AbleInv
  BY TypesHold DEF Step, DInv, IInv, WhoInv
<1>1. SUFFICES ASSUME NEW l \in Nodes, Able(l)' PROVE lead'[l].flushed = Len(bucket')
  BY DEF AbleInv
<1>2. CASE Opened(l)
  BY <1>2 DEF Opened
<1>3. CASE ~ Opened(l)
  <2>1. Continues(l) /\ Able(l)
    BY <1>1, <1>3, AbleBack
  <2>2. lead[l].flushed = Len(bucket)
    BY <1>0, <2>1 DEF AbleInv
  <2>3. CASE Flushed(l)
    <3>1. bucket \in Seq(Change) /\ bucket' = Append(bucket, lead[l].log[lead[l].flushed + 1])
      BY <1>0, <2>3 DEF Types, Flushed
    <3> QED
      BY <2>2, <2>3, <3>1 DEF Flushed
  <2>4. CASE ~ Flushed(l)
    <3>1. ASSUME NEW n \in Nodes, Flushed(n) PROVE FALSE
      <4>1. n # l /\ Commits(n) /\ Unfenced(n) /\ UNCHANGED <<proc, fence, owner, fol>>
        BY <2>4, <3>1 DEF Flushed, SameRoles
      <4>2. proc[n].epoch > 0 /\ proc[l].epoch > 0
        BY <1>0, <2>1, <4>1 DEF Continues, Commits, EpochInv, InCharge
      <4>3. ~ Unfenced(l)
        BY <1>0, <4>1, <4>2 DEF EpochInv, Unfenced
      <4>4. PICK f \in Base(l) : Helping(f, l)
        BY <2>1, <4>3 DEF Able
      <4>5. f \in Nodes
        BY <1>0, <4>4, BaseHolds DEF BaseType
      <4>6. proc[l].epoch < proc[n].epoch
        BY <1>0, <4>1, <4>3 DEF Unfenced, EpochInv, Types
      <4>7. T(l) < T(n)
        BY <1>0, <4>2, <4>6 DEF DInv, WhoInv, OrderInv
      <4>8. proc[n].role = "recovering"
        BY <1>0, <4>2, <4>4, <4>5, <4>7 DEF DInv, WhoInv, HelpInv
      <4> QED
        BY <4>1, <4>8 DEF Commits
    <3> QED
      BY <2>1, <2>2, <2>4, <3>1, BucketSteps DEF Continues
  <2> QED
    BY <2>3, <2>4
<1> QED
  BY <1>2, <1>3

LEMMA WhoStep == ASSUME Step PROVE WhoInv'
BY UniqueStep, OwnerStep, OrderStep, ConnStep, StageStep, LateStep, CopyStep, TermsStep, WireStep,
   HelpStep, PrefixStep, AbleStep DEF WhoInv

=============================================================================
