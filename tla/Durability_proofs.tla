------------------------- MODULE Durability_proofs -------------------------
(***************************************************************************)
(* No acknowledged change is lost or replaced: what each step does to the   *)
(* changes chosen and to their copies (WhatInv of Leaders_proofs), and the  *)
(* theorems.                                                                *)
(***************************************************************************)
EXTENDS Leaders_proofs

-----------------------------------------------------------------------------
(* What a leader was told, and whose copies count                          *)

\* Acknowledgements reach a leader from the wire.
LEMMA AcksSteps ==
  ASSUME Step, NEW l \in Nodes, Leads(l), Leads(l)', NEW f \in Nodes
  PROVE  \/ lead'[l].acks[f] = lead[l].acks[f]
         \/ \E a \in wire : /\ a.from = f /\ a.to = l /\ a.term = T(l)
                            /\ lead'[l].acks[f] = <<a.first, a.upto>>
<1>1. ASSUME NEW k \in Nodes, MovesOn(k) PROVE lead'[l] = lead[l]
  <2>1. CASE k # l
    BY <1>1, <2>1 DEF MovesOn, Ended, Opened, Answered, Rewrote, Served, Others
  <2>2. CASE k = l
    <3>1. proc'[l].epoch > 0
      BY DEF Step, IInv, EpochInv, Leads, InCharge
    <3> QED
      BY <1>1, <2>2, <3>1 DEF MovesOn, Ended, Opened, Answered, Rewrote, Served, Leads
  <2> QED
    BY <2>1, <2>2
<1>2. ASSUME NEW k \in Nodes, Worked(k) PROVE lead'[l].acks = lead[l].acks
  BY <1>2 DEF Worked, Wrote, Flushed, Sent, Confirmed, Noted, LoopSame, Shrunk, Counted, RoundSame, Others
<1>3. ASSUME NEW k \in Nodes, Followed(k) PROVE lead' = lead
  BY <1>3 DEF Followed, Joined, Dropped, Fetched, Held, Pruned, StreamSame
<1>4. ASSUME NEW a \in wire, Received(a)
      PROVE  \/ lead'[l].acks[f] = lead[l].acks[f]
             \/ /\ a.from = f /\ a.to = l /\ a.term = T(l)
                /\ lead'[l].acks[f] = <<a.first, a.upto>>
  BY <1>4 DEF Received, T
<1>5. UNCHANGED vars => lead' = lead
  BY DEF vars
<1> QED
  BY <1>1, <1>2, <1>3, <1>4, <1>5 DEF Step, Goes

LEMMA ToldBack ==
  ASSUME Step, NEW l \in Nodes, NEW f \in Nodes, NEW i \in Nat, i > 0, Leads(l)', Told(l, f, i)'
  PROVE  \/ Leads(l) /\ Told(l, f, i)
         \/ \E j \in Ids : Held(f, l, i, j) /\ i \in Ids
<1>0. DInv /\ StageInv /\ WireInv
  BY DEF Step, DInv, WhoInv
<1>1. Continues(l) /\ (Leads(l) \/ Served(l)) /\ T(l)' = T(l)
  BY LeadsBack DEF Continues, T
<1>2. ASSUME NEW a \in wire', a.from = f, a.to = l, a.term = T(l), a.upto = i
      PROVE  \/ Leads(l) /\ Told(l, f, i)
             \/ \E j \in Ids : Held(f, l, i, j) /\ i \in Ids
  <2>1. CASE a \in wire
    <3>1. ~ Served(l)
      BY <1>0, <1>2, <2>1 DEF Served, WireInv
    <3> QED
      BY <1>1, <1>2, <2>1, <3>1 DEF Told
  <2>2. ASSUME NEW g \in Nodes, NEW k \in Nodes, NEW i1 \in Ids, NEW j \in Ids, Held(g, k, i1, j),
               a = [from |-> g, to |-> k, term |-> T(k), first |-> j, upto |-> i1]
        PROVE  Held(f, l, i, j) /\ i \in Ids
    BY <1>2, <2>2
  <2> QED
    BY <2>1, <2>2, WireSteps
<1>3. CASE lead'[l].acks[f][2] = i
  <2>1. CASE Served(l)
    <3>1. lead' = lead /\ lead[l].acks = NoLead.acks
      BY <1>0, <2>1 DEF Served, StageInv, Leads
    <3>2. lead'[l].acks[f] = <<1, 0>>
      BY <3>1, NoLeadFields DEF None
    <3> QED
      BY <1>3, <3>2
  <2>2. CASE Leads(l)
    <3>1. CASE lead'[l].acks[f] = lead[l].acks[f]
      BY <1>3, <2>2, <3>1 DEF Told
    <3>2. ASSUME NEW a \in wire, a.from = f, a.to = l, a.term = T(l), lead'[l].acks[f] = <<a.first, a.upto>>
          PROVE  Told(l, f, i)
      BY <1>3, <3>2 DEF Told
    <3> QED
      BY <2>2, <3>1, <3>2, AcksSteps
  <2> QED
    BY <1>1, <2>1, <2>2
<1> QED
  BY <1>1, <1>2, <1>3 DEF Told

\* The members that count, or will, leave; new ones come as a list is flushed.
LEMMA CountersBack ==
  ASSUME Step, NEW l \in Nodes, Leads(l), Leads(l)', ~ Flushed(l)
  PROVE  Counters(l)' \subseteq Counters(l)
<1>0. Numbers /\ RoundOK(lead[l])
  BY TypesHold DEF Step, DInv, RoundInv
<1>1. Continues(l) /\ Base(l)' = Base(l) /\ lead'[l].flushed = lead[l].flushed
  BY LeadsBack, BaseSame DEF Continues
<1>n. /\ lead[l].flushed \in Nat /\ lead[l].durable \in Nat /\ Len(lead[l].log) \in Nat
      /\ lead[l].durable <= lead[l].flushed /\ lead[l].flushed <= Len(lead[l].log)
  BY <1>0 DEF Numbers
<1>2. lead[l].counting \subseteq Base(l)
  BY <1>0 DEF RoundOK, Base
<1>a. ASSUME lead'[l].counting = lead[l].counting, lead'[l].job = lead[l].job
      PROVE  Counters(l)' \subseteq Counters(l)
  BY <1>1, <1>a DEF Counters
<1>3. ASSUME NEW k \in Nodes, MovesOn(k) PROVE lead'[l] = lead[l]
  <2>1. CASE k # l
    BY <1>3, <2>1 DEF MovesOn, Ended, Opened, Answered, Rewrote, Served, Others
  <2>2. CASE k = l
    <3>1. proc'[l].epoch > 0
      BY DEF Step, IInv, EpochInv, Leads, InCharge
    <3> QED
      BY <1>3, <2>2, <3>1 DEF MovesOn, Ended, Opened, Answered, Rewrote, Served, Leads
  <2> QED
    BY <2>1, <2>2
<1>4. ASSUME NEW k \in Nodes, Worked(k), k # l PROVE lead'[l] = lead[l]
  BY <1>4 DEF Worked, Wrote, Flushed, Sent, Confirmed, Noted, LoopSame, Shrunk, Counted, RoundSame, Others
<1>5. CASE Sent(l) \/ Confirmed(l) \/ Noted(l)
  BY <1>5, <1>a DEF Sent, Confirmed, Noted, LoopSame, SameRound
<1>6. ASSUME NEW w \in Change, Wrote(l, w) PROVE Counters(l)' \subseteq Counters(l)
  <2>1. CASE lead'[l].job = lead[l].job
    BY <1>6, <1>a, <2>1 DEF Wrote
  <2>2. CASE lead[l].job.at = "drain" /\ lead'[l].job.upto = Len(lead[l].log) + 1 /\ lead'[l].job.at = "list"
    <3>1. Counters(l)' = lead[l].counting
      BY <1>1, <1>6, <1>n, <2>2 DEF Counters, Wrote
    <3>2. Counters(l) = Base(l)
      BY <2>2 DEF Counters
    <3> QED
      BY <1>2, <3>1, <3>2
  <2> QED
    BY <1>6, <2>1, <2>2 DEF Wrote
<1>7. CASE Shrunk(l)
  <2>1. Counters(l)' = Base(l)'
    BY <1>7 DEF Shrunk, Counters
  <2>2. Counters(l) = Base(l)
    BY <1>7 DEF Shrunk, Counters, Idle
  <2> QED
    BY <1>1, <2>1, <2>2
<1>8. CASE Counted(l)
  <2>1. Counters(l)' = Base(l)'
    BY <1>8 DEF Counted, Counters, Idle
  <2>2. lead[l].job.upto \in 1 .. Len(lead[l].log) /\ lead[l].durable >= lead[l].job.upto
    BY <1>0, <1>8 DEF Counted, RoundOK, JobInBucket
  <2>3. ~ (lead[l].flushed < lead[l].job.upto)
    BY <1>n, <2>2
  <2>4. Counters(l) = Base(l)
    BY <2>3 DEF Counters
  <2> QED
    BY <1>1, <2>1, <2>4
<1>9. ASSUME NEW k \in Nodes, Followed(k) PROVE lead' = lead
  BY <1>9 DEF Followed, Joined, Dropped, Fetched, Held, Pruned, StreamSame
<1>10. ASSUME NEW a \in wire, Received(a) PROVE lead'[l].counting = lead[l].counting /\ lead'[l].job = lead[l].job
  BY <1>10 DEF Received, SameRound
<1>11. UNCHANGED vars => lead' = lead
  BY DEF vars
<1>12. lead'[l] = lead[l] => Counters(l)' \subseteq Counters(l)
  BY <1>a
<1> QED
  BY <1>3, <1>4, <1>5, <1>6, <1>7, <1>8, <1>9, <1>10, <1>11, <1>12, <1>a DEF Step, Goes, Worked

\* Whoever counts is a member the flushed changes list.
CountersOK ==
    \A l \in Nodes : Leads(l) =>
        /\ Counters(l) \subseteq Base(l) /\ Counters(l) \subseteq Nodes
        /\ lead[l].counting \subseteq Counters(l)
LEMMA CountersHold == IInv /\ RoundInv => CountersOK
<1> SUFFICES ASSUME IInv, RoundInv, NEW l \in Nodes, Leads(l)
             PROVE  /\ Counters(l) \subseteq Base(l) /\ Base(l) \subseteq Nodes
                    /\ lead[l].counting \subseteq Counters(l)
  BY DEF CountersOK
<1> QED
  BY BaseHolds DEF RoundInv, RoundOK, Counters, Base, BaseType
LEMMA CountersNext == IInv' /\ RoundInv' => CountersOK'
  BY CountersHold, PTL

-----------------------------------------------------------------------------
(* What gets chosen                                                        *)

\* A change of l is chosen by f's copy just now: it is counted, and was told.
Fresh(l, f) ==
    /\ Leads(l) /\ lead[l].sent > lead[l].committed /\ Beyond(lead[l].sent)
    /\ f \in Counters(l) /\ Told(l, f, lead[l].sent)
    /\ Helping(f, l) \/ Unfenced(l)

LEMMA BackedStep ==
  ASSUME Step, NEW l \in Nodes, Backed(l)'
  PROVE  /\ Continues(l) /\ Leads(l)
         /\ \/ Backed(l) /\ lead'[l].sent = lead[l].sent
            \/ \E f \in Nodes :
                  /\ f \in Counters(l)' /\ Told(l, f, lead[l].sent)'
                  /\ \/ Flushed(l) /\ Unfenced(l)'
                     \/ \E j \in Ids : Held(f, l, lead'[l].sent, j) /\ lead'[l].sent \in Ids
<1>0. DInv /\ IInv /\ Numbers /\ TellInv
  BY TypesHold DEF Step, DInv, WhatInv
<1>1. Leads(l)' /\ lead'[l].sent > lead'[l].committed
  BY DEF Backed
<1>2. Continues(l) /\ (Leads(l) \/ Served(l))
  BY <1>1, LeadsBack
<1>n. /\ lead[l].sent \in Nat /\ lead[l].committed \in Nat /\ lead[l].committed <= lead[l].sent
      /\ lead[l].sent <= Len(lead[l].log) /\ Len(lead[l].log) \in Nat
      /\ lead'[l].sent \in Nat /\ lead'[l].committed \in Nat
  BY <1>0, TypesNext DEF Step, Numbers
<1>3. ~ Served(l)
  <2>1. Served(l) => lead' = lead /\ lead[l].committed = Len(lead[l].log)
    BY DEF Served
  <2> QED
    BY <1>1, <1>n, <2>1
<1>4. Leads(l)
  BY <1>2, <1>3
<1>5. PICK f \in Counters(l)' : Told(l, f, lead[l].sent)'
  BY DEF Backed
<1>6. f \in Nodes
  BY <1>1, <1>5, CountersNext DEF CountersOK, Step
<1>7. lead'[l].sent > 0
  BY <1>1, <1>n
<1>8. CASE Told(l, f, lead'[l].sent)
  <2>1. lead'[l].sent = lead[l].sent
    <3>1. lead'[l].sent <= lead[l].sent
      BY <1>0, <1>4, <1>6, <1>7, <1>8, <1>n DEF TellInv
    <3> QED
      BY <1>2, <1>n, <3>1 DEF Continues
  <2>2. lead[l].sent > lead[l].committed
    BY <1>1, <1>2, <1>n, <2>1 DEF Continues
  <2>3. CASE f \in Counters(l)
    BY <1>2, <1>4, <1>8, <2>1, <2>2, <2>3 DEF Backed
  <2>4. CASE f \notin Counters(l)
    <3>1. Flushed(l)
      BY <1>1, <1>4, <1>5, <2>4, CountersBack
    <3>2. Unfenced(l)'
      BY <3>1 DEF Flushed, Unfenced, SameRoles
    <3> QED
      BY <1>2, <1>4, <1>5, <1>6, <3>1, <3>2
  <2> QED
    BY <2>3, <2>4
<1>9. ASSUME NEW j \in Ids, Held(f, l, lead'[l].sent, j), lead'[l].sent \in Ids
      PROVE  \E x \in Ids : Held(f, l, lead'[l].sent, x) /\ lead'[l].sent \in Ids
  BY <1>9
<1>10. Told(l, f, lead'[l].sent) \/ \E j \in Ids : Held(f, l, lead'[l].sent, j) /\ lead'[l].sent \in Ids
  <2>1. PICK i \in Nat : i = lead'[l].sent
    BY <1>n
  <2>2. i > 0 /\ Told(l, f, i)'
    BY <1>5, <1>7, <2>1 DEF Told
  <2>3. Told(l, f, i) \/ \E j \in Ids : Held(f, l, i, j) /\ i \in Ids
    BY <1>1, <1>6, <2>2, ToldBack
  <2> QED
    BY <2>1, <2>3
<1> QED
  BY <1>2, <1>4, <1>5, <1>6, <1>8, <1>10

\* A copy that will make a change chosen is firm, and nobody newer was told yet.
FreshFirm ==
    \A l, f \in Nodes : Fresh(l, f) =>
        /\ Able(l) /\ lead[l].flushed = Len(bucket) /\ Base(l) = Listed(bucket)
        /\ f \in Listed(bucket)
        /\ \E c \in held[f] : Of(c, NextOf(l)) /\ c.term = T(l)
        /\ Top(T(l))
        /\ \A k \in Nodes :
              proc[k].epoch > 0 /\ (T(l) < T(k) \/ (Unfenced(k) /\ k # l))
                 => proc[k].role = "recovering" /\ f \in lead[k].todo
LEMMA FreshHolds == IInv /\ RoundInv /\ WhoInv /\ TellInv => FreshFirm
<1> SUFFICES ASSUME IInv, RoundInv, WhoInv, TellInv, NEW l \in Nodes, NEW f \in Nodes, Fresh(l, f)
             PROVE  /\ Able(l) /\ lead[l].flushed = Len(bucket) /\ Base(l) = Listed(bucket)
                    /\ f \in Listed(bucket)
                    /\ \E c \in held[f] : Of(c, NextOf(l)) /\ c.term = T(l)
                    /\ Top(T(l))
                    /\ \A k \in Nodes :
                          proc[k].epoch > 0 /\ (T(l) < T(k) \/ (Unfenced(k) /\ k # l))
                             => proc[k].role = "recovering" /\ f \in lead[k].todo
  BY DEF FreshFirm
<1>0. Types /\ Numbers /\ EpochInv /\ TermInv
  BY TypesHold DEF IInv
<1>1. Leads(l) /\ proc[l].epoch > 0
  BY <1>0 DEF Fresh, EpochInv, Leads, InCharge
<1>2. f \in Base(l)
  BY <1>1, CountersHold DEF CountersOK, Fresh
<1>3. Able(l)
  BY <1>1, <1>2 DEF Fresh, Able
<1>4. lead[l].flushed = Len(bucket) /\ Base(l) = Listed(bucket)
  BY <1>3, BaseInBucket DEF WhoInv, AbleInv
<1>5. PICK c \in held[f] : c.id = lead[l].sent /\ c.term = T(l)
  BY <1>0, <1>1 DEF Fresh, TellInv, Numbers
<1>6. c \in Copy /\ IsCopy(c)
  BY <1>0 DEF Types, IsCopy
<1>7. Of(c, NextOf(l))
  BY <1>1, <1>5, <1>6 DEF WhoInv, TermsInv, Of, NextOf
<1>8. ASSUME NEW k \in Nodes, proc[k].epoch > 0, T(l) < T(k) \/ (Unfenced(k) /\ k # l)
      PROVE  T(l) < T(k) /\ proc[k].role = "recovering" /\ f \in lead[k].todo
  <2>1. T(l) < T(k)
    <3>1. ASSUME Unfenced(k), k # l PROVE proc[l].epoch < proc[k].epoch
      <4>1. proc[l].epoch <= proc[k].epoch /\ proc[l].epoch # proc[k].epoch
        BY <1>0, <1>1, <3>1 DEF EpochInv, Unfenced
      <4> QED
        BY <1>0, <4>1 DEF Types
    <3> QED
      BY <1>1, <1>8, <3>1 DEF WhoInv, OrderInv
  <2>2. CASE Helping(f, l)
    BY <1>1, <1>2, <1>8, <2>1, <2>2 DEF WhoInv, HelpInv
  <2>3. CASE Unfenced(l)
    <3>1. \A a, b \in Nodes : proc[a].epoch > 0 /\ proc[b].epoch > 0 /\ T(a) < T(b) => proc[a].epoch < proc[b].epoch
      BY DEF WhoInv, OrderInv
    <3>2. proc[l].epoch < proc[k].epoch /\ proc[k].epoch <= fence
      BY <1>0, <1>1, <1>8, <2>1, <3>1 DEF EpochInv
    <3> QED
      BY <1>0, <2>3, <3>2 DEF Unfenced, Types
  <2> QED
    BY <2>1, <2>2, <2>3 DEF Fresh
<1>9. Top(T(l))
  <2>1. \A e \in Copy : IsCopy(e) => e.term <= T(l)
    BY <1>3 DEF WhoInv, TermsInv
  <2>2. ASSUME NEW k \in Nodes, Leads(k) PROVE T(k) <= T(l)
    <3>1. proc[k].epoch > 0
      BY <1>0, <2>2 DEF EpochInv, Leads, InCharge
    <3>2. ~ (T(l) < T(k))
      BY <1>8, <2>2, <3>1 DEF Leads
    <3> QED
      BY <1>0, <3>2 DEF T, Types
  <2> QED
    BY <2>1, <2>2 DEF Top
<1> QED
  BY <1>2, <1>3, <1>4, <1>5, <1>7, <1>8, <1>9
LEMMA FreshNext == IInv' /\ RoundInv' /\ WhoInv' /\ TellInv' => FreshFirm'
  BY FreshHolds, PTL

\* A leader commits what it flushed, or what a copy that counts was told of.
LEMMA ConfirmedBy ==
  ASSUME Step, NEW l \in Nodes, Confirmed(l)
  PROVE  lead[l].flushed >= lead[l].sent \/ Backed(l)
<1>0. DInv /\ IInv /\ Types /\ Numbers /\ TellInv
  BY TypesHold DEF Step, DInv, WhoInv, WhatInv
<1>1. lead[l].sent = lead[l].committed + 1 /\ Commits(l)
  BY DEF Confirmed, LoopSame
<1>2. lead[l].sent \in Nat /\ lead[l].committed \in Nat
  BY <1>0 DEF Numbers
<1>3. SUFFICES ASSUME ~ (lead[l].flushed >= lead[l].sent) PROVE Backed(l)
  OBVIOUS
<1>4. PICK f \in Nodes : f \in Holders(l, lead[l].sent)
  BY <1>3 DEF Confirmed
<1>5. f \in lead[l].counting /\ lead[l].sent <= lead[l].acks[f][2]
  BY <1>4 DEF Holders
<1>6. Leads(l)
  BY <1>5 DEF Step, DInv, RoundInv
<1>7. f \in Counters(l)
  BY <1>5, <1>6, CountersHold DEF Step, DInv, CountersOK
<1>8. lead[l].acks[f][2] \in Nat
  <2>1. lead[l].acks \in [Nodes -> (Nat \X Nat)]
    BY <1>0, LeadFields DEF IInv, TypeOK
  <2>2. lead[l].acks[f] \in Nat \X Nat
    BY <2>1
  <2> QED
    BY <2>2
<1>9. lead[l].acks[f][2] = lead[l].sent
  <2>1. lead[l].acks[f][2] > 0 /\ Told(l, f, lead[l].acks[f][2])
    BY <1>1, <1>2, <1>5, <1>8 DEF Told
  <2>2. lead[l].acks[f][2] <= lead[l].sent
    BY <1>0, <1>6, <1>8, <2>1 DEF TellInv
  <2> QED
    BY <1>2, <1>5, <1>8, <2>2
<1>10. Told(l, f, lead[l].sent)
  BY <1>9 DEF Told
<1> QED
  BY <1>1, <1>2, <1>6, <1>7, <1>10 DEF Backed

\* What is chosen was, or is just now.
LEMMA ChosenStep ==
  ASSUME Step, NEW p \in Placed, Chosen(p)'
  PROVE  \/ Chosen(p)
         \/ \E l, f \in Nodes :
               /\ Fresh(l, f)' /\ p = NextOf(l)' /\ acked' = acked
               /\ Unfenced(l)' \/ bucket' = bucket
<1>0. DInv /\ IInv /\ Types /\ Numbers /\ PrefixInv /\ TellInv
  BY TypesHold DEF Step, DInv, WhoInv, WhatInv
<1>n. Len(bucket) <= Len(bucket') /\ Len(bucket) \in Nat /\ Len(bucket') \in Nat /\ p.id \in Nat
  BY <1>0, StoreSteps, TypesNext, PlacedFields DEF Step, Types
<1>1. p.id > Len(bucket') /\ p.id > Len(bucket)
  BY <1>n DEF Chosen, Beyond
<1>2. ASSUME NEW l \in Nodes, Confirmed(l), p = NextOf(l) PROVE Chosen(p)
  <2>1. bucket' = bucket /\ p.id = lead[l].sent /\ lead[l].sent = lead[l].committed + 1 /\ Commits(l)
    BY <1>2 DEF Confirmed, LoopSame, NextOf
  <2>2. lead[l].sent \in Nat /\ lead[l].committed \in Nat /\ lead[l].flushed \in Nat
    BY <1>0 DEF Numbers
  <2>3. ~ (lead[l].flushed >= lead[l].sent)
    BY <1>0, <1>1, <1>n, <2>1, <2>2 DEF PrefixInv
  <2>4. Backed(l)
    BY <1>2, <2>3, ConfirmedBy
  <2> QED
    BY <1>1, <1>2, <2>4 DEF Chosen, Beyond
<1>3. CASE p \in acked'
  <2>1. p \in acked \/ \E l \in Nodes : Confirmed(l) /\ p = NextOf(l)
    <3>1. ASSUME NEW n \in Nodes, MovesOn(n) \/ (Worked(n) /\ ~ Confirmed(n)) \/ Followed(n) PROVE acked' = acked
      BY <3>1 DEF MovesOn, Ended, Opened, Answered, Rewrote, Served, Worked, Wrote, Flushed, Sent, Noted,
                  Shrunk, Counted, RoundSame, Followed, Joined, Dropped, Fetched, Held, Pruned, StreamSame
    <3>2. ASSUME NEW a \in wire, Received(a) PROVE acked' = acked
      BY <3>2 DEF Received
    <3>3. UNCHANGED vars => acked' = acked
      BY DEF vars
    <3>4. ASSUME NEW n \in Nodes, Confirmed(n) PROVE p \in acked \/ p = NextOf(n)
      BY <1>3, <3>4 DEF Confirmed, NextOf
    <3> QED
      BY <1>3, <3>1, <3>2, <3>3, <3>4 DEF Step, Goes
  <2> QED
    BY <1>1, <1>2, <2>1 DEF Chosen, Beyond
<1>4. ASSUME NEW l \in Nodes, Backed(l)', p = NextOf(l)'
      PROVE  \/ Chosen(p)
             \/ \E f \in Nodes : /\ Fresh(l, f)' /\ acked' = acked
                                 /\ Unfenced(l)' \/ bucket' = bucket
  <2>1. Continues(l) /\ Leads(l) /\ Leads(l)' /\ lead'[l].sent > lead'[l].committed
    BY <1>4, BackedStep DEF Backed
  <2>2. p.id = lead'[l].sent /\ Beyond(lead[l].sent)'
    BY <1>1, <1>4 DEF NextOf, Beyond
  <2>3. CASE Backed(l) /\ lead'[l].sent = lead[l].sent
    <3>1. lead[l].sent \in 1 .. Len(lead[l].log)
      BY <1>0, <1>1, <1>n, <2>2, <2>3 DEF Numbers
    <3>2. p = NextOf(l)
      BY <1>4, <2>1, <2>3, <3>1 DEF NextOf, Continues
    <3> QED
      BY <1>1, <2>3, <3>2 DEF Chosen, Beyond
  <2>4. ASSUME NEW f \in Nodes, f \in Counters(l)', Told(l, f, lead[l].sent)', Flushed(l), Unfenced(l)'
        PROVE  Fresh(l, f)' /\ acked' = acked
    BY <2>1, <2>2, <2>4 DEF Fresh, Flushed
  <2>5. ASSUME NEW f \in Nodes, f \in Counters(l)', Told(l, f, lead[l].sent)',
               NEW j \in Ids, Held(f, l, lead'[l].sent, j), lead'[l].sent \in Ids
        PROVE  Fresh(l, f)' /\ acked' = acked /\ bucket' = bucket
    <3>1. Helping(f, l)
      BY <1>0, <2>5, HeldDoes
    <3>2. UNCHANGED <<proc, owner, lead, acked, bucket>> /\ fol'[f].seen = fol[f].seen
      BY <2>5 DEF Held, StreamSame, SameRoles
    <3>3. Helping(f, l)'
      BY <3>1, <3>2 DEF Helping, Helps, LeaderOf, T
    <3> QED
      BY <2>1, <2>2, <2>5, <3>2, <3>3 DEF Fresh
  <2> QED
    BY <1>4, <2>3, <2>4, <2>5, BackedStep
<1> QED
  BY <1>3, <1>4 DEF Chosen

-----------------------------------------------------------------------------
(* What leaders were told, and what they commit                            *)

\* A copy that no leader flushed, and that none is too new for, stays, or is
\* replaced by one of its term.
LEMMA KeepsUnflushed ==
  ASSUME Step, NEW f \in Nodes, NEW c \in held[f],
         \A k \in Nodes : Leads(k) => T(k) <= c.term /\ lead[k].flushed < c.id
  PROVE  \E m \in held'[f] : m.id = c.id /\ m.term = c.term
<1>0. DInv /\ Types /\ Numbers /\ UniqueInv
  BY TypesHold DEF Step, DInv, WhoInv
<1>1. c \in Copy /\ c.id \in Nat /\ c.term \in Nat /\ held[f] \in SUBSET Copy
  BY <1>0, CopyFields DEF Types
<1>2. CASE Joined(f)
  <2>1. PICK k \in Nodes : Leads(k) /\ held'[f] = {x \in held[f] : x.term >= T(k)}
    BY <1>2 DEF Joined, T
  <2>2. T(k) \in Nat /\ T(k) <= c.term
    BY <1>0, <2>1 DEF Types, T
  <2> QED
    BY <1>1, <2>1, <2>2
<1>3. CASE Pruned(f)
  <2>1. PICK k \in Nodes : Leads(k) /\ (c \in held'[f] \/ c.id <= lead[k].durable)
    BY <1>3 DEF Pruned
  <2>2. lead[k].durable <= lead[k].flushed /\ lead[k].durable \in Nat /\ lead[k].flushed \in Nat
    BY <1>0 DEF Numbers
  <2> QED
    BY <1>1, <2>1, <2>2
<1>4. ASSUME NEW l \in Nodes, NEW i \in Ids, NEW j \in Ids, Held(f, l, i, j)
      PROVE  \E m \in held'[f] : m.id = c.id /\ m.term = c.term
  <2>1. /\ Leads(l) /\ NewCopy(l, i) \in Copy
        /\ held'[f] = Merge(held[f], {NewCopy(l, i)})
    BY <1>0, <1>4, HeldDoes
  <2>2. Single(held[f]) /\ Single({NewCopy(l, i)})
    BY <1>0 DEF UniqueInv, Single
  <2>3. PICK m \in Merge(held[f], {NewCopy(l, i)}) :
           m.id = c.id /\ m.term >= c.term /\ (m \in held[f] => m = c)
    BY <1>1, <2>1, <2>2, MergeFacts
  <2>4. m \in held[f] \/ m = NewCopy(l, i)
    BY <2>3 DEF Merge
  <2>5. NewCopy(l, i).term = T(l) /\ T(l) <= c.term /\ T(l) \in Nat
    BY <1>0, <2>1 DEF NewCopy, Types, T
  <2>6. m.term = c.term
    BY <1>1, <2>3, <2>4, <2>5
  <2> QED
    BY <2>1, <2>3, <2>6
<1> QED
  BY <1>1, <1>2, <1>3, <1>4, HeldBack

\* A copy beyond the bucket isn't flushed.
LEMMA KeepsCopy ==
  ASSUME Step, NEW f \in Nodes, NEW c \in held[f], Beyond(c.id)',
         \A k \in Nodes : Leads(k) => T(k) <= c.term
  PROVE  \E m \in held'[f] : m.id = c.id /\ m.term = c.term
<1>0. Types /\ Numbers /\ Types' /\ PrefixInv
  BY TypesHold, TypesNext DEF Step, DInv, WhoInv
<1>1. c.id \in Nat /\ c.id > Len(bucket')
  BY <1>0, CopyFields DEF Types, Beyond
<1>2. ASSUME NEW k \in Nodes PROVE lead[k].flushed < c.id
  <2>1. lead[k].flushed <= Len(bucket) /\ Len(bucket) <= Len(bucket')
        /\ lead[k].flushed \in Nat /\ Len(bucket) \in Nat /\ Len(bucket') \in Nat
    BY <1>0, StoreSteps DEF PrefixInv, Numbers, Types
  <2> QED
    BY <1>1, <2>1
<1> QED
  BY <1>2, KeepsUnflushed

LEMMA TellStep == ASSUME Step, WhoInv' PROVE TellInv'
<1>0. DInv /\ IInv /\ Types /\ Numbers /\ TellInv /\ OnlyInv
  BY TypesHold DEF Step, DInv, WhatInv
<1>1. SUFFICES ASSUME NEW l \in Nodes, NEW f \in Nodes, NEW i \in Nat, Leads(l)', i > 0, Told(l, f, i)'
               PROVE  /\ i <= lead'[l].sent
                      /\ (f \in Counters(l)' \/ Unfenced(l)') /\ Beyond(i)' =>
                            \E c \in held'[f] : c.id = i /\ c.term = T(l)'
  BY DEF TellInv
<1>2. Continues(l) /\ T(l)' = T(l)
  BY <1>1, LeadsBack DEF Continues, T
<1>n. /\ lead[l].sent \in Nat /\ lead'[l].sent \in Nat /\ lead[l].sent <= lead'[l].sent
      /\ lead[l].committed \in Nat /\ Len(bucket) \in Nat /\ Len(bucket') \in Nat /\ Len(bucket) <= Len(bucket')
      /\ lead[l].sent <= lead[l].committed + 1 /\ lead[l].committed <= lead[l].sent
      /\ T(l) \in Nat
  BY <1>0, <1>2, TypesNext, StoreSteps DEF Step, Numbers, Types, Continues, T
<1>3. ASSUME NEW j \in Ids, Held(f, l, i, j), i \in Ids
      PROVE  /\ i <= lead'[l].sent
             /\ (f \in Counters(l)' \/ Unfenced(l)') /\ Beyond(i)' =>
                   \E c \in held'[f] : c.id = i /\ c.term = T(l)'
  <2>1. /\ Leads(l) /\ Helping(f, l) /\ i <= lead[l].sent
        /\ held'[f] = Merge(held[f], {NewCopy(l, i)}) /\ NewCopy(l, i) \in Copy
    BY <1>0, <1>3, HeldDoes
  <2>2. UNCHANGED <<proc, owner, fence, lead>> /\ fol'[f].seen = fol[f].seen
    BY <1>3 DEF Held, StreamSame, SameRoles
  <2>3. ASSUME f \in Counters(l)' \/ Unfenced(l)'
        PROVE  \E c \in held'[f] : c.id = i /\ c.term = T(l)'
    <3>1. Able(l)'
      <4>1. proc'[l].epoch > 0
        BY <1>1 DEF Step, IInv, EpochInv, Leads, InCharge
      <4>2. Helping(f, l)'
        BY <2>1, <2>2 DEF Helping, Helps, LeaderOf, T
      <4>3. f \in Counters(l)' => f \in Base(l)'
        BY <1>1, CountersNext DEF CountersOK, Step
      <4> QED
        BY <2>3, <4>1, <4>2, <4>3 DEF Able
    <3>2. Single(held[f]) /\ Single({NewCopy(l, i)}) /\ held[f] \in SUBSET Copy
      BY <1>0 DEF DInv, WhoInv, UniqueInv, Single, Types
    <3>3. PICK m \in Merge(held[f], {NewCopy(l, i)}) :
             m.id = NewCopy(l, i).id /\ m.term >= NewCopy(l, i).term
      BY <2>1, <3>2, MergeFacts
    <3>4. m \in held'[f] /\ m \in Copy
      BY <2>1, <3>2, <3>3 DEF Merge
    <3>5. m.term <= T(l)'
      BY <3>1, <3>4 DEF WhoInv, TermsInv, IsCopy
    <3>6. m.id = i /\ m.term >= T(l)
      BY <3>3 DEF NewCopy
    <3>7. m.term \in Nat
      BY <3>4, CopyFields
    <3> QED
      BY <1>2, <1>n, <3>4, <3>5, <3>6, <3>7
  <2> QED
    BY <2>1, <2>2, <2>3
<1>4. ASSUME Leads(l), Told(l, f, i)
      PROVE  /\ i <= lead'[l].sent
             /\ (f \in Counters(l)' \/ Unfenced(l)') /\ Beyond(i)' =>
                   \E c \in held'[f] : c.id = i /\ c.term = T(l)'
  <2>1. i <= lead[l].sent
    BY <1>0, <1>1, <1>4 DEF TellInv
  <2>2. ASSUME f \in Counters(l)' \/ Unfenced(l)', Beyond(i)'
        PROVE  \E c \in held'[f] : c.id = i /\ c.term = T(l)'
    <3>1. Beyond(i)
      BY <1>n, <2>2 DEF Beyond
    <3>2. f \in Counters(l) \/ Unfenced(l)
      <4>1. Flushed(l) => Unfenced(l)
        BY DEF Flushed
      <4> QED
        BY <1>1, <1>2, <1>4, <2>2, <4>1, CountersBack, UnfencedBack
    <3>3. PICK c \in held[f] : c.id = i /\ c.term = T(l)
      BY <1>0, <1>1, <1>4, <3>1, <3>2 DEF TellInv
    <3>4. ASSUME NEW k \in Nodes, Leads(k) PROVE T(k) <= T(l)
      <4>0. proc[l].epoch > 0 /\ proc[k].epoch > 0 /\ T(k) \in Nat
        BY <1>0, <1>2, <3>4 DEF Continues, IInv, EpochInv, Leads, InCharge, T, Types
      <4>1. CASE Unfenced(l)
        <5>1. ~ (T(l) < T(k))
          BY <4>0, <4>1 DEF Step, Sound, DInv, IInv, OlderInv, OlderIsFenced, T
        <5> QED
          BY <1>n, <4>0, <5>1
      <4>2. CASE f \in Counters(l)
        <5>1. Far(l)
          <6>1. CASE i <= lead[l].committed
            BY <1>n, <3>1, <6>1 DEF Far, Beyond
          <6>2. CASE i > lead[l].committed
            <7>1. i = lead[l].sent
              BY <1>n, <2>1, <6>2, SMTT(60)
            <7> QED
              BY <1>4, <3>1, <4>2, <6>2, <7>1 DEF Far, Backed
          <6> QED
            BY <1>n, <6>1, <6>2
        <5> QED
          BY <1>0, <1>4, <3>4, <5>1 DEF OnlyInv
      <4> QED
        BY <3>2, <4>1, <4>2
    <3>5. Beyond(c.id)'
      BY <2>2, <3>3 DEF Beyond
    <3> QED
      BY <1>2, <3>3, <3>4, <3>5, KeepsCopy
  <2> QED
    BY <1>n, <2>1, <2>2, SMTT(60)
<1> QED
  BY <1>1, <1>3, <1>4, ToldBack

\* The copies of chosen changes stay, and stay firm.
LEMMA TopStep ==
  ASSUME Step, NEW p \in Placed, Chosen(p), NEW t \in Nat, Top(t)
  PROVE  Top(t)'
<1>0. DInv /\ IInv /\ Types /\ Numbers /\ KeepInv /\ StopInv
  BY TypesHold DEF Step, DInv, WhatInv
<1>1. ASSUME NEW e \in Copy, IsCopy(e)', Beyond(e.id)' PROVE e.term <= t
  <2>1. CASE IsCopy(e)
    <3>1. Beyond(e.id)
      BY <1>0, <1>1, StoreSteps, TypesNext, CopyFields DEF Step, Types, Beyond
    <3> QED
      BY <2>1, <3>1 DEF Top
  <2>2. ASSUME NEW f \in Nodes, NEW l \in Nodes, NEW i \in Ids, NEW j \in Ids, Held(f, l, i, j), e = NewCopy(l, i)
        PROVE  e.term <= t
    BY <1>0, <2>2, HeldDoes DEF Top, NewCopy
  <2> QED
    BY <1>1, <2>1, <2>2, CopyBack
<1>2. ASSUME NEW l \in Nodes, Leads(l)' PROVE T(l)' <= t
  <2>1. Continues(l) /\ (Leads(l) \/ Served(l)) /\ T(l)' = T(l)
    BY <1>2, LeadsBack DEF Continues, T
  <2>2. CASE Leads(l)
    BY <2>1, <2>2 DEF Top
  <2>3. ASSUME Served(l), ~ (T(l) <= t) PROVE FALSE
    <3>1. PICK f \in Nodes : Has(f, p)
      <4>1. Listed(bucket) \in SUBSET Nodes
        BY <1>0, ListedType DEF Types
      <4> QED
        BY <1>0, <4>1 DEF KeepInv
    <3>2. PICK c \in held[f] : Of(c, p) /\ Top(c.term)
      BY <3>1 DEF Has
    <3>3. c \in Copy /\ IsCopy(c) /\ Beyond(c.id) /\ c.term \in Nat
      BY <1>0, <3>2, CopyFields DEF Types, IsCopy, Of, Chosen
    <3>4. c.term <= t
      BY <3>3 DEF Top
    <3>5. T(l) \in Nat
      BY <1>0 DEF Types, T
    <3>6. c.term < T(l)
      BY <2>3, <3>3, <3>4, <3>5
    <3>7. Stops(l)
      BY <1>0, <2>3, <3>2, <3>6 DEF StopInv, Served
    <3>8. lead[l].flushed < Len(lead[l].log)
      BY <2>3, <3>7 DEF Stops, Served
    <3>9. /\ lead[l].flushed \in Nat /\ Len(lead[l].log) \in Nat /\ lead[l].durable \in Nat
          /\ lead[l].durable <= lead[l].flushed /\ lead[l].durable >= Len(lead[l].log)
      BY <1>0, <2>3 DEF Numbers, Served
    <3> QED
      BY <3>8, <3>9
  <2> QED
    BY <2>1, <2>2, <2>3
<1> QED
  BY <1>1, <1>2 DEF Top

\* Changes of a number and a term are the same, of copies before a step and after.
LEMMA SameChange ==
  ASSUME Step, WhoInv', NEW c \in Copy, NEW m \in Copy, IsCopy(c), IsCopy(m)', m.id = c.id, m.term = c.term
  PROVE  m.change = c.change
<1>0. DInv /\ CopyInv /\ TermsInv
  BY DEF Step, DInv, WhoInv
<1>1. CASE IsCopy(m)
  BY <1>0, <1>1 DEF CopyInv
<1>2. ASSUME NEW f \in Nodes, NEW l \in Nodes, NEW i \in Ids, NEW j \in Ids, Held(f, l, i, j), m = NewCopy(l, i)
      PROVE  m.change = c.change
  <2>1. Leads(l) /\ m.term = T(l) /\ m.id = i /\ m.change = lead[l].log[i]
    BY <1>0, <1>2, HeldDoes DEF NewCopy
  <2> QED
    BY <1>0, <2>1 DEF TermsInv
<1> QED
  BY <1>1, <1>2, CopyBack

LEMMA HasStep ==
  ASSUME Step, WhoInv', NEW p \in Placed, Chosen(p), Beyond(p.id)',
         NEW f \in Nodes, NEW c \in held[f], Of(c, p), Top(c.term)
  PROVE  /\ Top(c.term)'
         /\ \E m \in held'[f] : Of(m, p) /\ m.term = c.term
         /\ Has(f, p)'
<1>0. Types /\ Types'
  BY TypesHold, TypesNext DEF Step, DInv
<1>1. c \in Copy /\ IsCopy(c) /\ c.term \in Nat /\ Beyond(c.id)'
  BY <1>0, CopyFields DEF Types, IsCopy, Of, Beyond
<1>2. Top(c.term)'
  <2>1. PICK t \in Nat : t = c.term
    BY <1>1
  <2>2. Top(t)'
    BY <2>1, TopStep
  <2> QED
    BY <2>1, <2>2 DEF Top
<1>3. PICK m \in held'[f] : m.id = c.id /\ m.term = c.term
  BY <1>1, KeepsCopy DEF Top
<1>4. m \in Copy /\ IsCopy(m)'
  BY <1>0, <1>3 DEF Types, IsCopy
<1>5. m.change = c.change
  BY <1>1, <1>3, <1>4, SameChange
<1>6. Of(m, p)
  BY <1>3, <1>5 DEF Of
<1>7. Has(f, p)'
  BY <1>2, <1>3, <1>6 DEF Has, Of, Top
<1> QED
  BY <1>2, <1>3, <1>6, <1>7

-----------------------------------------------------------------------------
(* One change is chosen for a number                                       *)

LEMMA Keeper ==
  ASSUME DInv, NEW p \in Placed, Chosen(p)
  PROVE  \E f \in Nodes : /\ f \in Listed(bucket)
                          /\ \E c \in held[f] : /\ Of(c, p) /\ Top(c.term) /\ c \in Copy /\ IsCopy(c)
                                                /\ Beyond(c.id) /\ c.term \in Nat
<1>0. Types /\ KeepInv
  BY TypesHold DEF DInv, WhatInv
<1>1. Listed(bucket) \in SUBSET Nodes
  BY <1>0, ListedType DEF Types
<1>2. PICK f \in Listed(bucket) : Has(f, p)
  BY <1>0 DEF KeepInv
<1>3. PICK c \in held[f] : Of(c, p) /\ Top(c.term)
  BY <1>2 DEF Has
<1>4. c \in Copy /\ IsCopy(c) /\ Beyond(c.id) /\ c.term \in Nat
  BY <1>0, <1>1, <1>3, CopyFields DEF Types, IsCopy, Of, Chosen
<1> QED
  BY <1>1, <1>2, <1>3, <1>4

LEMMA ChosenOnce ==
  ASSUME DInv, NEW p \in Placed, NEW q \in Placed, Chosen(p), Chosen(q), p.id = q.id
  PROVE  p = q
<1>1. PICK f \in Nodes : \E c \in held[f] : /\ Of(c, p) /\ Top(c.term) /\ c \in Copy /\ IsCopy(c)
                                            /\ Beyond(c.id) /\ c.term \in Nat
  BY Keeper
<1>2. PICK c \in held[f] : /\ Of(c, p) /\ Top(c.term) /\ c \in Copy /\ IsCopy(c)
                           /\ Beyond(c.id) /\ c.term \in Nat
  BY <1>1
<1>3. PICK g \in Nodes : \E e \in held[g] : /\ Of(e, q) /\ Top(e.term) /\ e \in Copy /\ IsCopy(e)
                                            /\ Beyond(e.id) /\ e.term \in Nat
  BY Keeper
<1>4. PICK e \in held[g] : /\ Of(e, q) /\ Top(e.term) /\ e \in Copy /\ IsCopy(e)
                           /\ Beyond(e.id) /\ e.term \in Nat
  BY <1>3
<1>5. c.term = e.term
  BY <1>2, <1>4 DEF Top
<1>6. c.change = e.change
  BY <1>2, <1>4, <1>5 DEF DInv, WhoInv, CopyInv, Of
<1>7. p.change = q.change
  BY <1>2, <1>4, <1>6 DEF Of
<1> QED
  BY <1>7 DEF Placed

\* While a change is chosen just now, those chosen before are of its leader's
\* term,
LEMMA FreshTerm ==
  ASSUME Step, WhoInv', TellInv', NEW l \in Nodes, NEW f \in Nodes, Fresh(l, f)',
         NEW q \in Placed, Chosen(q), Beyond(q.id)'
  PROVE  \E g \in Nodes : /\ g \in Listed(bucket)
                          /\ \E c \in held[g] : Of(c, q) /\ Top(c.term) /\ c \in Copy /\ c.term = T(l)'
<1>0. Types' /\ DInv
  BY TypesNext DEF Step
<1>1. PICK g \in Nodes : /\ g \in Listed(bucket)
                         /\ \E c \in held[g] : /\ Of(c, q) /\ Top(c.term) /\ c \in Copy /\ IsCopy(c)
                                               /\ Beyond(c.id) /\ c.term \in Nat
  BY <1>0, Keeper
<1>2. PICK c \in held[g] : /\ Of(c, q) /\ Top(c.term) /\ c \in Copy /\ IsCopy(c)
                           /\ Beyond(c.id) /\ c.term \in Nat
  BY <1>1
<1>3. Top(c.term)' /\ \E m \in held'[g] : Of(m, q) /\ m.term = c.term
  BY <1>2, HasStep
<1>4. PICK m \in held'[g] : Of(m, q) /\ m.term = c.term
  BY <1>3
<1>5. m \in Copy /\ IsCopy(m)' /\ Beyond(m.id)'
  BY <1>0, <1>4 DEF Types, IsCopy, Of, Beyond
<1>6. Top(T(l))' /\ Leads(l)'
  BY FreshNext DEF FreshFirm, Fresh, Step
<1>7. m.term <= T(l)' /\ T(l)' <= c.term
  BY <1>3, <1>5, <1>6 DEF Top
<1>8. T(l)' \in Nat
  BY <1>0 DEF Types, T
<1>9. c.term = T(l)'
  BY <1>2, <1>4, <1>7, <1>8
<1> QED
  BY <1>1, <1>2, <1>9

\* ... and one of its number is that change.
LEMMA FreshOnce ==
  ASSUME Step, WhoInv', TellInv', NEW l \in Nodes, NEW f \in Nodes, Fresh(l, f)',
         NEW p \in Placed, p = NextOf(l)', NEW q \in Placed, Chosen(q), q.id = p.id
  PROVE  p = q
<1>0. Types'
  BY TypesNext DEF Step
<1>1. Beyond(q.id)'
  BY DEF Fresh, NextOf, Beyond
<1>2. PICK g \in Nodes : \E c \in held[g] : Of(c, q) /\ Top(c.term) /\ c \in Copy /\ c.term = T(l)'
  BY <1>1, FreshTerm
<1>3. PICK c \in held[g] : Of(c, q) /\ Top(c.term) /\ c \in Copy /\ c.term = T(l)'
  BY <1>2
<1>4. PICK m \in held'[g] : Of(m, q) /\ m.term = c.term
  BY <1>1, <1>3, HasStep
<1>5. PICK e \in held'[f] : Of(e, NextOf(l)') /\ e.term = T(l)'
  BY FreshNext DEF FreshFirm, Step, Of
<1>6. m \in Copy /\ IsCopy(m)' /\ e \in Copy /\ IsCopy(e)'
  BY <1>0, <1>4, <1>5 DEF Types, IsCopy
<1>7. m.change = e.change
  BY <1>3, <1>4, <1>5, <1>6 DEF WhoInv, CopyInv, Of
<1>8. p.change = q.change
  BY <1>4, <1>5, <1>7 DEF Of
<1> QED
  BY <1>8 DEF Placed

\* What gets chosen has a number that no chosen change had.
LEMMA ChosenNew ==
  ASSUME Step, WhoInv', TellInv', NEW p \in Placed, Chosen(p)'
  PROVE  \/ Chosen(p)
         \/ /\ \A q \in Placed : Chosen(q) => q.id # p.id
            /\ \E l, f \in Nodes : /\ Fresh(l, f)' /\ p = NextOf(l)' /\ acked' = acked
                                   /\ Unfenced(l)' \/ bucket' = bucket
BY ChosenStep, FreshOnce

\* The change a leader the bucket doesn't refuse flushes is the one chosen.
LEMMA FlushesChosen ==
  ASSUME Step, NEW w \in Nodes, Flushed(w), NEW p \in Placed, Chosen(p), ~ Beyond(p.id)'
  PROVE  p.id = Len(bucket) + 1 /\ bucket'[p.id] = p.change
<1>0. DInv /\ IInv /\ Types /\ Numbers /\ BucketInv /\ EpochInv /\ LogInv
  BY TypesHold DEF Step, DInv, IInv, WhatInv
<1>1. Commits(w) /\ Unfenced(w) /\ bucket' = Append(bucket, lead[w].log[lead[w].flushed + 1])
  BY DEF Flushed
<1>2. bucket \in Seq(Change)
  BY <1>0 DEF Types
<1>3. Len(bucket') = Len(bucket) + 1 /\ bucket'[Len(bucket) + 1] = lead[w].log[lead[w].flushed + 1]
  BY <1>1, <1>2
<1>4. Len(bucket) = lead[w].flushed
  BY <1>0, <1>1 DEF BucketInv, Commits, EpochInv, InCharge
<1>5. p.id = Len(bucket) + 1
  BY <1>2, <1>3, PlacedFields DEF Chosen, Beyond
<1>6. lead[w].log[p.id] = p.change
  BY <1>0, <1>1 DEF LogInv
<1> QED
  BY <1>3, <1>4, <1>5, <1>6

\* A leader commits one change at a time.
LEMMA CommitsBack ==
  ASSUME Step, NEW l \in Nodes, proc'[l].epoch > 0, ~ Opened(l)
  PROVE  lead'[l].committed = lead[l].committed \/ Confirmed(l)
<1>1. ASSUME NEW k \in Nodes, MovesOn(k), k # l PROVE lead'[l] = lead[l]
  BY <1>1 DEF MovesOn, Ended, Opened, Answered, Rewrote, Served, Others
<1>2. CASE MovesOn(l)
  BY <1>2, SMTT(60) DEF MovesOn, Ended, Answered, Rewrote, Served, SameSent
<1>3. ASSUME NEW k \in Nodes, Worked(k) PROVE lead'[l].committed = lead[l].committed \/ Confirmed(l)
  <2>1. CASE k # l
    BY <1>3, <2>1 DEF Worked, Wrote, Flushed, Sent, Confirmed, Noted, LoopSame, Shrunk, Counted, RoundSame, Others
  <2>2. CASE k = l /\ ~ Confirmed(l)
    BY <1>3, <2>2 DEF Worked, Wrote, Flushed, Sent, Noted, Shrunk, Counted, RoundSame, SameSent
  <2> QED
    BY <2>1, <2>2
<1>4. ASSUME NEW k \in Nodes, Followed(k) PROVE lead' = lead
  BY <1>4 DEF Followed, Joined, Dropped, Fetched, Held, Pruned, StreamSame
<1>5. ASSUME NEW a \in wire, Received(a) PROVE lead'[l].committed = lead[l].committed
  BY <1>5 DEF Received, SameSent
<1>6. UNCHANGED vars => lead' = lead
  BY DEF vars
<1> QED
  BY <1>1, <1>2, <1>3, <1>4, <1>5, <1>6 DEF Step, Goes

LEMMA CommittedStep == ASSUME Step PROVE CommittedInv'
<1>0. DInv /\ IInv /\ Types /\ Numbers /\ CommittedInv /\ PrefixInv
  BY TypesHold DEF Step, DInv, WhatInv, WhoInv
<1>1. SUFFICES ASSUME NEW l \in Nodes
               PROVE  /\ \A i \in 1 .. lead'[l].committed :
                            /\ i <= Len(bucket') => bucket'[i] = lead'[l].log[i]
                            /\ i > Len(bucket') => [id |-> i, change |-> lead'[l].log[i]] \in acked'
                      /\ Backed(l)' /\ lead'[l].sent <= Len(bucket')
                            => bucket'[lead'[l].sent] = lead'[l].log[lead'[l].sent]
  BY DEF CommittedInv, Beyond
<1>n. /\ Len(bucket) <= Len(bucket') /\ \A i \in 1 .. Len(bucket) : bucket'[i] = bucket[i]
      /\ Len(bucket) \in Nat /\ Len(bucket') \in Nat /\ acked \subseteq acked'
      /\ lead[l].committed \in Nat /\ lead[l].sent \in Nat /\ lead[l].flushed \in Nat
      /\ lead'[l].committed \in Nat /\ lead'[l].sent \in Nat
      /\ Len(lead[l].log) \in Nat /\ lead[l].committed <= lead[l].sent /\ lead[l].sent <= Len(lead[l].log)
      /\ lead[l].log \in Seq(Change) /\ Len(lead[l].log) <= MaxId
  BY <1>0, StoreSteps, TypesNext DEF Step, Types, Numbers
<1>a. ASSUME NEW i \in 1 .. Len(lead[l].log), [id |-> i, change |-> lead[l].log[i]] \in Placed,
             Chosen([id |-> i, change |-> lead[l].log[i]]), i <= Len(bucket')
      PROVE  bucket'[i] = lead[l].log[i]
  <2>0. PICK q \in Placed : q = [id |-> i, change |-> lead[l].log[i]]
    BY <1>a
  <2>1. q \in Placed /\ q.id = i /\ q.change = lead[l].log[i] /\ Chosen(q)
    BY <1>a, <2>0
  <2>2. i > Len(bucket)
    BY <2>1 DEF Chosen, Beyond
  <2>3. bucket' # bucket
    BY <1>a, <1>n, <2>2
  <2>4. PICK w \in Nodes : Flushed(w)
    BY <2>3, BucketSteps
  <2>5. ~ Beyond(q.id)'
    BY <1>a, <1>n, <2>1 DEF Beyond
  <2> QED
    BY <2>1, <2>4, <2>5, FlushesChosen
<1>p. ASSUME NEW i \in 1 .. Len(lead[l].log) PROVE [id |-> i, change |-> lead[l].log[i]] \in Placed
  <2>1. i \in Ids /\ lead[l].log[i] \in Change
    BY <1>n, <1>p, BoundsAssumption, SMTT(60) DEF Ids
  <2> QED
    BY <2>1 DEF Placed
<1>2. CASE ~ (proc'[l].epoch > 0)
  <2>1. lead'[l] = NoLead /\ ~ Leads(l)'
    BY <1>2, StageStep DEF StageInv, Step, IInv, EpochInv, Leads, InCharge
  <2> QED
    BY <2>1, NoLeadFields DEF Backed
<1>3. CASE Opened(l)
  <2>1. lead'[l].committed = Len(bucket) /\ bucket' = bucket /\ lead'[l].log = bucket /\ ~ Leads(l)'
    BY <1>3 DEF Opened, Leads
  <2> QED
    BY <1>n, <2>1 DEF Backed
<1>4. CASE proc'[l].epoch > 0 /\ ~ Opened(l)
  <2>1. Continues(l)
    BY <1>4, LeadSteps
  <2>2. lead'[l].committed = lead[l].committed \/ Confirmed(l)
    BY <1>4, CommitsBack
  <2>3. ASSUME NEW i \in 1 .. lead[l].committed
        PROVE  /\ i <= Len(bucket') => bucket'[i] = lead'[l].log[i]
               /\ i > Len(bucket') => [id |-> i, change |-> lead'[l].log[i]] \in acked'
    <3> DEFINE q == [id |-> i, change |-> lead[l].log[i]]
    <3>1. i \in 1 .. Len(lead[l].log) /\ lead'[l].log[i] = lead[l].log[i]
      BY <1>n, <2>1, <2>3, SMTT(60) DEF Continues
    <3>2. CASE i <= Len(bucket)
      BY <1>0, <1>n, <2>3, <3>1, <3>2, SMTT(60) DEF CommittedInv
    <3>3. CASE i > Len(bucket)
      <4>1. q \in acked
        BY <1>0, <2>3, <3>3 DEF CommittedInv, Beyond
      <4>2. q \in Placed /\ q.id = i
        BY <1>p, <3>1
      <4> HIDE DEF q
      <4>3. Chosen(q)
        BY <3>3, <4>1, <4>2 DEF Chosen, Beyond
      <4>4. i <= Len(bucket') => bucket'[i] = lead[l].log[i]
        BY <1>a, <3>1, <4>2, <4>3 DEF q
      <4> QED
        BY <1>n, <3>1, <4>1, <4>4 DEF q
    <3> QED
      BY <1>n, <3>2, <3>3
  <2>4. ASSUME Confirmed(l)
        PROVE  /\ lead[l].sent <= Len(bucket') => bucket'[lead[l].sent] = lead'[l].log[lead[l].sent]
               /\ [id |-> lead[l].sent, change |-> lead'[l].log[lead[l].sent]] \in acked'
    <3>1. /\ bucket' = bucket /\ lead'[l].log = lead[l].log
          /\ lead[l].sent = lead[l].committed + 1
          /\ acked' = acked \cup {[id |-> lead[l].sent, change |-> lead[l].log[lead[l].sent]]}
      BY <2>4 DEF Confirmed, LoopSame, SameLog
    <3>2. CASE lead[l].flushed >= lead[l].sent
      <4>1. lead[l].sent \in 1 .. lead[l].flushed
        BY <1>n, <3>1, <3>2
      <4> QED
        BY <1>0, <3>1, <4>1 DEF PrefixInv
    <3>3. CASE Backed(l)
      BY <1>0, <3>1, <3>3 DEF CommittedInv
    <3>4. lead[l].flushed >= lead[l].sent \/ Backed(l)
      BY <2>4, ConfirmedBy
    <3> QED
      BY <3>1, <3>2, <3>3, <3>4
  <2>5. ASSUME NEW i \in 1 .. lead'[l].committed
        PROVE  /\ i <= Len(bucket') => bucket'[i] = lead'[l].log[i]
               /\ i > Len(bucket') => [id |-> i, change |-> lead'[l].log[i]] \in acked'
    <3>1. CASE i <= lead[l].committed
      BY <1>n, <2>3, <3>1, SMTT(60)
    <3>2. CASE i > lead[l].committed
      <4>1. Confirmed(l)
        BY <1>n, <2>2, <3>2
      <4>2. i = lead[l].sent
        BY <1>n, <3>2, <4>1 DEF Confirmed
      <4> QED
        BY ONLY <2>4, <4>1, <4>2
    <3> QED
      BY <1>n, <3>1, <3>2
  <2>6. ASSUME Backed(l)', lead'[l].sent <= Len(bucket')
        PROVE  bucket'[lead'[l].sent] = lead'[l].log[lead'[l].sent]
    <3>0. lead'[l].sent > lead'[l].committed /\ Leads(l) /\ Leads(l)'
      BY <2>6, BackedStep DEF Backed
    <3>1. CASE Backed(l) /\ lead'[l].sent = lead[l].sent
      <4>1. lead[l].sent \in 1 .. Len(lead[l].log) /\ lead'[l].log[lead[l].sent] = lead[l].log[lead[l].sent]
        <5>1. lead[l].sent \in 1 .. Len(lead[l].log)
          BY <1>n, <3>0, <3>1
        <5> QED
          BY <2>1, <5>1 DEF Continues
      <4>2. CASE lead[l].sent <= Len(bucket)
        BY <1>0, <1>n, <3>1, <4>1, <4>2 DEF CommittedInv
      <4>3. CASE lead[l].sent > Len(bucket)
        <5> DEFINE q == [id |-> lead[l].sent, change |-> lead[l].log[lead[l].sent]]
        <5>1. q \in Placed /\ q.id = lead[l].sent
          BY <1>p, <4>1
        <5>2. q = NextOf(l)
          BY DEF NextOf
        <5> HIDE DEF q
        <5>3. Chosen(q)
          BY <3>1, <4>3, <5>1, <5>2 DEF Chosen, Beyond
        <5> QED
          BY <1>a, <2>6, <3>1, <4>1, <5>1, <5>3 DEF q
      <4> QED
        BY <1>n, <4>2, <4>3
    <3>2. CASE Flushed(l) /\ Unfenced(l)'
      <4>1. lead'[l].flushed = Len(bucket')
        BY <1>4, <3>2, AbleStep DEF AbleInv, Able
      <4> QED
        BY <1>n, <2>6, <3>0, <4>1, PrefixStep, StageStep, SMTT(60) DEF PrefixInv
    <3>3. ASSUME NEW f \in Nodes, f \in Counters(l)', NEW j \in Ids, Held(f, l, lead'[l].sent, j), lead'[l].sent \in Ids
          PROVE  bucket'[lead'[l].sent] = lead'[l].log[lead'[l].sent]
      <4>1. Helping(f, l) /\ UNCHANGED <<proc, owner, fence, lead, bucket>>
        BY <1>0, <3>3, HeldDoes DEF Held, StreamSame, SameRoles
      <4>2. f \in Base(l)'
        BY <3>0, <3>3, CountersNext DEF CountersOK, Step
      <4>3. f \in Base(l)
        BY <4>1, <4>2 DEF Base
      <4>4. Able(l)
        BY <4>1, <4>3, <2>1 DEF Able, Continues
      <4>5. lead[l].flushed = Len(bucket)
        BY <1>0, <4>4 DEF DInv, WhoInv, AbleInv
      <4>6. lead[l].sent \in 1 .. lead[l].flushed
        BY <1>n, <2>6, <3>0, <4>1, <4>5
      <4> QED
        BY <1>0, <4>1, <4>6 DEF PrefixInv
    <3> QED
      BY <2>6, <3>1, <3>2, <3>3, BackedStep
  <2> QED
    BY <2>5, <2>6
<1> QED
  BY <1>2, <1>3, <1>4

\* The last change a leader committed is acknowledged.
LEMMA LastIsChosen ==
  ASSUME IInv, CommittedInv, NEW l \in Nodes, NEW i \in 1 .. lead[l].committed, Beyond(i)
  PROVE  \E q \in Placed : Chosen(q) /\ q \in acked /\ q.id = i /\ q.change = lead[l].log[i]
<1>0. Types /\ Numbers
  BY TypesHold
<1>1. [id |-> i, change |-> lead[l].log[i]] \in acked
  BY DEF CommittedInv
<1>2. PICK q \in Placed : q \in acked /\ q = [id |-> i, change |-> lead[l].log[i]]
  BY <1>0, <1>1 DEF Types
<1> QED
  BY <1>2 DEF Chosen

LEMMA OnlyStep == ASSUME Step, WhoInv', TellInv' PROVE OnlyInv'
<1>0. DInv /\ IInv /\ Types /\ Numbers /\ OnlyInv /\ PrefixInv /\ CommittedInv
  BY TypesHold DEF Step, DInv, WhatInv, WhoInv
<1>1. SUFFICES ASSUME NEW l \in Nodes, Leads(l)', Far(l)' PROVE Top(T(l))'
  BY DEF OnlyInv, Top
<1>2. Continues(l) /\ (Leads(l) \/ Served(l)) /\ T(l)' = T(l)
  BY <1>1, LeadsBack DEF Continues, T
<1>n. /\ Len(bucket) <= Len(bucket') /\ Len(bucket) \in Nat /\ Len(bucket') \in Nat
      /\ lead[l].committed \in Nat /\ lead[l].sent \in Nat /\ lead[l].flushed \in Nat /\ lead[l].durable \in Nat
      /\ lead[l].committed <= lead[l].sent /\ lead[l].flushed <= Len(bucket) /\ lead[l].durable <= lead[l].flushed
      /\ lead[l].sent <= lead[l].committed + 1 /\ lead[l].sent <= Len(lead[l].log) /\ Len(lead[l].log) \in Nat
      /\ T(l) \in Nat
  BY <1>0, StoreSteps, TypesNext DEF Step, Types, Numbers, PrefixInv, T
<1>3. ASSUME Leads(l), Far(l) PROVE Top(T(l))'
  <2>1. Top(T(l))
    BY <1>0, <1>3 DEF OnlyInv, Top
  <2>2. \E p \in Placed : Chosen(p)
    <3>1. CASE lead[l].committed > Len(bucket)
      <4>1. lead[l].committed \in 1 .. lead[l].committed /\ Beyond(lead[l].committed)
        BY <1>n, <3>1, SMTT(60) DEF Beyond
      <4> QED
        BY <1>0, <4>1, LastIsChosen
    <3>2. CASE Backed(l) /\ Beyond(lead[l].sent)
      <4>1. lead[l].sent \in Ids /\ lead[l].log[lead[l].sent] \in Change
        <5>1. lead[l].sent \in 1 .. Len(lead[l].log) /\ Len(lead[l].log) <= MaxId /\ lead[l].log \in Seq(Change)
          BY <1>0, <1>n, <3>2 DEF Numbers, Beyond
        <5> QED
          BY <5>1, BoundsAssumption DEF Ids
      <4>2. NextOf(l) \in Placed /\ NextOf(l).id = lead[l].sent
        BY <4>1 DEF NextOf, Placed
      <4> QED
        BY <3>2, <4>2 DEF Chosen, Beyond
    <3> QED
      BY <1>3, <3>1, <3>2 DEF Far
  <2>3. PICK t \in Nat : t = T(l)
    BY <1>n
  <2>4. Top(t)'
    BY <2>1, <2>2, <2>3, TopStep
  <2> QED
    BY <1>2, <2>3, <2>4 DEF Top
<1>4. ASSUME NEW f \in Nodes, Fresh(l, f)' PROVE Top(T(l))'
  BY <1>4, FreshNext DEF FreshFirm, Step
<1>5. CASE lead'[l].committed > Len(bucket')
  <2>1. CASE lead'[l].committed = lead[l].committed
    <3>1. lead[l].committed > Len(bucket)
      BY <1>5, <1>n, <2>1
    <3>2. ~ Served(l)
      <4>1. Served(l) => lead[l].durable >= lead[l].committed
        BY DEF Served
      <4> QED
        BY <1>n, <3>1, <4>1, SMTT(60)
    <3> QED
      BY <1>2, <1>3, <3>1, <3>2 DEF Far
  <2>2. CASE Confirmed(l)
    <3>1. lead'[l].committed = lead[l].sent /\ bucket' = bucket
      BY <2>2 DEF Confirmed, LoopSame
    <3>2. ~ (lead[l].flushed >= lead[l].sent)
      BY <1>5, <1>n, <3>1
    <3>3. Backed(l) /\ Beyond(lead[l].sent)
      BY <1>5, <2>2, <3>1, <3>2, ConfirmedBy DEF Beyond
    <3> QED
      BY <1>3, <3>3 DEF Far, Backed
  <2> QED
    <3>1. proc'[l].epoch > 0 /\ ~ Opened(l)
      BY <1>1 DEF Step, IInv, EpochInv, Leads, InCharge, Opened
    <3> QED
      BY <2>1, <2>2, <3>1, CommitsBack
<1>6. CASE Backed(l)' /\ Beyond(lead[l].sent)'
  <2>1. Leads(l)' /\ lead'[l].sent > lead'[l].committed
    BY <1>6 DEF Backed
  <2>2. CASE Backed(l) /\ lead'[l].sent = lead[l].sent
    <3>1. Beyond(lead[l].sent)
      BY <1>6, <1>n, <2>2 DEF Beyond
    <3> QED
      BY <1>3, <2>2, <3>1 DEF Far, Backed
  <2>3. ASSUME NEW f \in Nodes, f \in Counters(l)', Told(l, f, lead[l].sent)', Flushed(l), Unfenced(l)'
        PROVE  Fresh(l, f)'
    BY <1>6, <2>1, <2>3 DEF Fresh
  <2>4. ASSUME NEW f \in Nodes, f \in Counters(l)', Told(l, f, lead[l].sent)',
               NEW j \in Ids, Held(f, l, lead'[l].sent, j), lead'[l].sent \in Ids
        PROVE  Fresh(l, f)'
    <3>1. Helping(f, l)
      BY <1>0, <2>4, HeldDoes
    <3>2. UNCHANGED <<proc, owner>> /\ fol'[f].seen = fol[f].seen
      BY <2>4 DEF Held, StreamSame, SameRoles
    <3>3. Helping(f, l)'
      BY <3>1, <3>2 DEF Helping, Helps, LeaderOf, T
    <3> QED
      BY <1>6, <2>1, <2>4, <3>3 DEF Fresh
  <2> QED
    BY <1>4, <1>6, <2>2, <2>3, <2>4, BackedStep
<1> QED
  BY <1>1, <1>5, <1>6 DEF Far

-----------------------------------------------------------------------------
(* Every chosen change has its keepers                                     *)

\* A change in the bucket's place past its end is chosen before one further on.
LEMMA NextIsAcked ==
  ASSUME DInv, NEW p \in Placed, Chosen(p), NEW i \in (Len(bucket) + 1) .. (p.id - 1)
  PROVE  \E q \in Placed : Chosen(q) /\ q \in acked /\ q.id = i
<1>0. Types /\ KeepInv
  BY TypesHold DEF DInv, WhatInv
<1>1. PICK a \in acked : a.id = i
  BY <1>0 DEF KeepInv
<1>2. a \in Placed /\ i > Len(bucket)
  BY <1>0, <1>1 DEF Types
<1> QED
  BY <1>1, <1>2 DEF Chosen, Beyond

\* The list the bucket ends with, as it takes a change.
LEMMA ListedAppend ==
  ASSUME NEW log \in Seq(Change), NEW x \in Change
  PROVE  Listed(Append(log, x)) = IF x.m = NoList THEN Listed(log) ELSE UNION x.m
<1> DEFINE new == Append(log, x)
           k   == Len(log)
<1>1. new \in Seq(Change) /\ Len(new) = k + 1 /\ k \in Nat /\ new[k + 1] = x /\ \A i \in 1 .. k : new[i] = log[i]
  OBVIOUS
<1> HIDE DEF new, k
<1>2. Listed(new) = ListedTo(new, k + 1) /\ Listed(log) = ListedTo(log, k)
  <2>1. Listed(log) = ListedTo(log, Len(log))
    BY ListedIsTo
  <2> QED
    BY <1>1, <2>1, ListedIsTo DEF k
<1>3. ListedTo(log, k) = ListedTo(new, k)
  BY <1>1, ListedToSame
<1>4. CASE x.m = NoList
  <2>1. \A i \in (k + 1) .. (k + 1) : new[i].m = NoList
    BY <1>1, <1>4
  <2>2. k \in Nat /\ k + 1 \in Nat /\ k <= k + 1
    BY <1>1
  <2>3. ListedTo(new, k) = ListedTo(new, k + 1)
    BY <2>1, <2>2, ListedToLonger
  <2> QED
    BY <1>2, <1>3, <1>4, <2>3 DEF new
<1>5. CASE x.m # NoList
  <2>1. PICK s : x.m = {s}
    BY <1>5 DEF Change
  <2>2. k + 1 \in Nat /\ k + 1 \in 1 .. (k + 1) /\ new[k + 1].m = {s}
        /\ \A i \in (k + 1 + 1) .. (k + 1) : new[i].m = NoList
    BY <1>1, <2>1
  <2>3. ListedTo(new, k + 1) = s
    BY <2>2, ListedToLast
  <2>4. UNION x.m = s
    BY <2>1
  <2> QED
    BY <1>2, <1>5, <2>3, <2>4 DEF new
<1> QED
  BY <1>4, <1>5

\* Of a change chosen before,
LEMMA KeepOld ==
  ASSUME Step, WhoInv', TellInv', NEW p \in Placed, Chosen(p), Chosen(p)'
  PROVE  /\ \E f \in Listed(bucket') : Has(f, p)'
         /\ \A q \in Placed : Chosen(q)' /\ q.id < p.id /\ q.change.m # NoList =>
               \E f \in UNION q.change.m : Has(f, p)'
         /\ \A i \in (Len(bucket') + 1) .. (p.id - 1) : \E a \in acked' : a.id = i
<1>0. DInv /\ IInv /\ Types /\ KeepInv /\ LogInv
  BY TypesHold DEF Step, DInv, WhatInv
<1>n. /\ Len(bucket) <= Len(bucket') /\ Len(bucket) \in Nat /\ Len(bucket') \in Nat
      /\ acked \subseteq acked' /\ p.id \in Nat /\ p.id > Len(bucket') /\ Beyond(p.id)'
  BY <1>0, StoreSteps, TypesNext, PlacedFields DEF Step, Types, Chosen, Beyond
<1>h. ASSUME NEW f \in Nodes, Has(f, p) PROVE Has(f, p)'
  <2>1. PICK c \in held[f] : Of(c, p) /\ Top(c.term)
    BY <1>h DEF Has
  <2> QED
    BY <1>n, <2>1, HasStep
<1>m. ASSUME NEW q \in Placed, q.change.m # NoList PROVE UNION q.change.m \subseteq Nodes
  <2>1. q.change \in Change
    BY PlacedFields
  <2> QED
    BY <2>1, <1>m DEF Change
<1>1. \A q \in Placed : Chosen(q) /\ q.id < p.id /\ q.change.m # NoList =>
         \E f \in UNION q.change.m : Has(f, p)'
  <2> SUFFICES ASSUME NEW q \in Placed, Chosen(q), q.id < p.id, q.change.m # NoList
               PROVE  \E f \in UNION q.change.m : Has(f, p)'
    OBVIOUS
  <2>1. PICK f \in UNION q.change.m : Has(f, p)
    BY <1>0 DEF KeepInv
  <2> QED
    BY <1>h, <1>m, <2>1
<1>2. \A i \in (Len(bucket') + 1) .. (p.id - 1) : \E a \in acked' : a.id = i
  BY <1>0, <1>n DEF KeepInv
<1>3. ASSUME NEW q \in Placed, Chosen(q)', q.id < p.id PROVE Chosen(q)
  <2>1. q.id \in (Len(bucket) + 1) .. (p.id - 1)
    BY <1>n, <1>3, PlacedFields DEF Chosen, Beyond
  <2>2. PICK x \in Placed : Chosen(x) /\ x.id = q.id
    BY <1>0, <2>1, NextIsAcked
  <2> QED
    BY <1>3, <2>2, ChosenNew
<1>4. \E f \in Listed(bucket') : Has(f, p)'
  <2>1. PICK f \in Nodes : f \in Listed(bucket) /\ Has(f, p)
    <3>1. PICK f \in Listed(bucket) : Has(f, p)
      BY <1>0 DEF KeepInv
    <3>2. f \in Nodes
      BY <1>0, <3>1, ListedType DEF Types
    <3> QED
      BY <3>1, <3>2
  <2>2. CASE bucket' = bucket
    BY <1>h, <2>1, <2>2
  <2>3. ASSUME NEW w \in Nodes, Flushed(w) PROVE \E g \in Listed(bucket') : Has(g, p)'
    <3>1. PICK x : x = lead[w].log[lead[w].flushed + 1]
      OBVIOUS
    <3>2. bucket' = Append(bucket, x) /\ bucket \in Seq(Change)
      BY <1>0, <2>3, <3>1 DEF Flushed, Types
    <3>3. x \in Change
      <4>1. lead[w].log \in Seq(Change) /\ lead[w].flushed \in Nat /\ lead[w].flushed < Len(lead[w].log)
            /\ Len(lead[w].log) \in Nat
        BY <1>0, <2>3, TypesHold DEF Numbers, Flushed
      <4>2. lead[w].flushed + 1 \in 1 .. Len(lead[w].log)
        BY <4>1
      <4> QED
        BY <3>1, <4>1, <4>2
    <3>4. CASE x.m = NoList
      <4>1. Listed(bucket') = Listed(bucket)
        BY <3>2, <3>3, <3>4, ListedAppend
      <4> QED
        BY <1>h, <2>1, <4>1
    <3>5. CASE x.m # NoList
      <4>1. Len(bucket') = Len(bucket) + 1 /\ bucket'[Len(bucket) + 1] = x
        BY <3>2
      <4>2. Len(bucket) + 1 \in (Len(bucket) + 1) .. (p.id - 1)
        BY <1>n, <4>1
      <4>3. PICK q \in Placed : Chosen(q) /\ q.id = Len(bucket) + 1
        BY <1>0, <4>2, NextIsAcked
      <4>4. ~ Beyond(q.id)'
        BY <1>n, <4>1, <4>3 DEF Beyond
      <4>5. q.change = x
        BY <2>3, <4>1, <4>3, <4>4, FlushesChosen
      <4>6. PICK f1 \in UNION x.m : Has(f1, p)'
        BY <1>1, <1>n, <3>5, <4>1, <4>3, <4>5
      <4>7. Listed(bucket') = UNION x.m
        BY <3>2, <3>3, <3>5, ListedAppend
      <4> QED
        BY <4>6, <4>7
    <3> QED
      BY <3>4, <3>5
  <2> QED
    BY <2>2, <2>3, BucketSteps
<1> QED
  BY <1>1, <1>2, <1>3, <1>4

\* ... and of one chosen just now.
LEMMA KeepFresh ==
  ASSUME Step, WhoInv', TellInv', CommittedInv', NEW p \in Placed, NEW l \in Nodes, NEW f \in Nodes,
         Fresh(l, f)', p = NextOf(l)', acked' = acked
  PROVE  /\ \E g \in Listed(bucket') : Has(g, p)'
         /\ \A q \in Placed : Chosen(q)' /\ q.id < p.id /\ q.change.m # NoList =>
               \E g \in UNION q.change.m : Has(g, p)'
         /\ \A i \in (Len(bucket') + 1) .. (p.id - 1) : \E a \in acked' : a.id = i
<1>0. DInv /\ Types' /\ Numbers' /\ FreshFirm' /\ RoundInv' /\ IInv'
  BY TypesNext, FreshNext DEF Step
<1>n. /\ Len(bucket') \in Nat /\ lead'[l].sent \in Nat /\ lead'[l].committed \in Nat
      /\ lead'[l].sent <= lead'[l].committed + 1 /\ lead'[l].sent > lead'[l].committed
      /\ lead'[l].sent <= Len(lead'[l].log) /\ Len(lead'[l].log) \in Nat
      /\ lead'[l].flushed \in Nat /\ lead'[l].durable \in Nat /\ lead'[l].durable <= lead'[l].flushed
      /\ p.id = lead'[l].sent /\ p.id > Len(bucket') /\ p.change = lead'[l].log[p.id]
  BY <1>0 DEF Types, Numbers, Fresh, NextOf, Beyond
<1>1. Leads(l)' /\ f \in Counters(l)' /\ f \in Listed(bucket') /\ lead'[l].flushed = Len(bucket')
      /\ Top(T(l))'
  BY <1>0 DEF FreshFirm, Fresh
<1>2. Has(f, p)'
  <2>1. PICK c \in held'[f] : Of(c, NextOf(l)') /\ c.term = T(l)'
    BY <1>0 DEF FreshFirm, Of
  <2>2. Of(c, p)
    BY <2>1
  <2>3. Top(c.term)'
    BY <1>1, <2>1 DEF Top
  <2> QED
    BY <2>1, <2>2, <2>3 DEF Has, Of, Top
<1>3. ASSUME NEW i \in (Len(bucket') + 1) .. (p.id - 1)
      PROVE  \E a \in Placed : Chosen(a) /\ a \in acked' /\ a.id = i /\ a.change = lead'[l].log[i]
  <2>1. i \in 1 .. lead'[l].committed /\ Beyond(i)'
    BY <1>n, <1>3, SMTT(60) DEF Beyond
  <2>2. [id |-> i, change |-> lead'[l].log[i]] \in acked'
    BY <2>1 DEF CommittedInv
  <2>3. PICK a \in acked' : a = [id |-> i, change |-> lead'[l].log[i]]
    BY <2>2
  <2>4. a \in Placed /\ a \in acked
    BY <1>0, <2>3 DEF Types
  <2>5. Beyond(a.id)
    <3>1. Len(bucket) <= Len(bucket') /\ Len(bucket) \in Nat /\ a.id > Len(bucket') /\ a.id \in Nat
      BY <1>n, <1>3, <2>3, StoreSteps, TypesHold, SMTT(60) DEF Step, DInv, Types
    <3> QED
      BY <1>n, <3>1 DEF Beyond
  <2> QED
    BY <2>3, <2>4, <2>5 DEF Chosen
<1>4. ASSUME NEW q \in Placed, Chosen(q)', q.id < p.id, q.change.m # NoList
      PROVE  \E g \in UNION q.change.m : Has(g, p)'
  <2>1. q.id \in (Len(bucket') + 1) .. (p.id - 1)
    BY <1>n, <1>4, PlacedFields, SMTT(60) DEF Chosen, Beyond
  <2>2. PICK a \in Placed : Chosen(a) /\ a \in acked' /\ a.id = q.id /\ a.change = lead'[l].log[q.id]
    BY <1>3, <2>1
  <2>3. Chosen(q)
    BY <1>4, <2>2, ChosenNew
  <2>4. q = a
    BY <1>0, <2>2, <2>3, ChosenOnce
  <2>5. RoundOK(lead'[l])
    BY <1>0, <1>1 DEF RoundInv, Leads
  <2>6. q.id \in 1 .. Len(lead'[l].log) /\ q.id > lead'[l].flushed /\ q.id > lead'[l].durable
        /\ lead'[l].log[q.id].m # NoList
    BY <1>1, <1>4, <1>n, <2>1, <2>2, <2>4, SMTT(60)
  <2>7. lead'[l].job.at = "list" /\ lead'[l].job.upto = q.id
    BY <2>5, <2>6 DEF RoundOK
  <2>8. f \in lead'[l].counting
    BY <1>1, <2>6, <2>7 DEF Counters
  <2>9. f \in lead'[l].job.live /\ lead'[l].log[q.id].m = {lead'[l].job.live}
    BY <2>5, <2>7, <2>8 DEF RoundOK
  <2>10. f \in UNION q.change.m
    BY <2>2, <2>4, <2>9
  <2> QED
    BY <1>2, <2>10
<1> QED
  BY <1>1, <1>2, <1>3, <1>4

LEMMA KeepStep == ASSUME Step, WhoInv', TellInv', CommittedInv' PROVE KeepInv'
<1> SUFFICES ASSUME NEW p \in Placed, Chosen(p)'
             PROVE  /\ \E f \in Listed(bucket') : Has(f, p)'
                    /\ \A q \in Placed : Chosen(q)' /\ q.id < p.id /\ q.change.m # NoList =>
                          \E f \in UNION q.change.m : Has(f, p)'
                    /\ \A i \in (Len(bucket') + 1) .. (p.id - 1) : \E a \in acked' : a.id = i
  <2>1. Listed(bucket)' = Listed(bucket')
    BY DEF Listed
  <2> QED
    BY <2>1 DEF KeepInv
<1>1. CASE Chosen(p)
  BY <1>1, KeepOld
<1>2. ASSUME NEW l \in Nodes, NEW f \in Nodes, Fresh(l, f)', p = NextOf(l)', acked' = acked
      PROVE  /\ \E g \in Listed(bucket') : Has(g, p)'
             /\ \A q \in Placed : Chosen(q)' /\ q.id < p.id /\ q.change.m # NoList =>
                   \E g \in UNION q.change.m : Has(g, p)'
             /\ \A i \in (Len(bucket') + 1) .. (p.id - 1) : \E a \in acked' : a.id = i
  BY <1>2, KeepFresh
<1> QED
  BY <1>1, <1>2, ChosenStep

-----------------------------------------------------------------------------
(* What the new leader finds                                               *)

\* The member whose copy got a change chosen has it.
LEMMA FreshHas ==
  ASSUME Step, WhoInv', TellInv', NEW p \in Placed, NEW l \in Nodes, NEW f \in Nodes,
         Fresh(l, f)', p = NextOf(l)'
  PROVE  Has(f, p)'
<1>1. PICK c \in held'[f] : Of(c, NextOf(l)') /\ c.term = T(l)' /\ Top(T(l))'
  BY FreshNext DEF Step, FreshFirm, Of
<1>2. Of(c, p)
  BY <1>1
<1>3. Top(c.term)'
  BY <1>1 DEF Top
<1> QED
  BY <1>1, <1>2, <1>3 DEF Has, Of, Top

\* What a recovery has of a chosen change, it keeps as a member answers.
LEMMA MergesChosen ==
  ASSUME Step, NEW k \in Nodes, NEW q \in Nodes, Answered(k, q),
         NEW p \in Placed, Chosen(p), NEW c \in lead[k].found \cup Answer(q, lead[k].opened),
         Of(c, p), Top(c.term)
  PROVE  \E m \in lead'[k].found : Of(m, p) /\ Top(m.term)'
<1>0. Types /\ UniqueInv /\ CopyInv
  BY TypesHold DEF Step, DInv, WhoInv
<1> DEFINE old == lead[k].found
           new == Answer(q, lead[k].opened)
<1>1. /\ old \in SUBSET Copy /\ new \in SUBSET Copy /\ new \subseteq held[q]
      /\ Single(old) /\ Single(new)
  BY <1>0 DEF Types, UniqueInv, Single, Answer
<1>2. \A x \in old \cup new : x \in Copy /\ IsCopy(x)
  BY <1>1 DEF IsCopy
<1>3. lead'[k].found = Merge(old, new)
  BY DEF Answered
<1> HIDE DEF old, new
<1>4. c \in old \cup new
  BY DEF old, new
<1>5. PICK m \in Merge(old, new) : m.id = c.id /\ m.term >= c.term
  BY <1>1, <1>4, MergeFacts
<1>6. m \in Copy /\ IsCopy(m) /\ c \in Copy /\ IsCopy(c)
  BY <1>1, <1>2, <1>4, <1>5, MergeFacts
<1>7. Beyond(m.id)
  BY <1>5 DEF Of, Chosen
<1>8. m.term = c.term
  BY <1>5, <1>6, <1>7, CopyFields DEF Top
<1>9. Of(m, p)
  BY <1>0, <1>5, <1>6, <1>8 DEF CopyInv, Of
<1>10. PICK t \in Nat : t = m.term
  BY <1>6, CopyFields
<1>11. Top(t)'
  BY <1>8, <1>10, TopStep
<1>12. Top(m.term)'
  BY <1>10, <1>11 DEF Top
<1> QED
  BY <1>3, <1>9, <1>12

LEMMA FoundStep == ASSUME Step, WhoInv', TellInv' PROVE FoundInv'
<1>0. Types /\ Types' /\ KeepInv /\ FoundInv /\ StageInv /\ PrefixInv /\ DInv /\ Numbers
  BY TypesHold, TypesNext DEF Step, DInv, WhoInv, WhatInv
<1> SUFFICES ASSUME NEW k \in Nodes, proc'[k].role = "recovering", Unfenced(k)', NEW p \in Placed, Chosen(p)'
             PROVE  \/ \E f \in lead'[k].todo : Has(f, p)'
                    \/ \E c \in lead'[k].found : Of(c, p) /\ Top(c.term)'
  BY DEF FoundInv, Of
<1>1. ASSUME NEW l \in Nodes, NEW f \in Nodes, Fresh(l, f)', p = NextOf(l)'
      PROVE  \E g \in lead'[k].todo : Has(g, p)'
  <2>1. Leads(l)' /\ proc'[k].epoch > 0
    BY <1>1 DEF Fresh, Step, IInv, EpochInv, InCharge
  <2>2. k # l
    BY <2>1 DEF Leads
  <2>3. f \in lead'[k].todo
    BY <1>1, <2>1, <2>2, FreshNext DEF FreshFirm, Step
  <2> QED
    BY <1>1, <2>3, FreshHas
<1>2. CASE Chosen(p)
  <2>0. Beyond(p.id)' /\ p.id > Len(bucket) /\ p.id \in Nat
    BY <1>2, PlacedFields DEF Chosen, Beyond
  <2>1. ASSUME NEW f \in Nodes, Has(f, p) PROVE Has(f, p)'
    BY <1>2, <2>0, <2>1, HasStep DEF Has
  <2>2. CASE Opened(k)
    <3>1. PICK f \in Nodes : /\ f \in Listed(bucket)
                             /\ \E c \in held[f] : /\ Of(c, p) /\ Top(c.term) /\ c \in Copy /\ IsCopy(c)
                                                   /\ Beyond(c.id) /\ c.term \in Nat
      BY <1>0, <1>2, Keeper
    <3>2. PICK c \in held[f] : Of(c, p) /\ Top(c.term) /\ c \in Copy /\ c.term \in Nat
      BY <3>1
    <3>3. Has(f, p)' /\ Top(c.term)'
      BY <1>2, <2>0, <3>2, HasStep
    <3>4. lead'[k].todo = Listed(bucket) \ {k} /\ lead'[k].found = Answer(k, Len(bucket))
      BY <2>2 DEF Opened
    <3>5. CASE f # k
      BY <3>1, <3>3, <3>4, <3>5
    <3>6. CASE f = k
      BY <2>0, <3>2, <3>3, <3>4, <3>6 DEF Answer, Of
    <3> QED
      BY <3>5, <3>6
  <2>3. CASE ~ Opened(k)
    <3>1. Continues(k) /\ proc[k].role = "recovering"
      BY <2>3, TodoSteps
    <3>2. Unfenced(k)
      BY <3>1, UnfencedBack
    <3>3. \/ \E f \in lead[k].todo : Has(f, p)
          \/ \E c \in lead[k].found : Of(c, p) /\ Top(c.term)
      BY <1>0, <1>2, <3>1, <3>2 DEF FoundInv
    <3>4. CASE lead'[k].todo = lead[k].todo /\ lead'[k].found = lead[k].found
      <4>1. ASSUME NEW c \in lead[k].found, Of(c, p), Top(c.term) PROVE Top(c.term)'
        <5>1. PICK t \in Nat : t = c.term
          BY <1>0, CopyFields DEF Types
        <5>2. Top(t)'
          BY <1>2, <4>1, <5>1, TopStep
        <5> QED
          BY <5>1, <5>2 DEF Top
      <4>2. lead[k].todo \subseteq Nodes
        BY <1>0 DEF Types
      <4> QED
        BY <2>1, <3>3, <3>4, <4>1, <4>2
    <3>5. ASSUME NEW q \in Nodes, Answered(k, q)
          PROVE  \/ \E f \in lead'[k].todo : Has(f, p)'
                 \/ \E c \in lead'[k].found : Of(c, p) /\ Top(c.term)'
      <4>1. ASSUME NEW c \in lead[k].found \cup Answer(q, lead[k].opened), Of(c, p), Top(c.term)
            PROVE  \E m \in lead'[k].found : Of(m, p) /\ Top(m.term)'
        BY <1>2, <3>5, <4>1, MergesChosen
      <4>2. CASE \E f \in lead[k].todo : Has(f, p)
        <5>1. PICK f \in lead[k].todo : Has(f, p)
          BY <4>2
        <5>2. CASE f # q
          <6>1. f \in Nodes /\ f \in lead'[k].todo
            BY <1>0, <3>5, <5>2 DEF Types, Answered
          <6> QED
            BY <2>1, <5>1, <6>1
        <5>3. CASE f = q
          <6>1. PICK c \in held[q] : Of(c, p) /\ Top(c.term)
            BY <5>1, <5>3 DEF Has
          <6>2. lead[k].opened <= lead[k].flushed /\ lead[k].flushed <= Len(bucket)
            BY <1>0 DEF StageInv, PrefixInv
          <6>3. c \in Answer(q, lead[k].opened)
            <7>1. lead[k].opened \in Nat /\ Len(bucket) \in Nat /\ lead[k].flushed \in Nat
              BY <1>0 DEF Types, Numbers
            <7> QED
              BY <2>0, <6>1, <6>2, <7>1 DEF Answer, Of
          <6> QED
            BY <4>1, <6>1, <6>3
        <5> QED
          BY <5>2, <5>3
      <4> QED
        BY <3>3, <4>1, <4>2
    <3> QED
      BY <2>3, <3>4, <3>5, TodoSteps
  <2> QED
    BY <2>2, <2>3
<1> QED
  BY <1>1, <1>2, ChosenStep

-----------------------------------------------------------------------------
(* What it writes again                                                    *)

\* The run of what was found goes as far as copies of one term do.
LEMMA RunReaches ==
  ASSUME NEW copies, NEW b \in 0 .. MaxId, NEW k \in b .. MaxId,
         \A i \in (b + 1) .. k : \E c \in copies : c.id = i,
         \A i \in (b + 2) .. k : CopyOf(copies, i - 1).term <= CopyOf(copies, i).term
  PROVE  RunEnd(copies, b) \in k .. MaxId
<1> DEFINE P(j) == \A i \in (b + 1) .. j :
                     /\ \E c \in copies : c.id = i
                     /\ i > b + 1 => CopyOf(copies, i - 1).term <= CopyOf(copies, i).term
           S == {j \in b .. MaxId : P(j)}
<1>1. P(k)
  <2> SUFFICES ASSUME NEW i \in (b + 1) .. k, i > b + 1
               PROVE  CopyOf(copies, i - 1).term <= CopyOf(copies, i).term
    OBVIOUS
  <2>1. i \in (b + 2) .. k
    BY BoundsAssumption
  <2> QED
    BY <2>1
<1>2. k \in S
  BY <1>1
<1>3. S \in SUBSET (0 .. MaxId)
  BY BoundsAssumption
<1>4. RunEnd(copies, b) = MaxOf(S)
  BY DEF RunEnd
<1> HIDE DEF S
<1>5. MaxOf(S) \in S /\ k <= MaxOf(S)
  BY <1>2, <1>3, MaxOfBounded, BoundsAssumption
<1>6. MaxOf(S) \in 0 .. MaxId
  BY <1>3, <1>5
<1>7. MaxOf(S) \in k .. MaxId
  BY <1>5, <1>6, BoundsAssumption
<1> QED
  BY <1>4, <1>7

\* The log after it wrote again what it found.
LEMMA RewroteLog ==
  ASSUME Step, NEW w \in Nodes, Rewrote(w),
         NEW k \in (lead[w].opened + 1) .. RunEnd(lead[w].found, lead[w].opened)
  PROVE  k <= Len(lead'[w].log) /\ lead'[w].log[k] = CopyOf(lead[w].found, k).change
<1>0. Types /\ Numbers /\ lead[w] \in Lead /\ StageInv
  BY TypesHold DEF Step, DInv, WhoInv, IInv, TypeOK
<1> DEFINE b == lead[w].opened
           e == RunEnd(lead[w].found, b)
           r == Recovered(w)
<1>1. b \in 0 .. MaxId /\ lead[w].found \in SUBSET Copy /\ lead[w].log \in Seq(Change)
  BY <1>0 DEF Lead
<1>2. e \in b .. MaxId
  BY <1>1, RunEndType
<1>3. Len(lead[w].log) = b
  BY <1>0 DEF StageInv, Rewrote
<1>4. r = [i \in 1 .. (e - b) |-> CopyOf(lead[w].found, b + i).change]
  BY DEF Recovered
<1>5. r \in Seq(Change)
  BY <1>0, RecoveredType
<1>6. PICK off \in Seq(Change) : lead'[w].log = lead[w].log \o r \o off
  BY DEF Rewrote
<1>7. k \in (b + 1) .. e
  OBVIOUS
<1>8. PICK i \in 1 .. (e - b) : k = b + i
  <2>1. k - b \in 1 .. (e - b) /\ k = b + (k - b)
    BY <1>1, <1>2, <1>7, BoundsAssumption, SMTT(60)
  <2> QED
    BY <2>1
<1>9. Len(r) = e - b /\ r[i] = CopyOf(lead[w].found, b + i).change
  <2>1. e - b \in Nat
    BY <1>1, <1>2, BoundsAssumption
  <2> HIDE DEF e, b
  <2>2. DOMAIN r = 1 .. (e - b)
    BY <1>4
  <2> HIDE DEF r
  <2> QED
    BY <1>4, <1>5, <2>1, <2>2, LenProperties
<1> HIDE DEF r, e, b
<1>10. PICK log \in Seq(Change) : log = lead[w].log
  BY <1>1
<1>11. /\ b + i <= Len(log \o r \o off) /\ (log \o r \o off)[b + i] = r[i]
  <2>1. Len(log) = b /\ b \in Nat /\ i \in 1 .. Len(r) /\ Len(off) \in Nat /\ Len(r) \in Nat
    BY <1>1, <1>3, <1>5, <1>9, <1>10, BoundsAssumption
  <2>2. Len(log \o r) = b + Len(r) /\ log \o r \in Seq(Change) /\ (log \o r)[b + i] = r[i]
    <3>1. \A j \in 1 .. Len(r) : (log \o r)[Len(log) + j] = r[j]
      BY ONLY log \in Seq(Change), r \in Seq(Change)
    <3>2. Len(log \o r) = Len(log) + Len(r) /\ log \o r \in Seq(Change)
      BY ONLY log \in Seq(Change), r \in Seq(Change)
    <3> QED
      BY <2>1, <3>1, <3>2
  <2>3. b + i \in 1 .. Len(log \o r)
    BY <2>1, <2>2
  <2> PICK h \in Seq(Change) : h = log \o r
    BY <2>2
  <2>4. Len(h \o off) = Len(h) + Len(off) /\ \A j \in 1 .. Len(h) : (h \o off)[j] = h[j]
    BY ONLY h \in Seq(Change), off \in Seq(Change)
  <2> QED
    BY <2>1, <2>2, <2>3, <2>4, SMTT(60)
<1> QED
  BY <1>6, <1>8, <1>9, <1>10, <1>11 DEF b

LEMMA LogStep == ASSUME Step, WhoInv', TellInv' PROVE LogInv'
<1>0. Types /\ Types' /\ LogInv /\ FoundInv /\ StageInv /\ UniqueInv /\ CopyInv /\ DInv /\ Numbers /\ Numbers'
      /\ BucketInv /\ EpochInv
  BY TypesHold, TypesNext DEF Step, DInv, WhoInv, WhatInv, IInv
<1> SUFFICES ASSUME NEW w \in Nodes, Commits(w)', Unfenced(w)', NEW p \in Placed, Chosen(p)'
             PROVE  p.id <= Len(lead'[w].log) /\ lead'[w].log[p.id] = p.change
  BY DEF LogInv
<1>1. ASSUME NEW l \in Nodes, NEW f \in Nodes, Fresh(l, f)', p = NextOf(l)'
      PROVE  p.id <= Len(lead'[w].log) /\ lead'[w].log[p.id] = p.change
  <2>1. proc'[w].epoch > 0
    BY DEF Step, IInv, EpochInv, InCharge, Commits
  <2>2. CASE w = l
    <3>1. p.id = lead'[w].sent /\ p.change = lead'[w].log[p.id] /\ lead'[w].sent <= Len(lead'[w].log)
      BY <1>0, <1>1, <2>2 DEF NextOf, Numbers
    <3> QED
      BY <3>1
  <2>3. CASE w # l
    <3>1. proc'[w].role = "recovering"
      BY <1>1, <2>1, <2>3, FreshNext DEF FreshFirm, Step
    <3> QED
      BY <3>1 DEF Commits
  <2> QED
    BY <2>2, <2>3
<1>2. CASE Chosen(p)
  <2>1. proc'[w].epoch > 0 /\ ~ Opened(w)
    BY DEF Step, IInv, EpochInv, InCharge, Commits, Opened
  <2>2. Continues(w) /\ Unfenced(w)
    BY <2>1, LeadSteps, UnfencedBack
  <2>3. Commits(w) \/ Rewrote(w)
    BY <2>2 DEF Continues, Commits, Served
  <2>4. CASE Commits(w)
    <3>1. p.id <= Len(lead[w].log) /\ lead[w].log[p.id] = p.change
      BY <1>0, <1>2, <2>2, <2>4 DEF LogInv
    <3>2. /\ Len(lead[w].log) <= Len(lead'[w].log)
          /\ \A i \in 1 .. Len(lead[w].log) : lead'[w].log[i] = lead[w].log[i]
      BY <2>2 DEF Continues
    <3>3. Len(lead[w].log) \in Nat /\ Len(lead'[w].log) \in Nat /\ p.id \in Nat /\ p.id > 0
      BY <1>0, PlacedFields DEF Numbers
    <3> QED
      BY <3>1, <3>2, <3>3, SMTT(60)
  <2>5. CASE Rewrote(w)
    <3> DEFINE b == lead[w].opened
               found == lead[w].found
    <3>1. proc[w].role = "recovering" /\ lead[w].todo = {} /\ proc[w].epoch > 0
      BY <2>2, <2>5 DEF Rewrote, Continues
    <3>2. b = Len(bucket) /\ b \in Nat
      BY <1>0, <2>2, <3>1, ZenonT(60) DEF StageInv, BucketInv, Types
    <3>3. p.id > b /\ p.id \in Nat /\ p.id <= MaxId
      BY <1>2, <3>2, PlacedFields DEF Chosen, Beyond
    <3>4. ASSUME NEW i \in (b + 1) .. p.id
          PROVE  \E q \in Placed : Chosen(q) /\ q.id = i
      <4>1. CASE i = p.id
        BY <1>2, <4>1
      <4>2. CASE i # p.id
        <5>1. i \in (Len(bucket) + 1) .. (p.id - 1)
          BY <3>2, <3>3, <4>2
        <5> QED
          BY <1>0, <1>2, <5>1, NextIsAcked
      <4> QED
        BY <4>1, <4>2
    <3>5. ASSUME NEW q \in Placed, Chosen(q)
          PROVE  /\ \E c \in found : c.id = q.id
                 /\ LET c == CopyOf(found, q.id) IN c \in found /\ Of(c, q) /\ Top(c.term)
      <4>1. PICK c \in found : Of(c, q) /\ Top(c.term)
        BY <1>0, <2>2, <3>1, <3>5 DEF FoundInv
      <4>2. \A e \in found : e.id = q.id => e = c
        BY <1>0, <4>1 DEF UniqueInv, Of
      <4>3. CopyOf(found, q.id) = c
        BY <4>1, <4>2 DEF CopyOf, Of
      <4> QED
        BY <4>1, <4>3 DEF Of
    <3>6. \A i \in (b + 1) .. p.id : \E c \in found : c.id = i
      BY <3>4, <3>5
    <3>7. ASSUME NEW i \in (b + 2) .. p.id
          PROVE  CopyOf(found, i - 1).term <= CopyOf(found, i).term
      <4>1. PICK j \in (b + 1) .. p.id : j = i - 1
        BY <3>2, <3>3
      <4>2. PICK q \in Placed : Chosen(q) /\ q.id = j
        BY <3>4
      <4>3. i \in (b + 1) .. p.id
        BY <3>2, <3>3
      <4>4. PICK r \in Placed : Chosen(r) /\ r.id = i
        BY <3>4, <4>3
      <4>5. PICK c \in found : c = CopyOf(found, j) /\ Of(c, q) /\ Top(c.term)
        BY <3>5, <4>2
      <4>6. PICK e \in found : e = CopyOf(found, i) /\ Of(e, r) /\ Top(e.term)
        BY <3>5, <4>4
      <4>7. c \in Copy /\ e \in Copy /\ IsCopy(c) /\ IsCopy(e) /\ Beyond(c.id)
        BY <1>0, <4>2, <4>5, <4>6 DEF Types, IsCopy, Of, Chosen
      <4>8. c.term <= e.term
        BY <4>6, <4>7 DEF Top
      <4> QED
        BY <4>1, <4>5, <4>6, <4>8
    <3>8. b \in 0 .. MaxId /\ p.id \in b .. MaxId
      BY <3>2, <3>3, BoundsAssumption
    <3>9. RunEnd(found, b) \in p.id .. MaxId
      BY <3>6, <3>7, <3>8, RunReaches
    <3>10. p.id \in (b + 1) .. RunEnd(found, b)
      BY <3>2, <3>3, <3>9, BoundsAssumption
    <3>11. p.id <= Len(lead'[w].log) /\ lead'[w].log[p.id] = CopyOf(found, p.id).change
      BY <2>5, <3>10, RewroteLog
    <3>12. CopyOf(found, p.id).change = p.change
      BY <1>2, <3>5 DEF Of
    <3> QED
      BY <3>11, <3>12
  <2> QED
    BY <2>3, <2>4, <2>5
<1> QED
  BY <1>1, <1>2, ChosenStep

-----------------------------------------------------------------------------
(* A recovery that the bucket refuses by now stops                         *)

\* As long as the newest copy of a chosen change is of an older term, it keeps
\* what it has to write again.
LEMMA KeepsStops ==
  ASSUME Step, NEW k \in Nodes, Continues(k), ~ Flushed(k), Stops(k),
         proc'[k].role \in {"recovering", "settling"},
         NEW p \in Placed, Chosen(p), NEW g \in Nodes, NEW e \in held[g],
         Of(e, p), Top(e.term), e.term < T(k)
  PROVE  Stops(k)'
<1>0. Types /\ Types' /\ StageInv /\ UniqueInv /\ LateInv /\ OrderInv /\ DInv /\ Numbers /\ Numbers'
  BY TypesHold, TypesNext DEF Step, DInv, WhoInv
<1> USE DEF Continues
<1>1. CASE proc[k].role = "settling"
  <2>1. lead[k].flushed < Len(lead[k].log)
    BY <1>1 DEF Stops
  <2>2. proc'[k].role = "settling"
    BY <1>1 DEF Rewrote, Served
  <2>3. lead'[k].flushed = lead[k].flushed /\ Len(lead[k].log) <= Len(lead'[k].log)
        /\ lead[k].flushed \in Nat /\ Len(lead[k].log) \in Nat /\ Len(lead'[k].log) \in Nat
    BY <1>0 DEF Numbers
  <2> QED
    BY <2>1, <2>2, <2>3 DEF Stops
<1>2. CASE proc[k].role = "recovering" /\ Rewrote(k)
  <2> DEFINE b == lead[k].opened
             found == lead[k].found
  <2>1. lead[k].todo = {} /\ proc'[k].role = "settling" /\ lead[k].flushed = b
    BY <1>0, <1>2 DEF Rewrote, StageInv
  <2>2. PICK c \in found : c.id = b + 1
    BY <1>2, <2>1 DEF Stops
  <2>3. b \in Nat /\ c.id <= MaxId
    BY <1>0, CopyFields DEF Types, Numbers
  <2>4. b \in 0 .. MaxId /\ b + 1 \in b .. MaxId
    BY <2>2, <2>3, BoundsAssumption
  <2>5. \A i \in (b + 1) .. (b + 1) : \E x \in found : x.id = i
    BY <2>2, <2>3
  <2>6. \A i \in (b + 2) .. (b + 1) : CopyOf(found, i - 1).term <= CopyOf(found, i).term
    BY <2>3
  <2>7. RunEnd(found, b) \in (b + 1) .. MaxId
    BY <2>4, <2>5, <2>6, RunReaches
  <2>8. b + 1 \in (b + 1) .. RunEnd(found, b)
    BY <2>3, <2>7, BoundsAssumption
  <2>9. b + 1 <= Len(lead'[k].log)
    BY <1>2, <2>8, RewroteLog
  <2>10. lead'[k].flushed = b /\ Len(lead'[k].log) \in Nat
    BY <1>0, <2>1 DEF Numbers
  <2> QED
    BY <2>1, <2>3, <2>9, <2>10 DEF Stops
<1>3. CASE proc[k].role = "recovering" /\ ~ Rewrote(k)
  <2>0. proc'[k].role = "recovering" /\ ~ Opened(k) /\ lead'[k].opened = lead[k].opened
    BY <1>3 DEF Served, Opened
  <2>1. ASSUME NEW c \in lead[k].found, c.id = lead[k].opened + 1 PROVE Stops(k)'
    <3>1. CASE lead'[k].found = lead[k].found
      BY <2>0, <2>1, <3>1 DEF Stops
    <3>2. ASSUME NEW q \in Nodes, Answered(k, q) PROVE Stops(k)'
      <4> DEFINE old == lead[k].found
                 new == Answer(q, lead[k].opened)
      <4>1. old \in SUBSET Copy /\ new \in SUBSET Copy /\ Single(old) /\ Single(new)
        BY <1>0 DEF Types, UniqueInv, Single, Answer
      <4>2. lead'[k].found = Merge(old, new)
        BY <3>2 DEF Answered
      <4>3. c \in old \cup new
        OBVIOUS
      <4> HIDE DEF old, new
      <4>4. PICK m \in Merge(old, new) : m.id = c.id
        BY <4>1, <4>3, MergeFacts
      <4> QED
        BY <2>0, <2>1, <4>2, <4>4 DEF Stops
    <3> QED
      BY <2>0, <3>1, <3>2, TodoSteps
  <2>2. ASSUME NEW f \in lead[k].todo, NEW c \in held[f], c.id = lead[k].opened + 1, Top(c.term)
        PROVE  Stops(k)'
    <3>1. c \in Copy /\ f \in Nodes /\ e \in Copy /\ IsCopy(e) /\ Beyond(e.id)
      BY <1>0, <2>2 DEF Types, IsCopy, Chosen, Of
    <3>2. c.term \in Nat /\ c.id \in Nat /\ e.term \in Nat /\ lead[k].opened \in Nat /\ c.id > lead[k].opened
      BY <1>0, <2>2, <3>1, CopyFields DEF Numbers
    <3>3. Top(c.term)'
      <4>1. PICK t \in Nat : t = c.term
        BY <3>2
      <4>2. Top(t)'
        BY <2>2, <4>1, TopStep
      <4> QED
        BY <4>1, <4>2 DEF Top
    <3>4. ASSUME NEW l \in Nodes, Leads(l) PROVE T(l) <= c.term /\ lead[l].flushed < c.id
      <4>1. T(l) <= c.term /\ T(l) <= e.term /\ T(l) \in Nat /\ T(k) \in Nat
        BY <1>0, <2>2, <3>4 DEF Top, Types, T
      <4>2. T(l) < T(k)
        BY <3>2, <4>1
      <4>3. proc[l].epoch > 0
        BY <1>0, <3>4 DEF DInv, IInv, EpochInv, InCharge, Leads
      <4>4. lead[l].flushed <= lead[k].opened
        BY <1>0, <4>2, <4>3 DEF OrderInv, LateInv
      <4>5. lead[l].flushed \in Nat
        BY <1>0 DEF Numbers
      <4> QED
        BY <3>2, <4>1, <4>4, <4>5, SMTT(60)
    <3>5. PICK m \in held'[f] : m.id = c.id /\ m.term = c.term
      BY <3>1, <3>4, KeepsUnflushed
    <3>6. CASE f \in lead'[k].todo
      BY <2>0, <2>2, <3>3, <3>5, <3>6 DEF Stops, Top
    <3>7. ASSUME f \notin lead'[k].todo, NEW q \in Nodes, Answered(k, q) PROVE Stops(k)'
      <4> DEFINE old == lead[k].found
                 new == Answer(q, lead[k].opened)
      <4>1. old \in SUBSET Copy /\ new \in SUBSET Copy /\ Single(old) /\ Single(new)
        BY <1>0 DEF Types, UniqueInv, Single, Answer
      <4>2. lead'[k].found = Merge(old, new) /\ f = q
        BY <2>2, <3>7 DEF Answered
      <4>3. c \in old \cup new
        BY <2>2, <3>2, <4>2 DEF Answer
      <4> HIDE DEF old, new
      <4>4. PICK x \in Merge(old, new) : x.id = c.id
        BY <4>1, <4>3, MergeFacts
      <4> QED
        BY <2>0, <2>2, <4>2, <4>4 DEF Stops
    <3> QED
      BY <2>0, <2>2, <3>6, <3>7, TodoSteps
  <2> QED
    BY <1>3, <2>1, <2>2 DEF Stops
<1> QED
  BY <1>1, <1>2, <1>3 DEF Stops

LEMMA StopStep ==
  ASSUME Step, WhoInv', TellInv', FoundInv', LogInv', KeepInv'
  PROVE  StopInv'
<1>0. Types /\ Types' /\ Numbers' /\ DInv /\ StopInv /\ StageInv' /\ PrefixInv' /\ BucketInv' /\ EpochInv'
  BY TypesHold, TypesNext DEF Step, DInv, IInv, WhoInv, WhatInv
<1> SUFFICES ASSUME NEW k \in Nodes, NEW f \in Nodes, NEW p \in Placed, NEW c \in held'[f],
                    proc'[k].role \in {"recovering", "settling"},
                    Chosen(p)', Of(c, p), Top(c.term)', c.term < T(k)'
             PROVE  Stops(k)'
  BY DEF StopInv, Of
<1>1. /\ proc'[k].epoch > 0 /\ T(k)' \in Nat /\ Len(bucket') \in Nat
      /\ lead'[k].flushed \in Nat /\ lead'[k].opened \in Nat /\ Len(lead'[k].log) \in Nat
      /\ p.id \in Nat /\ p.id > Len(bucket') /\ c \in Copy /\ c.term \in Nat
  BY <1>0, PlacedFields, CopyFields DEF EpochInv, InCharge, Types, Numbers, T, Chosen, Beyond
<1>2. CASE Unfenced(k)'
  <2>1. lead'[k].flushed = Len(bucket')
    BY <1>0, <1>1, <1>2 DEF BucketInv
  <2>2. CASE proc'[k].role = "settling"
    <3>1. p.id <= Len(lead'[k].log)
      BY <1>2, <2>2 DEF LogInv, Commits
    <3> QED
      BY <1>1, <2>1, <2>2, <3>1 DEF Stops
  <2>3. CASE proc'[k].role = "recovering"
    <3>1. lead'[k].opened = Len(bucket')
      BY <1>0, <2>1, <2>3 DEF StageInv
    <3>2. PICK q \in Placed : Chosen(q)' /\ q.id = Len(bucket') + 1
      <4>1. CASE p.id = Len(bucket') + 1
        BY <4>1
      <4>2. CASE p.id # Len(bucket') + 1
        <5>1. Len(bucket') + 1 \in (Len(bucket') + 1) .. (p.id - 1)
          BY <1>1, <4>2
        <5>2. PICK a \in acked' : a.id = Len(bucket') + 1
          BY <5>1 DEF KeepInv
        <5>3. a \in Placed /\ Beyond(a.id)'
          BY <1>0, <1>1, <5>2 DEF Types, Beyond
        <5> QED
          BY <5>2, <5>3 DEF Chosen
      <4> QED
        BY <4>1, <4>2
    <3>3. \/ \E g \in lead'[k].todo : Has(g, q)'
          \/ \E x \in lead'[k].found : Of(x, q) /\ Top(x.term)'
      BY <1>2, <2>3, <3>2 DEF FoundInv, Of
    <3>4. CASE \E g \in lead'[k].todo : Has(g, q)'
      <4>1. PICK g \in lead'[k].todo : \E x \in held'[g] : Of(x, q) /\ Top(x.term)'
        BY <3>4 DEF Has, Of
      <4>2. PICK x \in held'[g] : Of(x, q) /\ Top(x.term)'
        BY <4>1
      <4>3. x.id = lead'[k].opened + 1
        BY <3>1, <3>2, <4>2 DEF Of
      <4> QED
        BY <2>3, <4>1, <4>2, <4>3 DEF Stops, Top
    <3>5. CASE \E x \in lead'[k].found : Of(x, q)
      BY <2>3, <3>1, <3>2, <3>5 DEF Stops, Of
    <3> QED
      BY <3>3, <3>4, <3>5
  <2> QED
    BY <2>2, <2>3
<1>3. CASE ~ Unfenced(k)'
  <2>1. ~ Opened(k)
    BY <1>3 DEF Opened, Unfenced
  <2>2. Continues(k) /\ T(k)' = T(k)
    BY <1>1, <2>1, LeadSteps DEF Continues, T
  <2>3. ~ Flushed(k)
    BY <1>3, <2>2 DEF Flushed, SameRoles, Unfenced
  <2>4. proc[k].role \in {"recovering", "settling"}
    BY <2>2 DEF Continues, Rewrote, Served
  <2>5. ASSUME NEW q \in Placed, Chosen(q), NEW g \in Nodes, NEW e \in held[g],
               Of(e, q), Top(e.term), e.term < T(k)
        PROVE  Stops(k)'
    <3>1. Stops(k)
      BY <1>0, <2>4, <2>5 DEF StopInv
    <3> QED
      BY <2>2, <2>3, <2>5, <3>1, KeepsStops
  <2>6. CASE Chosen(p)
    <3>1. PICK g \in Nodes : /\ g \in Listed(bucket)
                             /\ \E e \in held[g] : /\ Of(e, p) /\ Top(e.term) /\ e \in Copy /\ IsCopy(e)
                                                   /\ Beyond(e.id) /\ e.term \in Nat
      BY <1>0, <2>6, Keeper
    <3>2. PICK e \in held[g] : Of(e, p) /\ Top(e.term) /\ e.term \in Nat
      BY <3>1
    <3>3. Beyond(p.id)'
      BY DEF Chosen
    <3>4. PICK m \in held'[g] : Of(m, p) /\ m.term = e.term
      BY <2>6, <3>2, <3>3, HasStep
    <3>5. m \in Copy /\ IsCopy(m)' /\ Beyond(m.id)'
      BY <1>0, <3>3, <3>4 DEF Types, IsCopy, Of, Beyond
    <3>6. m.term <= c.term
      BY <3>5 DEF Top
    <3>7. e.term < T(k)
      BY <1>1, <2>2, <3>2, <3>4, <3>6
    <3> QED
      BY <2>5, <2>6, <3>2, <3>7
  <2>7. ASSUME NEW l \in Nodes, NEW h \in Nodes, Fresh(l, h)', p = NextOf(l)', acked' = acked,
               Unfenced(l)' \/ bucket' = bucket
        PROVE  Stops(k)'
    <3>1. /\ Leads(l)' /\ Able(l)' /\ lead'[l].flushed = Len(bucket')
          /\ \E x \in held'[h] : Of(x, NextOf(l)') /\ x.term = T(l)'
          /\ Top(T(l))'
          /\ T(l)' < T(k)' => proc'[k].role = "recovering" /\ h \in lead'[k].todo
      BY <1>1, <2>7, FreshNext DEF FreshFirm, Fresh, Step, Of
    <3>2. T(l)' \in Nat /\ T(l)' <= c.term
      BY <1>0, <3>1 DEF Top, Types, T
    <3>3. T(l)' < T(k)'
      BY <1>1, <3>2
    <3>4. proc'[l].epoch > 0
      BY <1>0, <3>1 DEF EpochInv, InCharge, Leads
    <3>5. ~ Unfenced(l)'
      BY <1>1, <3>3, <3>4 DEF Step, Sound, IInv, OlderInv, OlderIsFenced, T
    <3>6. bucket' = bucket
      BY <2>7, <3>5
    <3>7. CASE \E q \in Placed : Chosen(q)
      <4>1. PICK q \in Placed : Chosen(q)
        BY <3>7
      <4>2. Beyond(q.id)'
        BY <3>6, <4>1 DEF Chosen, Beyond
      <4>3. PICK g \in Nodes : /\ g \in Listed(bucket)
                               /\ \E e \in held[g] : Of(e, q) /\ Top(e.term) /\ e \in Copy /\ e.term = T(l)'
        BY <2>7, <4>1, <4>2, FreshTerm
      <4>4. PICK e \in held[g] : Of(e, q) /\ Top(e.term) /\ e.term = T(l)'
        BY <4>3
      <4>5. e.term < T(k)
        BY <2>2, <3>3, <4>4
      <4> QED
        BY <2>5, <4>1, <4>4, <4>5
    <3>8. CASE ~ \E q \in Placed : Chosen(q)
      <4>1. p.id = Len(bucket') + 1
        <5> SUFFICES ASSUME p.id # Len(bucket') + 1 PROVE FALSE
          OBVIOUS
        <5>1. Len(bucket') + 1 \in (Len(bucket') + 1) .. (p.id - 1)
          BY <1>1
        <5>2. PICK a \in acked' : a.id = Len(bucket') + 1
          BY <5>1 DEF KeepInv
        <5>3. a \in Placed /\ a \in acked /\ Beyond(a.id)
          BY <1>0, <1>1, <2>7, <3>6, <5>2 DEF Types, Beyond
        <5> QED
          BY <3>8, <5>3 DEF Chosen
      <4>2. lead'[k].opened = Len(bucket')
        <5>1. lead'[l].flushed <= lead'[k].opened
          BY <1>1, <3>3, <3>4 DEF WhoInv, OrderInv, LateInv
        <5>2. lead'[k].opened <= lead'[k].flushed /\ lead'[k].flushed <= Len(bucket')
          BY <1>0 DEF StageInv, PrefixInv
        <5> QED
          BY <1>1, <3>1, <5>1, <5>2
      <4>3. PICK x \in held'[h] : Of(x, NextOf(l)') /\ x.term = T(l)'
        BY <3>1
      <4>4. x.id = lead'[k].opened + 1
        BY <2>7, <4>1, <4>2, <4>3 DEF Of
      <4>5. Top(x.term)'
        BY <3>1, <4>3 DEF Top
      <4> QED
        BY <3>1, <3>3, <4>3, <4>4, <4>5 DEF Stops, Top
    <3> QED
      BY <3>7, <3>8
  <2> QED
    BY <2>6, <2>7, ChosenStep
<1> QED
  BY <1>2, <1>3

-----------------------------------------------------------------------------
(* The invariant                                                           *)

\* Only a commit acknowledges a change.
LEMMA AckedSteps ==
  ASSUME Step
  PROVE  acked' = acked \/ \E l \in Nodes : Confirmed(l)
<1>1. ASSUME NEW n \in Nodes, MovesOn(n) \/ (Worked(n) /\ ~ Confirmed(n)) \/ Followed(n) PROVE acked' = acked
  BY <1>1 DEF MovesOn, Ended, Opened, Answered, Rewrote, Served, Worked, Wrote, Flushed, Sent, Noted,
              LoopSame, Shrunk, Counted, RoundSame, Followed, Joined, Dropped, Fetched, Held, Pruned, StreamSame
<1>2. ASSUME NEW a \in wire, Received(a) PROVE acked' = acked
  BY <1>2 DEF Received
<1>3. UNCHANGED vars => acked' = acked
  BY DEF vars
<1> QED
  BY <1>1, <1>2, <1>3 DEF Step, Goes

LEMMA AckedStep == ASSUME Step, CommittedInv' PROVE AckedInBucket'
<1>0. Types /\ Types' /\ Numbers /\ Numbers' /\ DInv /\ AckedInBucket
  BY TypesHold, TypesNext DEF Step, DInv, WhatInv
<1> SUFFICES ASSUME NEW a \in acked', a.id <= Len(bucket') PROVE bucket'[a.id] = a.change
  BY DEF AckedInBucket
<1>1. a \in Placed /\ a.id \in Nat /\ a.id > 0 /\ Len(bucket) \in Nat /\ Len(bucket') \in Nat
  BY <1>0, PlacedFields DEF Types
<1>2. CASE a \in acked /\ a.id <= Len(bucket)
  <2>1. bucket[a.id] = a.change
    BY <1>0, <1>2 DEF AckedInBucket
  <2>2. a.id \in 1 .. Len(bucket)
    BY <1>1, <1>2
  <2> QED
    BY <2>1, <2>2, StoreSteps
<1>3. CASE a \in acked /\ a.id > Len(bucket)
  <2>1. Chosen(a) /\ ~ Beyond(a.id)'
    BY <1>1, <1>3 DEF Chosen, Beyond
  <2>2. bucket' # bucket
    BY <1>1, <1>3
  <2>3. PICK w \in Nodes : Flushed(w)
    BY <2>2, BucketSteps
  <2> QED
    BY <1>1, <2>1, <2>3, FlushesChosen
<1>4. CASE a \notin acked
  <2>1. PICK l \in Nodes : Confirmed(l)
    BY <1>4, AckedSteps
  <2>2. a = [id |-> lead[l].sent, change |-> lead[l].log[lead[l].sent]]
    BY <1>4, <2>1 DEF Confirmed
  <2>3. lead'[l].committed = a.id /\ lead'[l].log[a.id] = a.change
    BY <2>1, <2>2 DEF Confirmed, LoopSame, SameLog
  <2>4. a.id \in 1 .. lead'[l].committed
    BY <1>1, <2>3
  <2> QED
    BY <2>3, <2>4 DEF CommittedInv
<1> QED
  BY <1>1, <1>2, <1>3, <1>4

LEMMA WhatStep == ASSUME Step, WhoInv' PROVE WhatInv'
<1>1. TellInv' /\ CommittedInv'
  BY TellStep, CommittedStep
<1>2. OnlyInv' /\ KeepInv' /\ FoundInv' /\ LogInv' /\ AckedInBucket'
  BY <1>1, OnlyStep, KeepStep, FoundStep, LogStep, AckedStep
<1>3. StopInv'
  BY <1>1, <1>2, StopStep
<1> QED
  BY <1>1, <1>2, <1>3 DEF WhatInv

LEMMA InitDInv == Init => DInv
<1> SUFFICES ASSUME Init PROVE DInv
  OBVIOUS
<1>1. IInv
  BY InitIInv
<1>2. RoundInv
  BY DEF Init, RoundInv, Leads, NoLead
<1>3. /\ bucket = <<>> /\ Len(bucket) = 0 /\ fence = 0 /\ owner = <<>> /\ Len(owner) = 0
      /\ wire = {} /\ acked = {}
      /\ \A n \in Nodes : /\ proc[n].role = "down" /\ proc[n].term = 0 /\ proc[n].epoch = 0
                          /\ lead[n] = NoLead /\ held[n] = {} /\ fol[n] = NewFol({})
  BY DEF Init
<1>4. \A n \in Nodes : fol[n].conn = 0
  BY <1>3 DEF NewFol
<1>5. \A n \in Nodes : ~ Leads(n) /\ ~ Commits(n) /\ proc[n].role \notin InCharge /\ ~ proc[n].epoch > 0
  BY <1>3 DEF Leads, Commits, InCharge
<1>6. \A n \in Nodes : lead[n].found = {} /\ lead[n].committed = 0 /\ lead[n].flushed = 0 /\ lead[n].opened = 0
                       /\ lead[n].acks = NoLead.acks
  BY <1>3, NoLeadFields
<1>7. \A c : ~ IsCopy(c)
  BY <1>3, <1>6 DEF IsCopy
<1>8. \A l \in Nodes : ~ Able(l) /\ ~ Backed(l)
  BY <1>5 DEF Able, Backed
<1>9. \A p \in Placed : ~ Chosen(p)
  BY <1>3, <1>8 DEF Chosen
<1>10. UniqueInv /\ OwnerInv /\ OrderInv /\ LateInv
  BY <1>3, <1>5, <1>6 DEF UniqueInv, OwnerInv, OrderInv, LateInv, T
<1>11. ConnInv
  BY <1>3, <1>4, <1>5 DEF ConnInv
<1>12. StageInv
  BY <1>3, <1>5, <1>6 DEF StageInv
<1>13. CopyInv /\ TermsInv /\ WireInv /\ HelpInv
  BY <1>3, <1>5, <1>7 DEF CopyInv, TermsInv, WireInv, HelpInv
<1>14. PrefixInv /\ AbleInv
  BY <1>3, <1>6, <1>8 DEF PrefixInv, AbleInv
<1>15. TellInv /\ CommittedInv /\ OnlyInv
  BY <1>5, <1>6, <1>8 DEF TellInv, CommittedInv, OnlyInv
<1>16. KeepInv /\ LogInv /\ FoundInv /\ StopInv /\ AckedInBucket
  BY <1>3, <1>5, <1>9 DEF KeepInv, LogInv, FoundInv, StopInv, AckedInBucket
<1> QED
  BY <1>1, <1>2, <1>10, <1>11, <1>12, <1>13, <1>14, <1>15, <1>16 DEF DInv, WhoInv, WhatInv

LEMMA DStep ==
  ASSUME Sound
  PROVE  DInv /\ [Next]_vars /\ [~ InPlace]_vars => DInv'
<1> SUFFICES ASSUME DInv, [Next]_vars, [~ InPlace]_vars PROVE DInv'
  OBVIOUS
<1>1. IInv'
  BY TypeStep, TermStep, EpochStep, OpeningStep, CountStep, BucketStep, FolStep, OlderStep DEF IInv, DInv
<1>2. RoundInv'
  BY RoundStep DEF DInv
<1>3. Goes
  BY StepGoes DEF DInv
<1>4. Step
  BY <1>1, <1>2, <1>3 DEF Step
<1>5. WhoInv'
  BY <1>4, WhoStep
<1>6. WhatInv'
  BY <1>4, <1>5, WhatStep
<1> QED
  BY <1>1, <1>2, <1>5, <1>6 DEF DInv

-----------------------------------------------------------------------------
(* What it shows                                                           *)

\* With every member's answer in every recovery, claimers that open in time
\* and no restart in place of a leader that takes writes, the invariant holds.
LEMMA DAlways ==
  ASSUME MaxSkips = 0, ~ LateOpen
  PROVE  Spec /\ [][~ InPlace]_vars => []DInv
<1>1. DInv /\ [Next]_vars /\ [~ InPlace]_vars => DInv'
  BY DStep DEF Sound
<1> QED
  BY InitDInv, <1>1, PTL DEF Spec

\* A change acknowledged to its writer is never replaced: whoever leads, once
\* the bucket has a change under its number it is that change
\* (replica::recover, Lake::commits).
THEOREM AckedStays ==
  ASSUME MaxSkips = 0, ~ LateOpen
  PROVE  Spec /\ [][~ InPlace]_vars => []AckedInBucket
<1>1. DInv => AckedInBucket
  BY DEF DInv, WhatInv
<1> QED
  BY DAlways, <1>1, PTL

\* A change acknowledged ahead of the bucket is held by a member the bucket
\* lists, so that a recovery that gets every member's answer finds it
\* (replica.rs).
THEOREM AckedKept ==
  ASSUME MaxSkips = 0, ~ LateOpen
  PROVE  Spec /\ [][~ InPlace]_vars => []AckedIsKept
<1>1. DInv => AckedIsKept
  <2> SUFFICES ASSUME DInv, NEW a \in acked, a.id > Len(bucket)
               PROVE  Cardinality(Keepers(a)) > MaxSkips
    BY DEF AckedIsKept
  <2>0. Types
    BY TypesHold DEF DInv
  <2>1. a \in Placed /\ Chosen(a)
    BY <2>0 DEF Types, Chosen, Beyond
  <2>2. PICK f \in Listed(bucket) : Has(f, a)
    BY <2>1 DEF DInv, WhatInv, KeepInv
  <2>3. f \in Keepers(a)
    BY <2>2 DEF Has, Of, Keepers, Holds
  <2>4. Listed(bucket) \in SUBSET Nodes
    BY <2>0, ListedType DEF Types
  <2>5. Keepers(a) \subseteq Nodes
    BY <2>4 DEF Keepers
  <2>6. IsFiniteSet(Keepers(a))
    BY <2>5, NodesAssumption, FS_Subset
  <2>7. Cardinality(Keepers(a)) # 0 /\ Cardinality(Keepers(a)) \in Nat
    BY <2>3, <2>6, FS_EmptySet, FS_CardinalityType
  <2> QED
    BY <2>7
<1> QED
  BY DAlways, <1>1, PTL

\* A leader that takes writes, and that the bucket doesn't refuse, has every
\* change any leader acknowledged: what it writes next follows them all
\* (replica::recover, ReplicaLog::serve, Catalog::ack).
THEOREM LeaderHas ==
  ASSUME MaxSkips = 0, ~ LateOpen
  PROVE  Spec /\ [][~ InPlace]_vars => []LeaderHasAcked
<1>1. DInv => LeaderHasAcked
  <2> SUFFICES ASSUME DInv, NEW n \in Nodes, Leads(n), Unfenced(n), NEW a \in acked
               PROVE  a.id <= Len(lead[n].log) /\ lead[n].log[a.id] = a.change
    BY DEF LeaderHasAcked
  <2>0. Types /\ Numbers /\ BucketInv /\ EpochInv /\ LogInv /\ AckedInBucket
    BY TypesHold DEF DInv, IInv, WhatInv
  <2>1. a \in Placed /\ a.id \in Nat /\ a.id > 0 /\ Len(bucket) \in Nat
    BY <2>0, PlacedFields DEF Types
  <2>2. CASE a.id > Len(bucket)
    BY <2>0, <2>1, <2>2 DEF LogInv, Commits, Leads, Chosen, Beyond
  <2>3. CASE a.id <= Len(bucket)
    <3>1. proc[n].epoch > 0
      BY <2>0 DEF EpochInv, InCharge, Leads
    <3>2. Len(bucket) = lead[n].flushed /\ bucket[a.id] = lead[n].log[a.id]
      BY <2>0, <2>1, <2>3, <3>1 DEF BucketInv
    <3>3. lead[n].flushed <= Len(lead[n].log) /\ Len(lead[n].log) \in Nat
      BY <2>0 DEF Numbers
    <3>4. bucket[a.id] = a.change
      BY <2>0, <2>3 DEF AckedInBucket
    <3> QED
      BY <2>1, <2>3, <3>2, <3>3, <3>4
  <2> QED
    BY <2>1, <2>2, <2>3
<1> QED
  BY DAlways, <1>1, PTL

\* A copy that counts towards committing a change is a copy of that change, on
\* disk, however late its acknowledgement arrived (Catalog::holders,
\* ReplicaLog::hold).
THEOREM CountedHeld ==
  ASSUME MaxSkips = 0, ~ LateOpen
  PROVE  Spec /\ [][~ InPlace]_vars => []CountedIsHeld
<1>1. DInv => CountedIsHeld
  <2> SUFFICES ASSUME DInv, NEW n \in Nodes, Commits(n), Unfenced(n), lead[n].sent > lead[n].committed,
                      ~ InBucket(lead[n].sent, lead[n].log[lead[n].sent]),
                      NEW f \in Holders(n, lead[n].sent)
               PROVE  \E h \in held[f] : h.id = lead[n].sent /\ h.change = lead[n].log[lead[n].sent]
    BY DEF CountedIsHeld
  <2>0. Types /\ Numbers /\ BucketInv /\ EpochInv /\ TellInv /\ TermsInv /\ StageInv /\ TypeOK /\ CountersOK
    BY TypesHold, CountersHold DEF DInv, IInv, WhatInv, WhoInv
  <2>1. PICK i \in Nat : i = lead[n].sent
    BY <2>0 DEF Numbers
  <2>2. i > 0 /\ Len(bucket) \in Nat
    BY <2>0, <2>1 DEF Numbers, Types
  <2>3. f \in lead[n].counting /\ lead[n].acks[f][1] <= i /\ i <= lead[n].acks[f][2] /\ f \in Nodes
    BY <2>0, <2>1 DEF Holders, Types
  <2>4. lead[n].acks[f] \in Nat \X Nat
    BY <2>0, <2>3, LeadFields DEF TypeOK
  <2>5. PICK j \in Nat : j = lead[n].acks[f][2]
    BY <2>4
  <2>6. Leads(n)
    <3> SUFFICES ASSUME ~ Leads(n) PROVE FALSE
      OBVIOUS
    <3>1. lead[n].acks = [g \in Nodes |-> None]
      BY <2>0, NoLeadFields DEF StageInv
    <3>2. lead[n].acks[f][2] = 0
      BY <2>3, <3>1 DEF None
    <3> QED
      BY <2>2, <2>3, <3>2
  <2>7. Told(n, f, j) /\ j > 0
    BY <2>2, <2>3, <2>5 DEF Told
  <2>8. j = i
    BY <2>0, <2>1, <2>3, <2>5, <2>6, <2>7 DEF TellInv
  <2>9. Beyond(i)
    <3> SUFFICES ASSUME i <= Len(bucket) PROVE FALSE
      BY <2>2 DEF Beyond
    <3>1. proc[n].epoch > 0
      BY <2>0, <2>6 DEF EpochInv, InCharge, Leads
    <3>2. bucket[i] = lead[n].log[i]
      BY <2>0, <2>2, <3>1 DEF BucketInv
    <3> QED
      BY <2>1, <3>2 DEF InBucket
  <2>10. PICK c \in held[f] : c.id = i /\ c.term = T(n)
    BY <2>0, <2>3, <2>6, <2>7, <2>8, <2>9 DEF TellInv
  <2>11. c \in Copy /\ IsCopy(c)
    BY <2>0, <2>3, <2>10 DEF Types, IsCopy
  <2>12. c.change = lead[n].log[c.id]
    BY <2>0, <2>6, <2>10, <2>11 DEF TermsInv
  <2> QED
    BY <2>1, <2>10, <2>12
<1> QED
  BY DAlways, <1>1, PTL

\* A new leader that had every member's answer recovers every acknowledged
\* change that isn't in the bucket (replica::recover).
THEOREM RecoverFinds ==
  ASSUME MaxSkips = 0, ~ LateOpen
  PROVE  Spec /\ [][~ InPlace]_vars => []RecoverFindsAcked
<1>1. DInv => RecoverFindsAcked
  <2> SUFFICES ASSUME DInv, NEW n \in Nodes, proc[n].role = "recovering", Unfenced(n), lead[n].todo = {},
                      NEW a \in acked, a.id > lead[n].opened
               PROVE  \E c \in lead[n].found : c.id = a.id /\ c.change = a.change
    BY DEF RecoverFindsAcked
  <2>0. Types /\ BucketInv /\ EpochInv /\ StageInv /\ FoundInv
    BY TypesHold DEF DInv, IInv, WhatInv, WhoInv
  <2>1. lead[n].opened = Len(bucket)
    BY <2>0 DEF EpochInv, InCharge, BucketInv, StageInv
  <2>2. a \in Placed /\ Chosen(a)
    BY <2>0, <2>1 DEF Types, Chosen, Beyond
  <2>3. PICK c \in lead[n].found : Of(c, a)
    BY <2>0, <2>2 DEF FoundInv
  <2> QED
    BY <2>3 DEF Of
<1> QED
  BY DAlways, <1>1, PTL

-----------------------------------------------------------------------------
(* The commit path implements one log that only grows at its end           *)

\* How far the log goes.
Decisions == {Len(bucket)} \cup {a.id : a \in acked}
LEMMA LastFacts ==
  ASSUME DInv
  PROVE  /\ MaxOf(Decisions) \in Nat /\ Len(bucket) \in Nat
         /\ \A i \in Decisions : i \in Nat /\ i <= MaxOf(Decisions)
         /\ MaxOf(Decisions) \in Decisions
<1>0. Types /\ BucketInv
  BY TypesHold DEF DInv, IInv
<1>1. Decisions \in SUBSET (0 .. MaxId)
  <2>1. Len(bucket) \in 0 .. MaxId
    BY <1>0, BoundsAssumption DEF Types, BucketInv
  <2>2. \A a \in acked : a.id \in 0 .. MaxId
    BY <1>0, PlacedFields, BoundsAssumption DEF Types
  <2> QED
    BY <2>1, <2>2 DEF Decisions
<1>2. Len(bucket) \in Decisions
  BY DEF Decisions
<1>3. MaxOf(Decisions) \in Decisions /\ \A i \in Decisions : i <= MaxOf(Decisions)
  BY <1>1, <1>2, MaxOfBounded, BoundsAssumption
<1>4. \A i \in Decisions : i \in Nat
  BY <1>1, BoundsAssumption
<1>5. MaxOf(Decisions) \in Nat /\ Len(bucket) \in Nat
  BY <1>2, <1>3, <1>4
<1> QED
  BY <1>3, <1>4, <1>5

\* What the log has beyond the bucket was acknowledged.
LEMMA DecidedFacts ==
  ASSUME DInv
  PROVE  /\ Decided \in Seq(Change) /\ Len(Decided) = MaxOf(Decisions)
         /\ \A i \in 1 .. Len(bucket) : Decided[i] = bucket[i]
         /\ \A i \in (Len(bucket) + 1) .. MaxOf(Decisions) : \E a \in acked : a.id = i
         /\ \A a \in acked : a.id > Len(bucket) => Decided[a.id] = a.change
<1> DEFINE last == MaxOf(Decisions)
           At(i) == IF i <= Len(bucket) THEN bucket[i] ELSE (CHOOSE a \in acked : a.id = i).change
<1>0. Types /\ last \in Nat /\ Len(bucket) \in Nat /\ last \in Decisions
      /\ \A i \in Decisions : i \in Nat /\ i <= last
  BY TypesHold, LastFacts DEF DInv
<1>1. Decided = [i \in 1 .. last |-> At(i)]
  BY DEF Decided, Decisions
<1>2. Len(bucket) <= last
  BY <1>0 DEF Decisions
<1>3. ASSUME NEW a \in acked, a.id > Len(bucket) PROVE a \in Placed /\ Chosen(a) /\ a.id \in 1 .. last
  <2>1. a \in Placed /\ a.id \in Nat /\ a.id > 0 /\ a.id \in Decisions
    BY <1>0, PlacedFields DEF Types, Decisions
  <2> HIDE DEF last
  <2> QED
    BY <1>0, <1>3, <2>1 DEF Chosen, Beyond
<1>4. ASSUME NEW i \in (Len(bucket) + 1) .. last PROVE \E a \in acked : a.id = i
  <2>1. last > Len(bucket)
    BY <1>0
  <2>2. PICK a \in acked : a.id = last
    BY <1>0, <2>1 DEF Decisions
  <2>3. CASE i = last
    BY <2>2, <2>3
  <2>4. CASE i # last
    <3>1. a \in Placed /\ Chosen(a)
      BY <1>3, <2>1, <2>2
    <3>2. i \in (Len(bucket) + 1) .. (a.id - 1)
      <4> HIDE DEF last
      <4> QED
        BY <1>0, <2>2, <2>4
    <3> QED
      BY <3>1, <3>2, NextIsAcked
  <2> QED
    BY <2>3, <2>4
<1>5. ASSUME NEW a \in acked, a.id > Len(bucket) PROVE (CHOOSE e \in acked : e.id = a.id) = a
  <2>1. ASSUME NEW e \in acked, e.id = a.id PROVE e = a
    BY <1>3, <1>5, <2>1, ChosenOnce
  <2> QED
    BY <2>1
<1>6. ASSUME NEW a \in acked, a.id > Len(bucket) PROVE At(a.id) = a.change
  <2>1. a.id \in Nat /\ ~ (a.id <= Len(bucket))
    BY <1>0, <1>3, <1>6, PlacedFields
  <2> QED
    BY <1>5, <1>6, <2>1
<1>7. ASSUME NEW i \in 1 .. last PROVE At(i) \in Change
  <2>1. CASE i <= Len(bucket)
    BY <1>0, <1>7, <2>1 DEF Types
  <2>2. CASE ~ (i <= Len(bucket))
    <3> HIDE DEF last
    <3>1. i \in (Len(bucket) + 1) .. last
      BY <1>0, <1>7, <2>2
    <3>2. PICK a \in acked : a.id = i
      BY <1>4, <3>1
    <3>3. a.id > Len(bucket)
      BY <1>0, <3>1, <3>2
    <3>4. At(i) = a.change
      BY <1>6, <3>2, <3>3
    <3> QED
      BY <1>0, <3>2, <3>4, PlacedFields DEF Types
  <2> QED
    BY <2>1, <2>2
<1>8. \A i \in 1 .. Len(bucket) : At(i) = bucket[i]
  BY <1>0
<1> HIDE DEF last, At
<1>9. Decided \in Seq(Change) /\ Len(Decided) = last
  BY <1>0, <1>1, <1>7
<1>10. \A i \in 1 .. last : Decided[i] = At(i)
  BY <1>1
<1>11. \A a \in acked : a.id > Len(bucket) => Decided[a.id] = a.change
  BY <1>3, <1>6, <1>10
<1>12. \A i \in 1 .. Len(bucket) : Decided[i] = bucket[i]
  BY <1>0, <1>2, <1>8, <1>10
<1> QED
  BY <1>4, <1>9, <1>11, <1>12 DEF last

LEMMA DecidedNext == DInv' =>
         /\ Decided' \in Seq(Change) /\ Len(Decided') = MaxOf(Decisions')
         /\ \A i \in 1 .. Len(bucket') : Decided'[i] = bucket'[i]
         /\ \A i \in (Len(bucket') + 1) .. MaxOf(Decisions') : \E a \in acked' : a.id = i
         /\ \A a \in acked' : a.id > Len(bucket') => Decided'[a.id] = a.change
         /\ MaxOf(Decisions') \in Nat /\ Len(bucket') \in Nat
         /\ \A i \in Decisions' : i \in Nat /\ i <= MaxOf(Decisions')
         /\ MaxOf(Decisions') \in Decisions'
<1> DEFINE Facts == /\ Decided \in Seq(Change) /\ Len(Decided) = MaxOf(Decisions)
                    /\ \A i \in 1 .. Len(bucket) : Decided[i] = bucket[i]
                    /\ \A i \in (Len(bucket) + 1) .. MaxOf(Decisions) : \E a \in acked : a.id = i
                    /\ \A a \in acked : a.id > Len(bucket) => Decided[a.id] = a.change
                    /\ MaxOf(Decisions) \in Nat /\ Len(bucket) \in Nat
                    /\ \A i \in Decisions : i \in Nat /\ i <= MaxOf(Decisions)
                    /\ MaxOf(Decisions) \in Decisions
<1>1. DInv => Facts
  BY DecidedFacts, LastFacts
<1>2. DInv' => Facts'
  BY <1>1, PTL
<1>3. MaxOf(Decisions)' = MaxOf(Decisions')
  BY DEF MaxOf
<1> QED
  BY <1>2, <1>3

\* A step decides nothing, or one more change, after all the others.
LEMMA DecidesStep ==
  ASSUME Step, DInv'
  PROVE  [Promise!Next]_Decided
<1> DEFINE d == Decided
           e == Decided'
           last == MaxOf(Decisions)
           next == MaxOf(Decisions')
<1>0. /\ d \in Seq(Change) /\ Len(d) = last /\ last \in Nat /\ Len(bucket) \in Nat
      /\ e \in Seq(Change) /\ Len(e) = next /\ next \in Nat /\ Len(bucket') \in Nat
      /\ next \in Decisions' /\ \A i \in Decisions' : i \in Nat /\ i <= next
      /\ last \in Decisions /\ \A i \in Decisions : i \in Nat /\ i <= last
  BY DecidedFacts, LastFacts, DecidedNext DEF Step
<1>1. /\ \A i \in 1 .. Len(bucket) : d[i] = bucket[i] /\ bucket'[i] = bucket[i]
      /\ \A i \in (Len(bucket) + 1) .. last : \E a \in acked : a.id = i
      /\ \A a \in acked : a.id > Len(bucket) => d[a.id] = a.change
      /\ Len(bucket) <= Len(bucket') /\ acked \subseteq acked'
  BY DecidedFacts, StoreSteps DEF Step
<1>2. /\ \A i \in 1 .. Len(bucket') : e[i] = bucket'[i]
      /\ \A a \in acked' : a.id > Len(bucket') => e[a.id] = a.change
      /\ AckedInBucket'
  BY DecidedNext DEF DInv, WhatInv
<1> HIDE DEF d, e
<1>3. last <= next
  <2>1. last = Len(bucket) \/ \E a \in acked : a.id = last
    BY <1>0 DEF Decisions
  <2>2. last \in Decisions' \/ last <= Len(bucket')
    BY <1>1, <2>1 DEF Decisions
  <2>3. Len(bucket') \in Decisions'
    BY DEF Decisions
  <2> HIDE DEF last, next
  <2> QED
    BY <1>0, <2>2, <2>3
<1>4. next <= last + 1
  <2>1. Len(bucket') <= Len(bucket) + 1 /\ Len(bucket) <= last
    <3>1. Len(bucket) \in Decisions
      BY DEF Decisions
    <3>2. Len(bucket') <= Len(bucket) + 1
      <4>1. bucket \in Seq(Change)
        BY TypesHold DEF Step, DInv, Types
      <4> QED
        BY <1>0, <4>1, BucketSteps DEF Flushed
    <3> QED
      BY <1>0, <3>1, <3>2
  <2>2. ASSUME NEW a \in acked' PROVE a.id <= last + 1
    <3>1. CASE a \in acked
      <4>1. a.id \in Decisions
        BY <3>1 DEF Decisions
      <4> HIDE DEF last
      <4>2. a.id \in Nat /\ a.id <= last /\ last \in Nat
        BY <1>0, <4>1
      <4> QED
        BY <4>2
    <3>2. CASE a \notin acked
      <4> SUFFICES ASSUME a.id > last + 1 PROVE FALSE
        <5>1. a \in Placed /\ a.id \in Nat
          BY TypesNext, PlacedFields DEF Step, Types
        <5> HIDE DEF last
        <5> QED
          BY <1>0, <5>1
      <4>1. PICK l \in Nodes : Confirmed(l)
        BY <3>2, AckedSteps
      <4>2. a = NextOf(l) /\ bucket' = bucket
        BY <3>2, <4>1 DEF Confirmed, LoopSame, NextOf
      <4>3. a \in Placed /\ a.id \in Nat /\ a.id > Len(bucket)
        <5>1. a \in Placed /\ a.id \in Nat
          BY TypesNext, PlacedFields DEF Step, Types
        <5> HIDE DEF last
        <5> QED
          BY <1>0, <2>1, <5>1
      <4>4. lead[l].sent = a.id /\ lead[l].flushed <= Len(bucket) /\ lead[l].flushed \in Nat
        BY <4>2, TypesHold DEF NextOf, Step, DInv, WhoInv, PrefixInv, Numbers
      <4>5. Backed(l)
        <5>1. ~ (lead[l].flushed >= lead[l].sent)
          BY <1>0, <4>3, <4>4
        <5> QED
          BY <4>1, <5>1, ConfirmedBy
      <4>6. Chosen(a)
        BY <4>2, <4>3, <4>5 DEF Chosen, Beyond
      <4>7. last + 1 \in (Len(bucket) + 1) .. (a.id - 1)
        <5> HIDE DEF last
        <5> QED
          BY <1>0, <2>1, <4>3
      <4>8. PICK q \in acked : q.id = last + 1
        BY <4>3, <4>6, <4>7, NextIsAcked DEF Step
      <4>9. q.id \in Decisions
        BY DEF Decisions
      <4> HIDE DEF last
      <4> QED
        BY <1>0, <4>8, <4>9
    <3> QED
      BY <3>1, <3>2
  <2>3. next = Len(bucket') \/ \E a \in acked' : a.id = next
    BY <1>0 DEF Decisions
  <2> HIDE DEF last, next
  <2> QED
    BY <1>0, <2>1, <2>2, <2>3
<1>5. ASSUME NEW i \in 1 .. last PROVE e[i] = d[i]
  <2>1. CASE i <= Len(bucket)
    <3>1. i \in 1 .. Len(bucket) /\ i \in 1 .. Len(bucket')
      BY <1>0, <1>1, <2>1
    <3> QED
      BY <1>1, <1>2, <3>1
  <2>2. CASE ~ (i <= Len(bucket))
    <3> HIDE DEF last
    <3>1. i \in (Len(bucket) + 1) .. last
      BY <1>0, <2>2
    <3>2. PICK a \in acked : a.id = i
      BY <1>1, <3>1 DEF last
    <3>3. d[i] = a.change /\ a \in acked'
      BY <1>0, <1>1, <3>1, <3>2
    <3>4. CASE i > Len(bucket')
      BY <1>2, <3>2, <3>3, <3>4
    <3>5. CASE i <= Len(bucket')
      <4>1. bucket'[i] = a.change
        BY <3>2, <3>3, <3>5, <1>2 DEF AckedInBucket
      <4>2. i \in 1 .. Len(bucket')
        BY <1>0, <3>5
      <4> QED
        BY <1>2, <3>3, <4>1, <4>2
    <3>6. i > Len(bucket') \/ i <= Len(bucket')
      BY <1>0
    <3> QED
      BY <3>4, <3>5, <3>6
  <2> QED
    BY <2>1, <2>2
<1> HIDE DEF last, next
<1>6. next = last \/ next = last + 1
  BY <1>0, <1>3, <1>4
<1>7. CASE next = last
  <2>1. e = d
    BY <1>0, <1>5, <1>7
  <2> QED
    BY <2>1 DEF d, e
<1>8. CASE next = last + 1
  <2> DEFINE c == e[next]
  <2>1. c \in Change
    BY <1>0, <1>8
  <2>2. e = Append(d, c)
    BY <1>0, <1>5, <1>8
  <2>3. Decided' = Append(Decided, c)
    BY <2>2 DEF d, e
  <2> QED
    BY <2>1, <2>3 DEF Promise!Next, Promise!Decide
<1> QED
  BY <1>6, <1>7, <1>8

\* The commit path implements one log of changes: what was acknowledged, or is
\* in the bucket, keeps its place whoever leads, and nothing slips in before
\* it (Lake::commits, replica::recover).
THEOREM Implements ==
  ASSUME MaxSkips = 0, ~ LateOpen
  PROVE  Spec /\ [][~ InPlace]_vars => ImplementsDurableLog
<1>1. Init => Promise!Init
  <2> SUFFICES ASSUME Init PROVE Decided = <<>>
    BY DEF Promise!Init
  <2>1. Len(bucket) = 0 /\ acked = {}
    BY DEF Init
  <2>2. MaxOf(Decisions) = 0
    <3>1. Decisions = {0}
      BY <2>1 DEF Decisions
    <3> QED
      BY <3>1 DEF MaxOf
  <2>3. Decided \in Seq(Change) /\ Len(Decided) = 0
    BY <2>2, InitDInv, DecidedFacts
  <2> QED
    BY <2>3
<1>2. DInv /\ DInv' /\ [Next]_vars /\ [~ InPlace]_vars => [Promise!Next]_Decided
  <2> SUFFICES ASSUME DInv, DInv', [Next]_vars, [~ InPlace]_vars PROVE [Promise!Next]_Decided
    OBVIOUS
  <2>1. Goes
    BY StepGoes DEF DInv, Sound
  <2>2. Step
    BY <2>1 DEF Step, DInv, Sound
  <2> QED
    BY <2>2, DecidesStep
<1> QED
  BY DAlways, <1>1, <1>2, PTL DEF Spec, ImplementsDurableLog, Promise!Spec

=============================================================================
