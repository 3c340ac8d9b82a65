----------------------------- MODULE Ingest_proofs -----------------------------
(***************************************************************************)
(* What holds of ingest for any producers, any number of flushes and of     *)
(* commits in flight, and any bounds.  Where the nodes have no batch and    *)
(* its retry in one flush (Twins): a batch is committed at most once, what  *)
(* was acknowledged is there, a producer that pipelines leaves no gaps, and *)
(* a view has of its source's rows what it should.  They follow from one    *)
(* fact: a catalog has, of each producer, exactly the batches up to its     *)
(* mark, once each (RowsInv); for the view, that each catalog goes on from  *)
(* the one before it (LineInv), whatever the sequencer knows (SeenInv).     *)
(* With flushes of one kind, rows are in order (OrderInv).  And a table     *)
(* whose entry moves leaves no row behind, whatever the nodes have: what    *)
(* the sequencer takes for it from its hold to its entry's end adds none    *)
(* (MoveInv).                                                               *)
(***************************************************************************)
EXTENDS Ingest, WellFoundedInduction, SequenceTheorems, TLAPS

-----------------------------------------------------------------------------
(* The inductive invariant                                                 *)

\* The seq a producer will be at, once this commit is built.
Pending(p) == IF seqr.seqs[p] > 0 THEN seqr.seqs[p] ELSE Newest.mark[p]

Upto(b, mark) == b[2] <= mark[b[1]]
Exact(c)      == \A b \in Batches : c.rows[b] = IF Upto(b, c.mark) THEN 1 ELSE 0

\* Commit numbers start at one.
NumberInv == seqr.n >= 1 /\ cat.n >= 1 /\ \A i \in DOMAIN flying : flying[i].to.n >= 1

\* A flush that waits for the sequencer or for a commit's answer is in one place.
Queue == {seqr.queue[i] : i \in DOMAIN seqr.queue}
Todo  == {seqr.todo[i] : i \in DOMAIN seqr.todo}

PlaceInv ==
    /\ Queue \cap (Todo \cup seqr.of) = {}
    /\ \A i \in DOMAIN flying : flying[i].of \cap (Queue \cup Todo \cup seqr.of) = {}
    /\ \A i, j \in DOMAIN flying : i # j => flying[i].of \cap flying[j].of = {}
    /\ \A f \in Queue \cup Todo \cup seqr.of : flight[f].step = "queued"
    /\ \A i \in DOMAIN flying : \A f \in flying[i].of : flight[f].step = "queued"

\* Marks never go back along the writes; the sequencer remembers those of the last one, unless
\* no write on its way moved them.
MarkInv ==
    \A p \in Producers :
        /\ \A i \in DOMAIN flying : cat.mark[p] <= flying[i].to.mark[p]
        /\ \A i, j \in DOMAIN flying : i <= j => flying[i].to.mark[p] <= flying[j].to.mark[p]
        /\ seqr.last[p] > 0 => seqr.last[p] = Newest.mark[p]
        /\ seqr.last[p] = 0 => cat.mark[p] = Newest.mark[p]
        /\ seqr.seqs[p] > 0 => Newest.mark[p] <= seqr.seqs[p]

\* Every catalog has exactly the batches up to its marks, and the commit being built adds those
\* from the newest one's marks on.
RowsInv ==
    /\ Exact(cat)
    /\ \A i \in DOMAIN flying : Exact(flying[i].to)
    /\ \A b \in Batches : seqr.rows[b] = IF Newest.mark[b[1]] < b[2] /\ b[2] <= Pending(b[1]) THEN 1 ELSE 0

\* What is answered as committed is, once the answer's commit is.
AckInv ==
    /\ \A b \in cl.acked : Upto(b, cat.mark)
    /\ \A f \in Flights : flight[f].step = "answered" => \A b \in flight[f].ok : Upto(b, cat.mark)
    /\ \A i \in DOMAIN flying : \A f \in flying[i].of : \A b \in flight[f].ok : Upto(b, flying[i].to.mark)
    /\ \A f \in seqr.of : \A b \in flight[f].ok : b[2] <= Pending(b[1])
    /\ \A f \in Flights : flight[f].kind \notin Kinds => flight[f].ok = {}

\* A producer that doesn't pipeline sent nothing after a batch that isn't acknowledged.
SentInv ==
    /\ \A f \in Flights : \A b \in flight[f].parts \cup flight[f].again : b[2] <= cl.sent[b[1]]
    /\ \A f \in Flights : flight[f].twice = {}
    /\ \A b \in Batches : (b[1] \notin Chained /\ b[2] < cl.sent[b[1]]) => b \in cl.acked


\* What a takeover keeps.
Kept(k) == IF k = 0 THEN cat ELSE flying[k].to

\* The steps that write nothing, and add no rows to what is being written.
Quietly ==
    \/ \E p \in Producers : Produce(p)
    \/ \E f \in Flights : Pack(f) \/ Arrive(f) \/ Lose(f) \/ Hear(f) \/ AskForEnd(f) \/ FillView(f) \/ Hold(f)
    \/ \E f \in Flights : Sequence(f) /\ (SequenceBack(f) \/ SequenceRedone(f) \/ SequenceNumber(f) \/ SequenceFill(f))
    \/ ReadViews \/ Open \/ ForgetViews \/ ToFiles \/ Release \/ UNCHANGED vars

IInv == TypeOK /\ NumberInv /\ PlaceInv /\ MarkInv /\ RowsInv /\ AckInv /\ SentInv

-----------------------------------------------------------------------------
(* Helpers                                                                 *)

\* A non-empty set of seqs has a largest one.
LEMMA LargestSeq ==
  ASSUME NEW S \in SUBSET (1 .. MaxSeq), S # {}
  PROVE  \E x \in S : \A y \in S : y <= x
<1> USE BoundsAssumption
<1> DEFINE T == {MaxSeq - x : x \in S}
<1>1. T \in SUBSET Nat
  OBVIOUS
<1>2. T # {}
  OBVIOUS
<1> HIDE DEF T
<1>3. PICK d \in T : \A y \in T : ~ (<<y, d>> \in OpToRel(<, Nat))
  BY <1>1, <1>2, NatLessThanWellFounded, WFMin
<1>4. \A y \in T : ~ (y < d)
  <2> TAKE y \in T
  <2>1. y \in Nat /\ d \in Nat
    BY <1>1
  <2> QED
    BY <1>3, <2>1 DEF OpToRel
<1>5. PICK x \in S : d = MaxSeq - x
  BY DEF T
<1>6. \A y \in S : ~ (MaxSeq - y < MaxSeq - x)
  BY <1>4, <1>5 DEF T
<1> QED
  BY <1>5, <1>6

\* A producer's latest batch of some.
LEMMA LatestIs ==
  ASSUME NEW parts \in SUBSET Batches, NEW p, \E b \in parts : b[1] = p
  PROVE  /\ Latest(parts, p) \in 1 .. MaxSeq
         /\ <<p, Latest(parts, p)>> \in parts
         /\ \A b \in parts : b[1] = p => b[2] <= Latest(parts, p)
<1> DEFINE S == {s \in 1 .. MaxSeq : <<p, s>> \in parts}
<1>1. \A b \in parts : b = <<b[1], b[2]>> /\ b[2] \in 1 .. MaxSeq
  BY DEF Batches
<1>2. S # {}
  BY <1>1
<1>3. PICK x \in S : \A y \in S : y <= x
  BY <1>2, LargestSeq
<1>4. x \in {b[2] : b \in parts} /\ <<p, x>> \in parts
  OBVIOUS
<1>5. \A b \in parts : b[1] = p => b[2] <= x
  BY <1>1, <1>3
<1>6. /\ Latest(parts, p) \in {b[2] : b \in parts}
      /\ <<p, Latest(parts, p)>> \in parts
      /\ \A b \in parts : b[1] = p => b[2] <= Latest(parts, p)
  BY <1>4, <1>5 DEF Latest
<1> QED
  BY <1>1, <1>6

\* A new sequencer and an unused flush are what they should be.
LEMMA StartedType ==
  ASSUME NEW c \in Catalog
  PROVE  Started(c) \in Sequencer
<1>1. c.n \in Nat
  BY DEF Catalog
<1>2. <<>> \in Seq(Flights) /\ NoSeqs \in [Marked -> 0 .. MaxSeq] /\ None \in Tally
  BY BoundsAssumption DEF NoSeqs, None, Tally
<1> QED
  BY <1>1, <1>2 DEF Started, NewSequencer, Sequencer

LEMMA NoFlushType == NoFlush \in Flush
BY DEF NoFlush, Flush

\* The newest catalog is one.
LEMMA NewestType ==
  ASSUME TypeOK
  PROVE  Newest \in Catalog
<1>1. CASE flying = <<>>
  BY <1>1 DEF Newest, TypeOK
<1>2. CASE flying # <<>>
  <2>1. Len(flying) \in DOMAIN flying /\ flying \in Seq(Write)
    BY <1>2 DEF TypeOK
  <2>2. flying[Len(flying)] \in Write
    BY <2>1
  <2> QED
    BY <1>2, <2>2 DEF Newest, Write
<1> QED
  BY <1>1, <1>2

-----------------------------------------------------------------------------
(* Types                                                                   *)

\* What the program starts with has its types.
LEMMA InitType == Init => TypeOK
<1> SUFFICES ASSUME Init
             PROVE  TypeOK
  OBVIOUS
<1>1. Empty \in Catalog
  <2>1. NoSeqs \in [Marked -> 0 .. MaxSeq] /\ None \in Tally
    BY BoundsAssumption DEF NoSeqs, None, Tally
  <2> QED
    BY <2>1 DEF Empty, Catalog
<1> QED
  BY <1>1, StartedType, NoFlushType, BoundsAssumption DEF Init, TypeOK

\* A flush's next state, and a flush queued.
LEMMA NextFlush ==
  ASSUME TypeOK, NEW f, NEW g \in Flush
  PROVE  [flight EXCEPT ![f] = g] \in [Flights -> Flush]
BY DEF TypeOK

LEMMA Queued ==
  ASSUME TypeOK, NEW f \in Flights
  PROVE  [seqr EXCEPT !.queue = Append(@, f)] \in Sequencer
<1>1. seqr.queue \in Seq(Flights)
  BY DEF TypeOK, Sequencer
<1>2. Append(seqr.queue, f) \in Seq(Flights)
  BY <1>1
<1> QED
  BY <1>2 DEF TypeOK, Sequencer

\* Producers' and nodes' steps.
LEMMA ClientType ==
  ASSUME TypeOK,
         \/ \E p \in Producers : Produce(p)
         \/ \E f \in Flights : Pack(f) \/ Arrive(f) \/ Lose(f) \/ Hear(f)
  PROVE  TypeOK'
<1> USE NoFlushType
<1>1. ASSUME NEW p \in Producers, Produce(p)
      PROVE  TypeOK'
  <2>1. cl.sent[p] \in 0 .. MaxSeq /\ cl.sent[p] < MaxSeq
    BY <1>1 DEF Produce, TypeOK
  <2>2. cl.sent[p] + 1 \in 0 .. MaxSeq
    BY <2>1, BoundsAssumption
  <2>3. cl' \in [sent : [Producers -> 0 .. MaxSeq], acked : SUBSET Batches]
    BY <1>1, <2>2 DEF Produce, TypeOK
  <2> QED
    BY <1>1, <2>3 DEF Produce, TypeOK
<1>2. ASSUME NEW f \in Flights, Pack(f)
      PROVE  TypeOK'
  <2>1. PICK parts \in (SUBSET Unacked) \ {{}}, kind \in Kinds, derived \in Derives :
          \E twice \in SUBSET parts : flight' = [flight EXCEPT ![f] = [NoFlush EXCEPT
                !.step = "sent", !.kind = kind, !.parts = parts, !.twice = twice, !.derived = derived]]
    BY <1>2 DEF Pack
  <2> PICK twice \in SUBSET parts : flight' = [flight EXCEPT ![f] = [NoFlush EXCEPT
                !.step = "sent", !.kind = kind, !.parts = parts, !.twice = twice, !.derived = derived]]
    BY <2>1
  <2>2. parts \in SUBSET Batches /\ derived \in BOOLEAN /\ twice \in SUBSET Batches
    BY DEF Unacked, Derives
  <2>3. kind \in {"inline", "object", "number", "hold", "fill"}
    BY KindsAssumption
  <2>4. [NoFlush EXCEPT !.step = "sent", !.kind = kind, !.parts = parts, !.twice = twice, !.derived = derived] \in Flush
    BY <2>2, <2>3 DEF Flush
  <2> QED
    BY <1>2, <2>1, <2>4 DEF Pack, TypeOK
<1>3. ASSUME NEW f \in Flights, Arrive(f)
      PROVE  TypeOK'
  <2>1. [flight[f] EXCEPT !.step = "queued"] \in Flush
    BY ZenonT(60) DEF TypeOK, Flush
  <2>2. [seqr EXCEPT !.queue = Append(@, f)] \in Sequencer
    BY Queued
  <2>3. flight' \in [Flights -> Flush]
    BY <1>3, <2>1 DEF Arrive, TypeOK
  <2> QED
    BY <1>3, <2>2, <2>3 DEF Arrive, TypeOK
<1>4. ASSUME NEW f \in Flights, Lose(f)
      PROVE  TypeOK'
  BY <1>4 DEF Lose, TypeOK
<1>5. ASSUME NEW f \in Flights, Hear(f)
      PROVE  TypeOK'
  <2>1. flight[f] \in Flush
    BY DEF TypeOK
  <2>2. cl' \in [sent : [Producers -> 0 .. MaxSeq], acked : SUBSET Batches]
    BY <1>5, <2>1 DEF Hear, TypeOK, Flush
  <2>3. \A derived \in Derives : [NoFlush EXCEPT !.step = "sent", !.kind = flight[f].kind,
            !.parts = flight[f].again, !.derived = derived] \in Flush
    BY <2>1 DEF Flush, Derives
  <2>4. flight' \in [Flights -> Flush]
    <3>1. \/ flight' = [flight EXCEPT ![f] = NoFlush]
          \/ \E derived \in Derives : flight' = [flight EXCEPT ![f] = [NoFlush EXCEPT !.step = "sent",
                !.kind = flight[f].kind, !.parts = flight[f].again, !.derived = derived]]
      BY <1>5 DEF Hear
    <3>2. ASSUME NEW derived \in Derives, flight' = [flight EXCEPT ![f] = [NoFlush EXCEPT !.step = "sent",
                !.kind = flight[f].kind, !.parts = flight[f].again, !.derived = derived]]
          PROVE  flight' \in [Flights -> Flush]
      <4> DEFINE g == [NoFlush EXCEPT !.step = "sent", !.kind = flight[f].kind,
                                      !.parts = flight[f].again, !.derived = derived]
      <4>1. g \in Flush /\ flight' = [flight EXCEPT ![f] = g]
        BY <2>3, <3>2
      <4> HIDE DEF g
      <4> QED
        BY <4>1, NextFlush
    <3> QED
      BY <3>1, <3>2, NextFlush, ZenonT(60)
  <2>5. stmt' \in [view : {"no", "writing", "made"}, move : {"no", "holding", "still", "filed", "moving", "over"},
                 filed : SUBSET Batches]
    BY <1>5 DEF Hear, TypeOK
  <2> QED
    BY <1>5, <2>2, <2>4, <2>5 DEF Hear, TypeOK
<1> QED
  BY <1>1, <1>2, <1>3, <1>4, <1>5

\* A flush the leader's own sequencer has at once.
LEMMA SubmitType ==
  ASSUME TypeOK, NEW f \in Flights, NEW g \in Flush, Submit(f, g)
  PROVE  seqr' \in Sequencer /\ flight' \in [Flights -> Flush]
<1> DEFINE h == [g EXCEPT !.step = "queued"]
<1>1. h \in Flush /\ flight' = [flight EXCEPT ![f] = h] /\ seqr' = [seqr EXCEPT !.queue = Append(@, f)]
  <2>1. h \in Flush
    BY DEF Flush
  <2> QED
    BY <2>1 DEF Submit
<1> HIDE DEF h
<1> QED
  BY <1>1, NextFlush, Queued

\* What the sequencer takes next.
LEMMA HeadOfTodo ==
  ASSUME TypeOK, NEW f, Now, f = Head(seqr.todo)
  PROVE  /\ f \in Flights /\ f = seqr.todo[1] /\ seqr.todo # <<>>
         /\ seqr.todo \in Seq(Flights) /\ Tail(seqr.todo) \in Seq(Flights)
<1>1. seqr.todo \in Seq(Flights) /\ seqr.todo # <<>>
  BY DEF TypeOK, Sequencer, Now
<1> QED
  BY <1>1

\* A tally of what is in another, and some more.
LEMMA AddedType ==
  ASSUME NEW t \in Tally, NEW S
  PROVE  [b \in Batches |-> IF b \in S THEN t[b] + 1 ELSE t[b]] \in Tally
BY DEF Tally

\* An answer.
LEMMA AnsweredType ==
  ASSUME TypeOK, NEW f \in Flights, NEW ok \in SUBSET Batches, NEW again \in SUBSET Batches, Answered(f, ok, again)
  PROVE  /\ flight' \in [Flights -> Flush]
         /\ \A x \in Flights : x # f => flight'[x] = flight[x]
         /\ flight'[f] = [flight[f] EXCEPT !.ok = ok, !.again = again]
<1> DEFINE g == [flight[f] EXCEPT !.ok = ok, !.again = again]
<1>1. flight \in [Flights -> Flush] /\ flight[f] \in Flush
  BY DEF TypeOK
<1>2. g \in Flush
  BY <1>1 DEF Flush
<1>3. /\ flight' = [x \in Flights |-> flight'[x]]
      /\ \A x \in Flights : x # f => flight'[x] = flight[x]
      /\ flight'[f] = g
  BY <1>1 DEF Answered, Flush
<1> HIDE DEF g
<1>4. \A x \in Flights : flight'[x] \in Flush
  BY <1>1, <1>2, <1>3
<1>5. flight' \in [Flights -> Flush]
  BY <1>3, <1>4
<1> QED
  BY <1>3, <1>5 DEF g

\* What the checks of a flush find are batches of it, if it has none twice.
LEMMA PartsOf ==
  ASSUME TypeOK, NEW f \in Flights
  PROVE  LET parts == flight[f].parts IN
         /\ parts \in SUBSET Batches /\ Had(parts) \in SUBSET Batches /\ LeftOut(parts) \in SUBSET Batches
         /\ (parts \ LeftOut(parts)) \in SUBSET Batches /\ Retries(f) \in SUBSET Batches
<1>1. flight[f].parts \in SUBSET Batches /\ flight[f].twice \in SUBSET Batches
  BY DEF TypeOK, Flush
<1>2. \A parts \in SUBSET Batches : Had(parts) \in SUBSET Batches /\ Gap(parts) \in SUBSET Batches
  BY DEF Had, Gap
<1> QED
  BY <1>1, <1>2 DEF LeftOut, Retries

\* The sequencer's steps over a flush.
LEMMA SequenceType ==
  ASSUME TypeOK, NEW f \in Flights, Sequence(f)
  PROVE  TypeOK'
<1>1. /\ f = Head(seqr.todo) /\ f \in Flights /\ seqr.todo \in Seq(Flights) /\ Tail(seqr.todo) \in Seq(Flights)
      /\ seqr.of \cup {f} \in SUBSET Flights
  <2>1. seqr.of \in SUBSET Flights
    BY DEF TypeOK, Sequencer
  <2> QED
    BY <2>1, HeadOfTodo DEF Sequence
<1>2. seqr \in Sequencer /\ flight[f].parts \in SUBSET Batches
  BY DEF TypeOK, Flush
<1> SUFFICES seqr' \in Sequencer /\ flight' \in [Flights -> Flush]
  BY DEF Sequence, TypeOK
<1>3. CASE SequenceBack(f)
  <2>1. seqr' \in Sequencer
    BY <1>1, <1>2, <1>3 DEF SequenceBack, Sequencer
  <2> QED
    BY <1>2, <1>3, <2>1, AnsweredType DEF SequenceBack
<1>4. CASE SequenceRedone(f)
  <2>1. seqr' \in Sequencer
    BY <1>1, <1>2, <1>4 DEF SequenceRedone, Sequencer
  <2> QED
    BY <1>4, <2>1, AnsweredType, PartsOf DEF SequenceRedone
<1>5. CASE SequenceRows(f)
  <2> DEFINE parts == flight[f].parts
             new   == parts \ LeftOut(parts)
             big   == flight[f].kind = "object" /\ new # {}
             seqs  == [p \in Marked |-> IF \E b \in new : b[1] = p THEN Latest(new, p) ELSE seqr.seqs[p]]
             rows  == [b \in Batches |-> IF b \in new THEN seqr.rows[b] + 1 ELSE seqr.rows[b]]
             shown == IF flight[f].derived THEN [b \in Batches |-> IF b \in new THEN seqr.shown[b] + 1 ELSE seqr.shown[b]]
                                           ELSE seqr.shown
             at    == IF big THEN [b \in Batches |-> IF b \in new THEN seqr.n ELSE seqr.at[b]] ELSE seqr.at
             n     == IF big THEN seqr.n + 1 ELSE seqr.n
             inline == IF big THEN seqr.inline ELSE seqr.inline \cup new
  <2>1. seqr' = [seqr EXCEPT !.todo = Tail(@), !.of = @ \cup {f}, !.n = n, !.seqs = seqs, !.rows = rows,
                             !.shown = shown, !.at = at, !.inline = inline]
    BY <1>5 DEF SequenceRows
  <2>2. new \in SUBSET Batches /\ Retries(f) \in SUBSET Batches
    BY PartsOf
  <2>3. seqr.seqs \in [Marked -> 0 .. MaxSeq] /\ seqr.rows \in Tally /\ seqr.shown \in Tally /\ seqr.at \in Tally
        /\ seqr.n \in Nat /\ seqr.inline \in SUBSET Batches
    BY <1>2 DEF Sequencer
  <2>4. flight' \in [Flights -> Flush]
    <3>1. Answered(f, new \cup Retries(f), {})
      BY <1>5 DEF SequenceRows
    <3> HIDE DEF new
    <3>2. new \cup Retries(f) \in SUBSET Batches /\ {} \in SUBSET Batches
      BY <2>2
    <3> QED
      BY <3>1, <3>2, AnsweredType
  <2> HIDE DEF new
  <2>5. \A p \in Marked : (\E b \in new : b[1] = p) => Latest(new, p) \in 0 .. MaxSeq
    <3> TAKE p \in Marked
    <3> HAVE \E b \in new : b[1] = p
    <3>1. Latest(new, p) \in 1 .. MaxSeq
      BY <2>2, LatestIs
    <3> QED
      BY <3>1, BoundsAssumption
  <2>6. seqs \in [Marked -> 0 .. MaxSeq]
    BY <2>3, <2>5
  <2>7. rows \in Tally /\ shown \in Tally
    BY <2>3, AddedType
  <2>8. at \in Tally
    BY <2>3 DEF Tally
  <2>9. n \in Nat /\ inline \in SUBSET Batches
    BY <2>2, <2>3
  <2> HIDE DEF seqs, rows, shown, at, n, inline
  <2>10. seqr' \in Sequencer
    BY <1>1, <1>2, <2>1, <2>6, <2>7, <2>8, <2>9 DEF Sequencer
  <2> QED
    BY <2>4, <2>10
<1>6. CASE SequenceNumber(f)
  <2>1. seqr.n + 1 \in Nat
    BY <1>2 DEF Sequencer
  <2>2. seqr' \in Sequencer
    BY <1>1, <1>2, <1>6, <2>1 DEF SequenceNumber, Sequencer
  <2> QED
    BY <1>6, <2>2 DEF SequenceNumber, TypeOK
<1>7. CASE SequenceFill(f)
  <2> DEFINE shown == IF SeqOf(Fill) >= 1 THEN seqr.shown
                      ELSE [b \in Batches |-> IF b \in flight[f].content THEN seqr.shown[b] + 1 ELSE seqr.shown[b]]
             seqs  == [seqr.seqs EXCEPT ![Fill] = 1]
  <2>1. seqr' = [seqr EXCEPT !.todo = Tail(@), !.of = @ \cup {f}, !.seqs = seqs, !.shown = shown]
    BY <1>2, <1>7 DEF SequenceFill, Sequencer
  <2>2. seqr.shown \in Tally /\ seqr.seqs \in [Marked -> 0 .. MaxSeq]
    BY <1>2 DEF Sequencer
  <2>3. shown \in Tally
    BY <2>2, AddedType
  <2>4. seqs \in [Marked -> 0 .. MaxSeq]
    BY <2>2, BoundsAssumption DEF Marked
  <2> HIDE DEF shown, seqs
  <2>5. seqr' \in Sequencer
    BY <1>1, <1>2, <2>1, <2>3, <2>4 DEF Sequencer
  <2> QED
    BY <1>7, <2>5 DEF SequenceFill, TypeOK
<1> QED
  BY <1>3, <1>4, <1>5, <1>6, <1>7 DEF Sequence

\* What a commit writes, and what it leaves of the sequencer.
LEMMA CommitWrites ==
  ASSUME TypeOK, NumberInv, Commit
  PROVE  \E w \in Write :
         /\ flying' = Append(flying, w)
         /\ w.of = seqr.of
         /\ \A p \in Marked : w.to.mark[p] = Pending(p)
         /\ \A b \in Batches : w.to.rows[b] = Newest.rows[b] + seqr.rows[b]
         /\ w.to.n >= 1 /\ seqr'.n >= 1
         /\ seqr' \in Sequencer
         /\ seqr'.queue = seqr.queue /\ seqr'.todo = <<>> /\ seqr'.of = {}
         /\ seqr'.seqs = NoSeqs /\ seqr'.rows = None
         /\ \A p \in Marked : seqr'.last[p] = IF seqr.seqs[p] > 0 THEN seqr.seqs[p] ELSE seqr.last[p]
<1> DEFINE at == [b \in Batches |-> IF b \in seqr.inline THEN seqr.n ELSE seqr.at[b]]
           n  == IF seqr.inline = {} THEN seqr.n ELSE seqr.n + 1
           Moved(was, to) == [p \in Marked |-> IF to[p] > 0 THEN to[p] ELSE was[p]]
           mark == Moved(Newest.mark, seqr.seqs)
           last == Moved(seqr.last, seqr.seqs)
           rows == [b \in Batches |-> Newest.rows[b] + seqr.rows[b]]
           shown == [b \in Batches |-> Newest.shown[b] + seqr.shown[b]]
           after == [b \in Batches |-> IF at[b] > 0 THEN at[b] ELSE Newest.at[b]]
           view == IF seqr.seen = "unbounded" THEN "bounded" ELSE Newest.view
           upto == IF seqr.seen = "unbounded" THEN seqr.upto ELSE Newest.upto
           to == [Newest EXCEPT !.n = n, !.mark = mark, !.rows = rows, !.shown = shown, !.at = after,
                                !.view = view, !.upto = upto]
           w  == [to |-> to, slot |-> TRUE, of |-> seqr.of]
<1>1. seqr \in Sequencer /\ Newest \in Catalog /\ seqr.n >= 1
  BY NewestType DEF TypeOK, NumberInv
<1>2. /\ seqr.seqs \in [Marked -> 0 .. MaxSeq] /\ seqr.last \in [Marked -> 0 .. MaxSeq] /\ seqr.rows \in Tally
      /\ seqr.shown \in Tally /\ seqr.at \in Tally /\ seqr.n \in Nat /\ seqr.upto \in Nat /\ seqr.of \in SUBSET Flights
  BY <1>1 DEF Sequencer
<1>3. /\ Newest.mark \in [Marked -> 0 .. MaxSeq] /\ Newest.rows \in Tally /\ Newest.shown \in Tally
      /\ Newest.at \in Tally /\ Newest.upto \in Nat /\ Newest.view \in {"none", "unbounded", "bounded"}
  BY <1>1 DEF Catalog
<1>4. n \in Nat /\ n >= 1 /\ view \in {"none", "unbounded", "bounded"} /\ upto \in Nat
  BY <1>1, <1>2, <1>3
<1>5. mark \in [Marked -> 0 .. MaxSeq] /\ last \in [Marked -> 0 .. MaxSeq]
  BY <1>2, <1>3
<1>6. rows \in Tally /\ shown \in Tally /\ after \in Tally
  BY <1>2, <1>3 DEF Tally
<1>7. seqr' = [seqr EXCEPT !.step = "idle", !.n = n, !.last = last, !.of = {}, !.seen = "none", !.upto = 0,
                           !.seqs = NoSeqs, !.rows = None, !.at = None, !.shown = None, !.inline = {}]
      /\ flying' = Append(flying, w) /\ seqr.todo = <<>>
  BY DEF Commit
<1>8. \A p \in Marked : mark[p] = Pending(p) /\ last[p] = IF seqr.seqs[p] > 0 THEN seqr.seqs[p] ELSE seqr.last[p]
  BY DEF Pending
<1>9. \A b \in Batches : rows[b] = Newest.rows[b] + seqr.rows[b]
  OBVIOUS
<1> HIDE DEF at, n, Moved, mark, last, rows, shown, after, view, upto
<1>10. to \in Catalog /\ to.n = n /\ to.mark = mark /\ to.rows = rows
  BY <1>1, <1>4, <1>5, <1>6 DEF Catalog
<1> HIDE DEF to
<1>11. w \in Write /\ w.to = to /\ w.of = seqr.of
  BY <1>2, <1>10 DEF Write
<1>12. NoSeqs \in [Marked -> 0 .. MaxSeq] /\ None \in Tally
  BY BoundsAssumption DEF NoSeqs, None, Tally
<1>13. /\ seqr' \in Sequencer /\ seqr'.n = n /\ seqr'.queue = seqr.queue /\ seqr'.todo = seqr.todo /\ seqr'.of = {}
       /\ seqr'.seqs = NoSeqs /\ seqr'.rows = None /\ seqr'.last = last
  BY <1>1, <1>4, <1>5, <1>7, <1>12 DEF Sequencer
<1> HIDE DEF w
<1> QED
  BY <1>4, <1>7, <1>8, <1>9, <1>10, <1>11, <1>13

\* The sequencer's other steps, and writes that become durable.
LEMMA SequencerType ==
  ASSUME TypeOK, NumberInv, ReadViews \/ Open \/ Commit \/ Durable
  PROVE  TypeOK'
<1>1. seqr \in Sequencer /\ flight \in [Flights -> Flush] /\ cat \in Catalog /\ flying \in Seq(Write)
  BY DEF TypeOK
<1>2. CASE ReadViews
  <2>1. (IF cat.view = "unbounded" /\ seqr.bounded THEN "bounded" ELSE cat.view) \in {"none", "unbounded", "bounded"}
    BY <1>1 DEF Catalog
  <2>2. seqr' \in Sequencer
    BY <1>1, <1>2, <2>1 DEF ReadViews, Sequencer
  <2> QED
    BY <1>2, <2>2 DEF ReadViews, TypeOK
<1>3. CASE Open
  <2> DEFINE seen == IF seqr.step = "reading" THEN seqr.seen ELSE seqr.cache
             upto == IF seen = "unbounded" THEN seqr.n - 1 ELSE 0
             bounded == seqr.bounded \/ seen = "unbounded"
             cache == IF seen = "unbounded" THEN "bounded" ELSE seen
  <2>1. seqr' = [seqr EXCEPT !.step = "open", !.todo = seqr.queue, !.queue = <<>>, !.seen = seen, !.upto = upto,
                             !.bounded = bounded, !.cache = cache]
    BY <1>3 DEF Open
  <2>2. seqr.n \in Nat /\ seqr.n >= 1 /\ seqr.queue \in Seq(Flights)
    BY <1>1 DEF Sequencer, NumberInv
  <2>3. seen \in {"none", "unbounded", "bounded"} /\ cache \in {"forgotten", "none", "bounded"}
    BY <1>1, <1>3 DEF Open, Sequencer
  <2>4. upto \in Nat /\ bounded \in BOOLEAN /\ <<>> \in Seq(Flights)
    BY <1>1, <2>2 DEF Sequencer
  <2> HIDE DEF seen, upto, bounded, cache
  <2>5. seqr' \in Sequencer
    BY <1>1, <2>1, <2>2, <2>3, <2>4, ZenonT(60) DEF Sequencer
  <2> QED
    BY <1>3, <2>5 DEF Open, TypeOK
<1>4. CASE Commit
  <2>1. seqr' \in Sequencer /\ \E w \in Write : flying' = Append(flying, w)
    BY <1>4, CommitWrites
  <2>2. flying' \in Seq(Write)
    BY <1>1, <2>1
  <2> QED
    BY <1>4, <2>1, <2>2 DEF Commit, TypeOK
<1>5. CASE Durable
  <2>1. flying # <<>> /\ Head(flying) \in Write /\ Tail(flying) \in Seq(Write)
    BY <1>1, <1>5 DEF Durable
  <2>2. cat' \in Catalog /\ flying' \in Seq(Write)
    BY <1>5, <2>1 DEF Durable, Write
  <2>3. ASSUME NEW f \in Flights PROVE [flight[f] EXCEPT !.step = "answered"] \in Flush
    <3> PICK g \in Flush : g = flight[f]
      BY <1>1
    <3>1. [g EXCEPT !.step = "answered"] \in Flush
      BY ONLY g \in Flush DEF Flush
    <3> QED
      BY <3>1
  <2>4. flight' \in [Flights -> Flush]
    BY <1>1, <1>5, <2>3 DEF Durable
  <2> QED
    BY <1>5, <2>2, <2>4 DEF Durable, TypeOK
<1> QED
  BY <1>2, <1>3, <1>4, <1>5

\* What a takeover keeps is the catalog, or one of the writes on their way.
LEMMA KeptType ==
  ASSUME TypeOK, NEW k \in 0 .. Len(flying)
  PROVE  Kept(k) \in Catalog /\ (k # 0 => k \in DOMAIN flying)
<1>1. flying \in Seq(Write) /\ cat \in Catalog
  BY DEF TypeOK
<1>2. k # 0 => k \in DOMAIN flying /\ flying[k] \in Write
  BY <1>1
<1> QED
  BY <1>1, <1>2 DEF Kept, Write

\* A takeover keeps the types ...
LEMMA TakeOverType ==
  ASSUME TypeOK, NEW k \in 0 .. Len(flying), TakeOver(k)
  PROVE  TypeOK'
<1>1. cat' = Kept(k) /\ seqr' = Started(Kept(k)) /\ flying' = <<>>
  BY DEF TakeOver, Kept
<1>2. cat' \in Catalog /\ seqr' \in Sequencer /\ flying' \in Seq(Write)
  BY <1>1, KeptType, StartedType
<1>3. flight' \in [Flights -> Flush]
  BY NoFlushType DEF TakeOver, TypeOK
<1>4. takeovers' \in 0 .. MaxTakeovers
  <2>1. takeovers \in 0 .. MaxTakeovers /\ takeovers < MaxTakeovers /\ takeovers' = takeovers + 1
    BY DEF TakeOver, TypeOK
  <2> QED
    BY <2>1, BoundsAssumption
<1>5. stmt' \in [view : {"no", "writing", "made"}, move : {"no", "holding", "still", "filed", "moving", "over"},
                 filed : SUBSET Batches]
  BY DEF TakeOver
<1> QED
  BY <1>2, <1>3, <1>4, <1>5 DEF TakeOver, TypeOK

\* A statement's write changes no marks and no rows.
LEMMA WriteAfterIs ==
  ASSUME TypeOK, NEW to \in Catalog, WriteAfter(to)
  PROVE  \E w \in Write : flying' = Append(flying, w) /\ w.to = to /\ w.of = {}
<1> DEFINE w == [to |-> to, slot |-> FALSE, of |-> {}]
<1>1. w \in Write /\ flying' = Append(flying, w) /\ w.to = to /\ w.of = {}
  BY DEF WriteAfter, Write
<1> QED
  BY <1>1

\* The entry of a view, and that of a table that moves, change no numbers, marks or rows.
LEMMA StatementWrites ==
  ASSUME TypeOK, MakeView \/ Move
  PROVE  \E w \in Write : /\ flying' = Append(flying, w) /\ w.of = {}
                          /\ w.to.mark = Newest.mark /\ w.to.rows = Newest.rows /\ w.to.n = Newest.n
<1>1. Newest \in Catalog
  BY NewestType
<1>2. CASE MakeView
  <2> DEFINE to == [Newest EXCEPT !.view = "unbounded"]
  <2>1. to \in Catalog /\ to.mark = Newest.mark /\ to.rows = Newest.rows /\ to.n = Newest.n /\ WriteAfter(to)
    BY <1>1, <1>2 DEF MakeView, Catalog
  <2> HIDE DEF to
  <2> QED
    BY <2>1, WriteAfterIs
<1>3. CASE Move
  <2> DEFINE to == [Newest EXCEPT !.moved = TRUE, !.filed = stmt.filed]
  <2>1. stmt.filed \in SUBSET Batches
    BY DEF TypeOK
  <2>2. to \in Catalog /\ to.mark = Newest.mark /\ to.rows = Newest.rows /\ to.n = Newest.n /\ WriteAfter(to)
    BY <1>1, <1>3, <2>1 DEF Move, Catalog
  <2> HIDE DEF to
  <2> QED
    BY <2>2, WriteAfterIs
<1> QED
  BY <1>2, <1>3

\* The flushes statements submit are of kinds that no producer's are.
LEMMA StatementSubmits ==
  ASSUME TypeOK, NEW f \in Flights, AskForEnd(f) \/ FillView(f) \/ Hold(f)
  PROVE  /\ UNCHANGED <<cat, flying, cl, takeovers>>
         /\ \E g \in Flush : /\ Submit(f, g) /\ g.kind \notin Kinds /\ g.parts = {} /\ g.twice = {}
                              /\ g.ok = {} /\ g.again = {}
<1> USE NoFlushType
<1>1. CASE AskForEnd(f)
  <2> DEFINE g == [NoFlush EXCEPT !.kind = "number"]
  <2>1. g \in Flush /\ g.kind = "number" /\ g.parts = {} /\ g.twice = {} /\ g.ok = {} /\ g.again = {} /\ Submit(f, g)
    BY <1>1 DEF AskForEnd, Flush, NoFlush
  <2> HIDE DEF g
  <2> QED
    BY <1>1, <2>1, KindsAssumption DEF AskForEnd
<1>2. CASE FillView(f)
  <2> DEFINE content == {b \in Batches : cat.rows[b] > 0 /\ cat.at[b] <= cat.upto}
             g == [NoFlush EXCEPT !.kind = "fill", !.content = content]
  <2>1. content \in SUBSET Batches /\ Submit(f, g)
    BY <1>2 DEF FillView
  <2> HIDE DEF content
  <2>2. g \in Flush /\ g.kind = "fill" /\ g.parts = {} /\ g.twice = {} /\ g.ok = {} /\ g.again = {}
    BY <2>1 DEF Flush, NoFlush
  <2> HIDE DEF g
  <2> QED
    BY <1>2, <2>1, <2>2, KindsAssumption DEF FillView
<1>3. CASE Hold(f)
  <2> DEFINE g == [NoFlush EXCEPT !.kind = "hold"]
  <2>1. g \in Flush /\ g.kind = "hold" /\ g.parts = {} /\ g.twice = {} /\ g.ok = {} /\ g.again = {} /\ Submit(f, g)
    BY <1>3 DEF Hold, Flush, NoFlush
  <2> HIDE DEF g
  <2> QED
    BY <1>3, <2>1, KindsAssumption DEF Hold
<1> QED
  BY <1>1, <1>2, <1>3

\* Statements keep the types ...
LEMMA StatementType ==
  ASSUME TypeOK,
         \/ MakeView \/ ForgetViews \/ ToFiles \/ Move \/ Release
         \/ \E f \in Flights : AskForEnd(f) \/ FillView(f) \/ Hold(f)
  PROVE  TypeOK'
<1>1. CASE MakeView \/ Move
  <2>1. flying' \in Seq(Write)
    <3>1. PICK w \in Write : flying' = Append(flying, w)
      BY <1>1, StatementWrites
    <3>2. flying \in Seq(Write)
      BY DEF TypeOK
    <3> QED
      BY <3>1, <3>2
  <2> QED
    BY <1>1, <2>1 DEF MakeView, Move, TypeOK
<1>2. CASE ForgetViews
  <2>1. [seqr EXCEPT !.cache = "forgotten"] \in Sequencer
    BY DEF TypeOK, Sequencer
  <2> QED
    BY <1>2, <2>1 DEF ForgetViews, TypeOK
<1>3. CASE ToFiles \/ Release
  BY <1>3, ZenonT(60) DEF ToFiles, Release, TypeOK
<1>4. ASSUME NEW f \in Flights, AskForEnd(f) \/ FillView(f) \/ Hold(f)
      PROVE  TypeOK'
  <2>1. seqr' \in Sequencer /\ flight' \in [Flights -> Flush] /\ UNCHANGED <<cat, flying, cl, takeovers>>
    BY <1>4, StatementSubmits, SubmitType
  <2>2. stmt' \in [view : {"no", "writing", "made"}, move : {"no", "holding", "still", "filed", "moving", "over"},
                 filed : SUBSET Batches]
    BY <1>4 DEF AskForEnd, FillView, Hold, TypeOK
  <2> QED
    BY <2>1, <2>2 DEF TypeOK
<1> QED
  BY <1>1, <1>2, <1>3, <1>4

\* ... and so does every step.
LEMMA NextType ==
  ASSUME TypeOK, NumberInv, [Next]_vars
  PROVE  TypeOK'
<1>1. CASE UNCHANGED vars
  BY <1>1 DEF vars, TypeOK
<1> QED
  BY <1>1, ClientType, SequenceType, SequencerType, TakeOverType, StatementType DEF Next

-----------------------------------------------------------------------------
(* How the writes on their way change                                      *)

\* A write more.
LEMMA Lengthens ==
  ASSUME TypeOK, NEW w \in Write, flying' = Append(flying, w)
  PROVE  /\ Len(flying) \in Nat
         /\ \A i \in DOMAIN flying : i \in DOMAIN flying' /\ flying'[i] = flying[i]
         /\ flying'[Len(flying) + 1] = w /\ Len(flying) + 1 \in DOMAIN flying'
         /\ \A i \in DOMAIN flying' : i \in DOMAIN flying \/ i = Len(flying) + 1
         /\ \A i \in DOMAIN flying : i \in Nat /\ i <= Len(flying)
         /\ Newest' = w.to
<1>1. flying \in Seq(Write)
  BY DEF TypeOK
<1>2. /\ flying' \in Seq(Write) /\ Len(flying') = Len(flying) + 1
      /\ \A i \in 1 .. Len(flying) : flying'[i] = flying[i]
      /\ flying'[Len(flying) + 1] = w
  BY <1>1, AppendProperties
<1>3. /\ DOMAIN flying = 1 .. Len(flying) /\ DOMAIN flying' = 1 .. (Len(flying) + 1) /\ Len(flying) \in Nat
      /\ flying' # <<>>
  BY <1>1, <1>2, LenProperties, EmptySeq
<1>4. Newest' = w.to
  BY <1>2, <1>3 DEF Newest
<1> QED
  BY <1>2, <1>3, <1>4

\* The first write is durable.
LEMMA Shortens ==
  ASSUME TypeOK, Durable
  PROVE  /\ 1 \in DOMAIN flying /\ cat' = flying[1].to /\ flying[1] = Head(flying)
         /\ \A i \in DOMAIN flying' : i + 1 \in DOMAIN flying /\ flying'[i] = flying[i + 1] /\ i \in Nat /\ i >= 1
         /\ \A i \in DOMAIN flying : i \in Nat /\ i >= 1
         /\ Newest' = Newest
<1>1. flying \in Seq(Write) /\ flying # <<>> /\ flying' = Tail(flying) /\ cat' = Head(flying).to
  BY DEF TypeOK, Durable
<1>2. /\ Head(flying) = flying[1] /\ Tail(flying) \in Seq(Write) /\ Len(Tail(flying)) = Len(flying) - 1
      /\ \A i \in 1 .. Len(Tail(flying)) : Tail(flying)[i] = flying[i + 1]
  BY <1>1, HeadTailProperties
<1>3. DOMAIN flying = 1 .. Len(flying) /\ DOMAIN flying' = 1 .. (Len(flying) - 1) /\ Len(flying) \in Nat /\ Len(flying) # 0
  BY <1>1, <1>2, LenProperties, EmptySeq
<1>4. Newest' = Newest
  <2>1. CASE flying' = <<>>
    <3>1. Len(flying') = 0
      BY <2>1, EmptySeq
    <3>2. Len(flying) = 1
      BY <1>1, <1>2, <1>3, <3>1
    <3>3. Newest' = cat' /\ Newest = flying[1].to
      BY <1>1, <2>1, <3>2 DEF Newest
    <3> QED
      BY <1>1, <1>2, <3>3
  <2>2. CASE flying' # <<>>
    <3> DEFINE m == Len(flying')
    <3>1. m = Len(flying) - 1 /\ m \in Nat /\ m # 0
      BY <1>1, <1>2, <1>3, <2>2, EmptySeq, LenProperties
    <3>2. m \in 1 .. Len(Tail(flying)) /\ m + 1 = Len(flying)
      BY <1>2, <1>3, <3>1
    <3>3. flying'[m] = flying[m + 1]
      BY <1>1, <1>2, <3>2
    <3>4. Newest' = flying'[m].to /\ Newest = flying[Len(flying)].to
      BY <1>1, <2>2 DEF Newest
    <3> QED
      BY <3>2, <3>3, <3>4
  <2> QED
    BY <2>1, <2>2
<1> QED
  BY <1>1, <1>2, <1>3, <1>4

\* The newest catalog is the committed one, or the last write's.
LEMMA NewestIs ==
  ASSUME TypeOK
  PROVE  Newest = cat \/ \E i \in DOMAIN flying : Newest = flying[i].to /\ \A j \in DOMAIN flying : j <= i
<1>1. flying \in Seq(Write)
  BY DEF TypeOK
<1>2. DOMAIN flying = 1 .. Len(flying) /\ Len(flying) \in Nat
  BY <1>1, LenProperties
<1>3. flying # <<>> => Len(flying) # 0
  BY <1>1, EmptySeq
<1> QED
  BY <1>2, <1>3 DEF Newest

\* After a takeover, nothing is on its way and a new sequencer starts.
LEMMA TakenOver ==
  ASSUME TypeOK, NEW k \in 0 .. Len(flying), TakeOver(k)
  PROVE  /\ cat' = Kept(k) /\ flying' = <<>> /\ DOMAIN flying' = {} /\ Newest' = cat'
         /\ seqr'.n = Kept(k).n /\ seqr'.queue = <<>> /\ seqr'.todo = <<>> /\ seqr'.of = {}
         /\ seqr'.seqs = NoSeqs /\ seqr'.last = NoSeqs /\ seqr'.rows = None
         /\ Kept(k) = cat \/ \E i \in DOMAIN flying : Kept(k) = flying[i].to
<1>1. cat' = Kept(k) /\ seqr' = Started(Kept(k)) /\ flying' = <<>>
  BY DEF TakeOver, Kept
<1>2. Newest' = cat' /\ DOMAIN flying' = {}
  BY <1>1 DEF Newest
<1>3. Kept(k) = cat \/ \E i \in DOMAIN flying : Kept(k) = flying[i].to
  BY KeptType DEF Kept
<1> QED
  BY <1>1, <1>2, <1>3 DEF Started, NewSequencer

-----------------------------------------------------------------------------
(* What a step leaves as it was                                            *)

\* Every step is a quiet one, or one of six others.
LEMMA NextIs ==
  ASSUME [Next]_vars
  PROVE  \/ Quietly
         \/ \E f \in Flights : Sequence(f) /\ SequenceRows(f)
         \/ Commit \/ Durable \/ MakeView \/ Move
         \/ \E k \in 0 .. Len(flying) : TakeOver(k)
<1>1. CASE UNCHANGED vars
  BY <1>1 DEF Quietly
<1>2. ASSUME NEW f \in Flights, Sequence(f)
      PROVE  Quietly \/ SequenceRows(f)
  BY <1>2 DEF Sequence, Quietly
<1> QED
  BY <1>1, <1>2 DEF Next, Quietly

\* What a quiet step leaves as it was.
LEMMA Quiet ==
  ASSUME TypeOK, NumberInv, Quietly
  PROVE  /\ UNCHANGED <<cat, flying>> /\ seqr'.n >= 1
         /\ seqr'.last = seqr.last /\ seqr'.rows = seqr.rows
         /\ \A p \in Producers : seqr'.seqs[p] = seqr.seqs[p]
<1>1. seqr \in Sequencer /\ seqr.n \in Nat /\ seqr.n >= 1
  BY DEF TypeOK, Sequencer, NumberInv
<1>2. CASE \/ \E p \in Producers : Produce(p)
           \/ \E f \in Flights : Pack(f) \/ Lose(f) \/ Hear(f)
           \/ ToFiles \/ Release \/ UNCHANGED vars
  BY <1>1, <1>2 DEF Produce, Pack, Lose, Hear, ToFiles, Release, vars
<1>3. CASE (\E f \in Flights : Arrive(f) \/ AskForEnd(f) \/ FillView(f) \/ Hold(f)) \/ ForgetViews
  BY <1>1, <1>3 DEF Arrive, AskForEnd, FillView, Hold, Submit, ForgetViews, Sequencer
<1>4. CASE ReadViews \/ Open
  BY <1>1, <1>4, ZenonT(60) DEF ReadViews, Open, Sequencer
<1>5. ASSUME NEW f \in Flights, Sequence(f), SequenceBack(f) \/ SequenceRedone(f) \/ SequenceNumber(f)
      PROVE  /\ UNCHANGED <<cat, flying>> /\ seqr'.n >= 1
             /\ seqr'.last = seqr.last /\ seqr'.rows = seqr.rows /\ seqr'.seqs = seqr.seqs
  <2>1. UNCHANGED <<cat, flying>>
    BY <1>5 DEF Sequence
  <2>2. \/ seqr' = [seqr EXCEPT !.todo = Tail(@), !.of = @ \cup {f}]
        \/ seqr' = [seqr EXCEPT !.todo = Tail(@), !.of = @ \cup {f}, !.n = @ + 1]
    BY <1>5 DEF SequenceBack, SequenceRedone, SequenceNumber
  <2>3. seqr.n + 1 \in Nat /\ seqr.n + 1 >= 1
    BY <1>1
  <2>4. CASE seqr' = [seqr EXCEPT !.todo = Tail(@), !.of = @ \cup {f}]
    BY <1>1, <2>1, <2>4 DEF Sequencer
  <2>5. CASE seqr' = [seqr EXCEPT !.todo = Tail(@), !.of = @ \cup {f}, !.n = @ + 1]
    BY <1>1, <2>1, <2>3, <2>5 DEF Sequencer
  <2> QED
    BY <2>2, <2>4, <2>5
<1>6. ASSUME NEW f \in Flights, Sequence(f), SequenceFill(f)
      PROVE  /\ UNCHANGED <<cat, flying, seqr.last, seqr.rows>> /\ seqr'.n >= 1
             /\ \A p \in Producers : seqr'.seqs[p] = seqr.seqs[p]
  <2>1. UNCHANGED <<cat, flying, seqr.last, seqr.rows>> /\ seqr'.n >= 1 /\ seqr'.seqs = [seqr.seqs EXCEPT ![Fill] = 1]
    BY <1>1, <1>6 DEF Sequence, SequenceFill, Sequencer
  <2>2. seqr.seqs \in [Marked -> 0 .. MaxSeq]
    BY <1>1 DEF Sequencer
  <2> QED
    BY <2>1, <2>2, ProducersAssumption DEF Marked
<1> QED
  BY <1>2, <1>3, <1>4, <1>5, <1>6 DEF Quietly

\* Numbers stay at one or more: a new sequencer has its catalog's.
LEMMA NumberStep ==
  ASSUME TypeOK, NumberInv, [Next]_vars
  PROVE  NumberInv'
<1>1. CASE Quietly
  BY <1>1, Quiet DEF NumberInv
<1>2. ASSUME NEW f \in Flights, Sequence(f), SequenceRows(f)
      PROVE  NumberInv'
  <2>1. seqr \in Sequencer /\ seqr.n \in Nat
    BY DEF TypeOK, Sequencer
  <2>2. seqr'.n = seqr.n \/ seqr'.n = seqr.n + 1
    BY <1>2, <2>1 DEF SequenceRows, Sequencer
  <2> QED
    BY <1>2, <2>1, <2>2 DEF Sequence, NumberInv
<1>3. CASE Commit
  <2>1. PICK w \in Write : flying' = Append(flying, w) /\ w.to.n >= 1 /\ seqr'.n >= 1
    BY <1>3, CommitWrites
  <2>2. cat' = cat
    BY <1>3 DEF Commit
  <2> QED
    BY <2>1, <2>2, Lengthens DEF NumberInv
<1>4. CASE MakeView \/ Move
  <2>1. PICK w \in Write : flying' = Append(flying, w) /\ w.to.n = Newest.n
    BY <1>4, StatementWrites
  <2>2. cat' = cat /\ seqr' = seqr
    BY <1>4 DEF MakeView, Move
  <2>3. Newest.n >= 1
    BY NewestIs DEF NumberInv
  <2> QED
    BY <2>1, <2>2, <2>3, Lengthens DEF NumberInv
<1>5. CASE Durable
  <2>1. seqr' = seqr
    BY <1>5 DEF Durable
  <2> QED
    BY <1>5, <2>1, Shortens DEF NumberInv
<1>6. ASSUME NEW k \in 0 .. Len(flying), TakeOver(k)
      PROVE  NumberInv'
  BY <1>6, TakenOver DEF NumberInv
<1> QED
  BY <1>1, <1>2, <1>3, <1>4, <1>5, <1>6, NextIs

-----------------------------------------------------------------------------
(* Marks                                                                   *)

\* The newest catalog has the highest marks.
LEMMA MarkOrder ==
  ASSUME TypeOK, MarkInv, NEW p \in Producers
  PROVE  /\ cat.mark[p] \in 0 .. MaxSeq /\ Newest.mark[p] \in 0 .. MaxSeq
         /\ seqr.seqs[p] \in 0 .. MaxSeq /\ seqr.last[p] \in 0 .. MaxSeq
         /\ \A i \in DOMAIN flying : flying[i].to.mark[p] \in 0 .. MaxSeq
         /\ cat.mark[p] <= Newest.mark[p]
         /\ \A i \in DOMAIN flying : flying[i].to.mark[p] <= Newest.mark[p]
<1>1. p \in Marked /\ cat \in Catalog /\ Newest \in Catalog /\ seqr \in Sequencer
  BY NewestType DEF Marked, TypeOK
<1>2. \A i \in DOMAIN flying : flying[i].to \in Catalog
  <2>1. flying \in Seq(Write)
    BY DEF TypeOK
  <2>2. \A i \in DOMAIN flying : flying[i] \in Write
    BY <2>1
  <2> QED
    BY <2>2 DEF Write
<1>3. /\ cat.mark[p] \in 0 .. MaxSeq /\ Newest.mark[p] \in 0 .. MaxSeq
      /\ seqr.seqs[p] \in 0 .. MaxSeq /\ seqr.last[p] \in 0 .. MaxSeq
  BY <1>1 DEF Catalog, Sequencer
<1>4. \A i \in DOMAIN flying : flying[i].to.mark[p] \in 0 .. MaxSeq
  BY <1>1, <1>2 DEF Catalog
<1>5. cat.mark[p] <= Newest.mark[p]
  BY <1>3, NewestIs DEF MarkInv
<1>6. \A i \in DOMAIN flying : flying[i].to.mark[p] <= Newest.mark[p]
  <2>1. CASE flying = <<>>
    BY <2>1
  <2>2. CASE flying # <<>>
    <3>1. Len(flying) \in DOMAIN flying /\ \A i \in DOMAIN flying : i <= Len(flying)
      BY <2>2 DEF TypeOK
    <3> QED
      BY <2>2, <3>1 DEF Newest, MarkInv
  <2> QED
    BY <2>1, <2>2
<1> QED
  BY <1>3, <1>4, <1>5, <1>6

\* The sequencer knows where a producer is, commits on their way included.
LEMMA SeqIs ==
  ASSUME TypeOK, MarkInv, NEW p \in Producers
  PROVE  /\ SeqOf(p) = Pending(p) /\ SeqOf(p) \in 0 .. MaxSeq
         /\ Newest.mark[p] <= SeqOf(p) /\ cat.mark[p] <= SeqOf(p)
<1>1. /\ cat.mark[p] \in 0 .. MaxSeq /\ Newest.mark[p] \in 0 .. MaxSeq
      /\ seqr.seqs[p] \in 0 .. MaxSeq /\ seqr.last[p] \in 0 .. MaxSeq
      /\ cat.mark[p] <= Newest.mark[p]
  BY MarkOrder
<1>2. /\ seqr.last[p] > 0 => seqr.last[p] = Newest.mark[p]
      /\ seqr.last[p] = 0 => cat.mark[p] = Newest.mark[p]
      /\ seqr.seqs[p] > 0 => Newest.mark[p] <= seqr.seqs[p]
  BY DEF MarkInv
<1> QED
  BY <1>1, <1>2, BoundsAssumption DEF SeqOf, Pending

\* What is new of a flush goes on from where its producer is, with nothing between.
LEMMA NewParts ==
  ASSUME TypeOK, MarkInv, AckInv, SentInv, NEW f \in Flights, NEW new,
         new = flight[f].parts \ LeftOut(flight[f].parts),
         NEW p \in Producers, \E b \in new : b[1] = p
  PROVE  /\ Latest(new, p) \in 1 .. MaxSeq /\ SeqOf(p) < Latest(new, p)
         /\ \A b \in Batches : b[1] = p => (b \in new <=> SeqOf(p) < b[2] /\ b[2] <= Latest(new, p))
<1> DEFINE parts == flight[f].parts
           l == Latest(new, p)
<1>1. new \in SUBSET Batches /\ parts \in SUBSET Batches
  BY PartsOf
<1>2. l \in 1 .. MaxSeq /\ <<p, l>> \in new /\ \A b \in new : b[1] = p => b[2] <= l
  BY <1>1, LatestIs
<1>3. SeqOf(p) \in 0 .. MaxSeq /\ cat.mark[p] <= SeqOf(p) /\ cat.mark[p] \in 0 .. MaxSeq
  BY SeqIs, MarkOrder
<1>4. new = parts \ (Had(parts) \cup Gap(parts))
  BY DEF LeftOut
<1> HIDE DEF l
<1>5. \A b \in Batches : b = <<b[1], b[2]>> /\ b[2] \in 1 .. MaxSeq
  BY DEF Batches
<1>6. \A b \in new : b[1] = p => SeqOf(p) < b[2]
  <2> TAKE b \in new
  <2> HAVE b[1] = p
  <2>1. b \in parts /\ b \notin Had(parts)
    BY <1>4
  <2>2. ~ (b[2] <= SeqOf(p))
    BY <2>1 DEF Had
  <2>3. b[2] \in 1 .. MaxSeq
    BY <1>1, <1>5
  <2> QED
    BY <2>2, <2>3, <1>3
<1>7. ASSUME NEW b \in Batches, b[1] = p, SeqOf(p) < b[2], b[2] <= l
      PROVE  b \in new
  <2>1. b = <<p, b[2]>> /\ b[2] \in 1 .. MaxSeq
    BY <1>5, <1>7
  <2>2. CASE b[2] = l
    BY <1>2, <2>1, <2>2
  <2>3. CASE b[2] # l /\ p \in Chained
    <3>1. <<p, l>> \in parts \ Had(parts) /\ <<p, l>> \notin Gap(parts)
      BY <1>2, <1>4
    <3>2. \A s \in (SeqOf(p) + 1) .. (l - 1) : <<p, s>> \in parts
      BY <2>3, <3>1 DEF Gap
    <3>3. b[2] \in (SeqOf(p) + 1) .. (l - 1) /\ \A s \in (SeqOf(p) + 1) .. (b[2] - 1) : s \in (SeqOf(p) + 1) .. (l - 1)
      BY <1>2, <1>3, <1>7, <2>1, <2>3
    <3>4. b \in parts /\ \A s \in (SeqOf(p) + 1) .. (b[2] - 1) : <<p, s>> \in parts
      BY <2>1, <3>2, <3>3
    <3>5. b \notin Gap(parts)
      BY <1>7, <3>4 DEF Gap
    <3>6. b \notin Had(parts)
      BY <1>3, <1>7, <2>1 DEF Had
    <3> QED
      BY <1>4, <3>4, <3>5, <3>6
  <2>4. CASE b[2] # l /\ p \notin Chained
    <3>1. <<p, l>> \in parts
      BY <1>2, <1>4
    <3>2. l <= cl.sent[p] /\ cl.sent[p] \in 0 .. MaxSeq
      BY <3>1 DEF SentInv, TypeOK
    <3>3. b[2] < cl.sent[p]
      BY <1>2, <1>7, <2>1, <2>4, <3>2
    <3>4. b \in cl.acked
      BY <1>7, <2>4, <3>3 DEF SentInv
    <3>5. b[2] <= cat.mark[p]
      BY <1>7, <3>4 DEF AckInv, Upto
    <3> QED
      BY <1>3, <1>7, <2>1, <3>5
  <2> QED
    BY <2>2, <2>3, <2>4
<1> QED
  BY <1>2, <1>3, <1>6, <1>7 DEF l

\* What sequencing a flush's rows changes.
LEMMA RowsChange ==
  ASSUME TypeOK, NEW f \in Flights, Sequence(f), SequenceRows(f)
  PROVE  /\ seqr'.queue = seqr.queue /\ seqr'.todo = Tail(seqr.todo) /\ seqr'.of = seqr.of \cup {f}
         /\ \E new \in SUBSET Batches :
            /\ new = flight[f].parts \ LeftOut(flight[f].parts)
            /\ UNCHANGED <<cat, flying>> /\ seqr'.last = seqr.last
            /\ \A p \in Producers : seqr'.seqs[p] = IF \E b \in new : b[1] = p THEN Latest(new, p) ELSE seqr.seqs[p]
            /\ \A b \in Batches : seqr'.rows[b] = IF b \in new THEN seqr.rows[b] + 1 ELSE seqr.rows[b]
<1> DEFINE new   == flight[f].parts \ LeftOut(flight[f].parts)
           big   == flight[f].kind = "object" /\ new # {}
           seqs  == [p \in Marked |-> IF \E b \in new : b[1] = p THEN Latest(new, p) ELSE seqr.seqs[p]]
           rows  == [b \in Batches |-> IF b \in new THEN seqr.rows[b] + 1 ELSE seqr.rows[b]]
           shown == IF flight[f].derived THEN [b \in Batches |-> IF b \in new THEN seqr.shown[b] + 1 ELSE seqr.shown[b]]
                                         ELSE seqr.shown
           at    == IF big THEN [b \in Batches |-> IF b \in new THEN seqr.n ELSE seqr.at[b]] ELSE seqr.at
           n     == IF big THEN seqr.n + 1 ELSE seqr.n
           inline == IF big THEN seqr.inline ELSE seqr.inline \cup new
<1>1. seqr \in Sequencer /\ new \in SUBSET Batches
  BY PartsOf DEF TypeOK
<1>2. seqr' = [seqr EXCEPT !.todo = Tail(@), !.of = @ \cup {f}, !.n = n, !.seqs = seqs, !.rows = rows,
                           !.shown = shown, !.at = at, !.inline = inline]
  BY DEF SequenceRows
<1> HIDE DEF seqs, rows, shown, at, n, inline
<1>3. /\ seqr'.last = seqr.last /\ seqr'.seqs = seqs /\ seqr'.rows = rows /\ seqr'.of = seqr.of \cup {f}
      /\ seqr'.queue = seqr.queue /\ seqr'.todo = Tail(seqr.todo)
  BY <1>1, <1>2 DEF Sequencer
<1>4. UNCHANGED <<cat, flying>>
  BY DEF Sequence
<1>5. \A p \in Producers : seqs[p] = IF \E b \in new : b[1] = p THEN Latest(new, p) ELSE seqr.seqs[p]
  BY DEF seqs, Marked
<1>6. \A b \in Batches : rows[b] = IF b \in new THEN seqr.rows[b] + 1 ELSE seqr.rows[b]
  BY DEF rows
<1>7. PICK S : S = new
  OBVIOUS
<1> HIDE DEF new
<1>8. S \in SUBSET Batches /\ S = flight[f].parts \ LeftOut(flight[f].parts)
  BY <1>1, <1>7 DEF new
<1>9. \A p \in Producers : seqr'.seqs[p] = IF \E b \in S : b[1] = p THEN Latest(S, p) ELSE seqr.seqs[p]
  BY <1>3, <1>5, <1>7
<1>10. \A b \in Batches : seqr'.rows[b] = IF b \in S THEN seqr.rows[b] + 1 ELSE seqr.rows[b]
  BY <1>3, <1>6, <1>7
<1> QED
  BY <1>3, <1>4, <1>8, <1>9, <1>10

\* Marks go on only, and what the sequencer remembers stays theirs (Sequencer::commit_batch).
LEMMA MarkStep ==
  ASSUME TypeOK, NumberInv, MarkInv, AckInv, SentInv, [Next]_vars
  PROVE  MarkInv'
<1>1. CASE Quietly
  <2>1. /\ UNCHANGED <<cat, flying>> /\ seqr'.last = seqr.last
        /\ \A p \in Producers : seqr'.seqs[p] = seqr.seqs[p]
    BY <1>1, Quiet
  <2>2. Newest' = Newest
    BY <2>1 DEF Newest
  <2> QED
    BY <2>1, <2>2 DEF MarkInv
<1>2. ASSUME NEW f \in Flights, Sequence(f), SequenceRows(f)
      PROVE  MarkInv'
  <2>1. PICK new \in SUBSET Batches :
          /\ new = flight[f].parts \ LeftOut(flight[f].parts)
          /\ UNCHANGED <<cat, flying>> /\ seqr'.last = seqr.last
          /\ \A p \in Producers : seqr'.seqs[p] = IF \E b \in new : b[1] = p THEN Latest(new, p) ELSE seqr.seqs[p]
    BY <1>2, RowsChange, ZenonT(60)
  <2>2. Newest' = Newest
    BY <2>1 DEF Newest
  <2>3. \A p \in Producers : seqr'.seqs[p] > 0 => Newest.mark[p] <= seqr'.seqs[p]
    <3> TAKE p \in Producers
    <3>1. CASE \E b \in new : b[1] = p
      <4>1. Latest(new, p) \in 1 .. MaxSeq /\ SeqOf(p) < Latest(new, p)
        BY <2>1, <3>1, NewParts
      <4>2. Newest.mark[p] <= SeqOf(p) /\ SeqOf(p) \in 0 .. MaxSeq /\ Newest.mark[p] \in 0 .. MaxSeq
        BY SeqIs, MarkOrder
      <4>3. Newest.mark[p] <= Latest(new, p)
        BY <4>1, <4>2
      <4> QED
        BY <2>1, <3>1, <4>3
    <3>2. CASE ~ \E b \in new : b[1] = p
      BY <2>1, <3>2 DEF MarkInv
    <3> QED
      BY <3>1, <3>2
  <2> QED
    BY <2>1, <2>2, <2>3 DEF MarkInv
<1>3. CASE Commit
  <2>1. PICK w \in Write :
          /\ flying' = Append(flying, w) /\ seqr'.seqs = NoSeqs
          /\ \A p \in Marked : w.to.mark[p] = Pending(p)
          /\ \A p \in Marked : seqr'.last[p] = IF seqr.seqs[p] > 0 THEN seqr.seqs[p] ELSE seqr.last[p]
    BY <1>3, CommitWrites
  <2>2. cat' = cat
    BY <1>3 DEF Commit
  <2> SUFFICES ASSUME NEW p \in Producers
               PROVE  /\ \A i \in DOMAIN flying' : cat.mark[p] <= flying'[i].to.mark[p]
                      /\ \A i, j \in DOMAIN flying' : i <= j => flying'[i].to.mark[p] <= flying'[j].to.mark[p]
                      /\ seqr'.last[p] > 0 => seqr'.last[p] = Newest'.mark[p]
                      /\ seqr'.last[p] = 0 => cat.mark[p] = Newest'.mark[p]
                      /\ seqr'.seqs[p] > 0 => Newest'.mark[p] <= seqr'.seqs[p]
    BY <2>2 DEF MarkInv
  <2>3. p \in Marked /\ NoSeqs[p] = 0
    BY DEF Marked, NoSeqs
  <2>4. /\ cat.mark[p] \in 0 .. MaxSeq /\ Newest.mark[p] \in 0 .. MaxSeq /\ Pending(p) \in 0 .. MaxSeq
        /\ seqr.seqs[p] \in 0 .. MaxSeq /\ seqr.last[p] \in 0 .. MaxSeq
        /\ \A i \in DOMAIN flying : flying[i].to.mark[p] \in 0 .. MaxSeq /\ flying[i].to.mark[p] <= Newest.mark[p]
        /\ cat.mark[p] <= Pending(p) /\ Newest.mark[p] <= Pending(p)
    BY MarkOrder, SeqIs
  <2>5. /\ \A i \in DOMAIN flying : i \in DOMAIN flying' /\ flying'[i] = flying[i]
        /\ flying'[Len(flying) + 1] = w /\ Newest' = w.to /\ Len(flying) \in Nat
        /\ \A i \in DOMAIN flying' : i \in DOMAIN flying \/ i = Len(flying) + 1
        /\ \A i \in DOMAIN flying : i \in Nat /\ i <= Len(flying)
    BY <2>1, Lengthens
  <2>6. w.to.mark[p] = Pending(p)
    BY <2>1, <2>3
  <2>7. \A i \in DOMAIN flying' : cat.mark[p] <= flying'[i].to.mark[p]
    BY <2>4, <2>5, <2>6 DEF MarkInv
  <2>8. ASSUME NEW i \in DOMAIN flying', NEW j \in DOMAIN flying', i <= j
        PROVE  flying'[i].to.mark[p] <= flying'[j].to.mark[p]
    <3>1. CASE j \in DOMAIN flying
      <4>1. i \in DOMAIN flying
        BY <2>5, <2>8, <3>1
      <4> QED
        BY <2>5, <2>8, <3>1, <4>1 DEF MarkInv
    <3>2. CASE j = Len(flying) + 1 /\ i \in DOMAIN flying
      <4>1. flying[i].to.mark[p] <= Pending(p)
        BY <2>4, <3>2
      <4> QED
        BY <2>5, <2>6, <3>2, <4>1
    <3>3. CASE j = Len(flying) + 1 /\ i = Len(flying) + 1
      BY <2>4, <2>5, <2>6, <3>3
    <3> QED
      BY <2>5, <3>1, <3>2, <3>3
  <2>9. /\ seqr'.last[p] > 0 => seqr'.last[p] = Pending(p)
        /\ seqr'.last[p] = 0 => cat.mark[p] = Pending(p)
    <3>1. seqr'.last[p] = IF seqr.seqs[p] > 0 THEN seqr.seqs[p] ELSE seqr.last[p]
      BY <2>1, <2>3
    <3>2. /\ seqr.last[p] > 0 => seqr.last[p] = Newest.mark[p]
          /\ seqr.last[p] = 0 => cat.mark[p] = Newest.mark[p]
      BY DEF MarkInv
    <3> QED
      BY <2>4, <3>1, <3>2 DEF Pending
  <2> QED
    BY <2>1, <2>3, <2>5, <2>6, <2>7, <2>8, <2>9
<1>4. CASE MakeView \/ Move
  <2>1. PICK w \in Write : flying' = Append(flying, w) /\ w.to.mark = Newest.mark
    BY <1>4, StatementWrites
  <2>2. cat' = cat /\ seqr' = seqr
    BY <1>4 DEF MakeView, Move
  <2>3. /\ \A i \in DOMAIN flying : i \in DOMAIN flying' /\ flying'[i] = flying[i]
        /\ flying'[Len(flying) + 1] = w /\ Newest' = w.to /\ Len(flying) \in Nat
        /\ \A i \in DOMAIN flying' : i \in DOMAIN flying \/ i = Len(flying) + 1
        /\ \A i \in DOMAIN flying : i \in Nat /\ i <= Len(flying)
    BY <2>1, Lengthens
  <2>4. ASSUME NEW p \in Producers, NEW i \in DOMAIN flying'
        PROVE  /\ cat.mark[p] <= flying'[i].to.mark[p]
               /\ \A j \in DOMAIN flying' : i <= j => flying'[i].to.mark[p] <= flying'[j].to.mark[p]
    <3>1. /\ cat.mark[p] <= Newest.mark[p] /\ Newest.mark[p] \in 0 .. MaxSeq
          /\ \A j \in DOMAIN flying : flying[j].to.mark[p] <= Newest.mark[p]
      BY MarkOrder
    <3>2. CASE i \in DOMAIN flying
      <4>1. cat.mark[p] <= flying[i].to.mark[p]
            /\ \A j \in DOMAIN flying : i <= j => flying[i].to.mark[p] <= flying[j].to.mark[p]
        BY <3>2 DEF MarkInv
      <4> QED
        BY <2>1, <2>3, <3>1, <3>2, <4>1
    <3>3. CASE i = Len(flying) + 1
      <4>1. \A j \in DOMAIN flying : ~ (i <= j)
        BY <2>3, <3>3
      <4> QED
        BY <2>1, <2>3, <3>1, <3>3, <4>1
    <3> QED
      BY <2>3, <3>2, <3>3
  <2> QED
    BY <2>1, <2>2, <2>3, <2>4 DEF MarkInv
<1>5. CASE Durable
  <2>1. seqr' = seqr
    BY <1>5 DEF Durable
  <2>2. /\ 1 \in DOMAIN flying /\ cat' = flying[1].to /\ Newest' = Newest
        /\ \A i \in DOMAIN flying' : i + 1 \in DOMAIN flying /\ flying'[i] = flying[i + 1] /\ i \in Nat /\ i >= 1
    BY <1>5, Shortens
  <2>3. ASSUME NEW p \in Producers
        PROVE  seqr.last[p] = 0 => cat'.mark[p] = Newest.mark[p]
    <3>1. /\ flying[1].to.mark[p] <= Newest.mark[p] /\ flying[1].to.mark[p] \in 0 .. MaxSeq
          /\ Newest.mark[p] \in 0 .. MaxSeq
      BY <2>2, MarkOrder
    <3>2. cat.mark[p] <= flying[1].to.mark[p] /\ (seqr.last[p] = 0 => cat.mark[p] = Newest.mark[p])
      BY <2>2 DEF MarkInv
    <3> QED
      BY <2>2, <3>1, <3>2
  <2>4. ASSUME NEW p \in Producers, NEW i \in DOMAIN flying'
        PROVE  cat'.mark[p] <= flying'[i].to.mark[p]
    BY <2>2 DEF MarkInv
  <2>5. ASSUME NEW p \in Producers, NEW i \in DOMAIN flying', NEW j \in DOMAIN flying', i <= j
        PROVE  flying'[i].to.mark[p] <= flying'[j].to.mark[p]
    BY <2>2, <2>5 DEF MarkInv
  <2> QED
    BY <2>1, <2>2, <2>3, <2>4, <2>5 DEF MarkInv
<1>6. ASSUME NEW k \in 0 .. Len(flying), TakeOver(k)
      PROVE  MarkInv'
  <2>1. \A p \in Producers : NoSeqs[p] = 0
    BY DEF NoSeqs, Marked
  <2> QED
    BY <1>6, <2>1, TakenOver DEF MarkInv
<1> QED
  BY <1>1, <1>2, <1>3, <1>4, <1>5, <1>6, NextIs

-----------------------------------------------------------------------------
(* Rows                                                                    *)

\* The newest catalog has exactly the batches up to its marks.
LEMMA NewestExact ==
  ASSUME TypeOK, RowsInv
  PROVE  Exact(Newest)
BY NewestIs DEF RowsInv

\* A batch is its producer and its seq.
LEMMA BatchIs ==
  ASSUME NEW b \in Batches
  PROVE  b[1] \in Producers /\ b[1] \in Marked /\ b[2] \in 1 .. MaxSeq /\ b[2] \in Nat /\ b[2] # 0
BY DEF Batches, Marked

\* Every step keeps that: what is new of a flush is what its producers' marks lacked.
LEMMA RowsStep ==
  ASSUME TypeOK, NumberInv, MarkInv, RowsInv, AckInv, SentInv, [Next]_vars
  PROVE  RowsInv'
<1>1. CASE Quietly
  <2>1. /\ UNCHANGED <<cat, flying>> /\ seqr'.rows = seqr.rows
        /\ \A p \in Producers : seqr'.seqs[p] = seqr.seqs[p]
    BY <1>1, Quiet
  <2>2. Newest' = Newest
    BY <2>1 DEF Newest
  <2>3. \A b \in Batches : Pending(b[1])' = Pending(b[1])
    BY <2>1, <2>2, BatchIs DEF Pending
  <2> QED
    BY <2>1, <2>2, <2>3 DEF RowsInv, Exact, Upto
<1>2. ASSUME NEW f \in Flights, Sequence(f), SequenceRows(f)
      PROVE  RowsInv'
  <2>1. PICK new \in SUBSET Batches :
          /\ new = flight[f].parts \ LeftOut(flight[f].parts)
          /\ UNCHANGED <<cat, flying>> /\ seqr'.last = seqr.last
          /\ \A p \in Producers : seqr'.seqs[p] = IF \E b \in new : b[1] = p THEN Latest(new, p) ELSE seqr.seqs[p]
          /\ \A b \in Batches : seqr'.rows[b] = IF b \in new THEN seqr.rows[b] + 1 ELSE seqr.rows[b]
    BY <1>2, RowsChange
  <2>2. Newest' = Newest /\ new = flight[f].parts \ LeftOut(flight[f].parts)
    BY <2>1 DEF Newest
  <2>3. ASSUME NEW b \in Batches
        PROVE  seqr'.rows[b] = IF Newest.mark[b[1]] < b[2] /\ b[2] <= Pending(b[1])' THEN 1 ELSE 0
    <3>0. PICK p : p = b[1]
      OBVIOUS
    <3>1. /\ p \in Producers /\ b[2] \in Nat
          /\ SeqOf(p) = Pending(p) /\ SeqOf(p) \in 0 .. MaxSeq
          /\ Newest.mark[p] <= SeqOf(p) /\ Newest.mark[p] \in 0 .. MaxSeq
      BY <3>0, BatchIs, SeqIs, MarkOrder
    <3>2. seqr.rows[b] = IF Newest.mark[p] < b[2] /\ b[2] <= Pending(p) THEN 1 ELSE 0
      BY <3>0 DEF RowsInv
    <3>3. seqr'.rows[b] = IF b \in new THEN seqr.rows[b] + 1 ELSE seqr.rows[b]
      BY <2>1
    <3>4. CASE \E c \in new : c[1] = p
      <4>1. /\ Latest(new, p) \in 1 .. MaxSeq /\ SeqOf(p) < Latest(new, p)
            /\ b \in new <=> SeqOf(p) < b[2] /\ b[2] <= Latest(new, p)
        <5>1. /\ Latest(new, p) \in 1 .. MaxSeq /\ SeqOf(p) < Latest(new, p)
              /\ \A c \in Batches : c[1] = p => (c \in new <=> SeqOf(p) < c[2] /\ c[2] <= Latest(new, p))
          BY <2>2, <3>1, <3>4, NewParts
        <5> QED
          BY <3>0, <5>1
      <4>2. Pending(p)' = Latest(new, p)
        <5>1. seqr'.seqs[p] = Latest(new, p)
          BY <2>1, <3>1, <3>4
        <5> QED
          BY <4>1, <5>1 DEF Pending
      <4>3. CASE b \in new
        <5>1. Newest.mark[p] < b[2] /\ b[2] <= Pending(p)' /\ ~ (b[2] <= Pending(p))
          BY <3>1, <4>1, <4>2, <4>3
        <5> QED
          BY <3>0, <3>2, <3>3, <4>3, <5>1
      <4>4. CASE b \notin new
        <5>1. b[2] <= Pending(p) \/ ~ (b[2] <= Pending(p)')
          BY <3>1, <4>1, <4>2, <4>4
        <5>2. b[2] <= Pending(p) => b[2] <= Pending(p)'
          BY <3>1, <4>1, <4>2
        <5> QED
          BY <3>0, <3>2, <3>3, <4>4, <5>1, <5>2
      <4> QED
        BY <4>3, <4>4
    <3>5. CASE ~ \E c \in new : c[1] = p
      <4>1. Pending(p)' = Pending(p)
        BY <2>1, <2>2, <3>1, <3>5 DEF Pending
      <4>2. b \notin new
        BY <3>0, <3>5
      <4> QED
        BY <3>0, <3>2, <3>3, <4>1, <4>2
    <3> QED
      BY <3>4, <3>5
  <2> QED
    BY <2>1, <2>2, <2>3 DEF RowsInv, Exact, Upto
<1>3. CASE Commit
  <2>1. PICK w \in Write :
          /\ flying' = Append(flying, w) /\ seqr'.seqs = NoSeqs /\ seqr'.rows = None
          /\ \A p \in Marked : w.to.mark[p] = Pending(p)
          /\ \A b \in Batches : w.to.rows[b] = Newest.rows[b] + seqr.rows[b]
    BY <1>3, CommitWrites
  <2>2. cat' = cat /\ Newest' = w.to
    BY <1>3, <2>1, Lengthens DEF Commit
  <2>3. Exact(w.to)
    <3> SUFFICES ASSUME NEW b \in Batches
                 PROVE  w.to.rows[b] = IF b[2] <= w.to.mark[b[1]] THEN 1 ELSE 0
      BY DEF Exact, Upto
    <3> DEFINE m == Newest.mark[b[1]]
    <3>1. /\ b[2] \in Nat /\ m \in 0 .. MaxSeq /\ m <= Pending(b[1]) /\ Pending(b[1]) \in 0 .. MaxSeq
          /\ w.to.mark[b[1]] = Pending(b[1])
      BY <2>1, BatchIs, SeqIs, MarkOrder
    <3>2. Newest.rows[b] = IF b[2] <= m THEN 1 ELSE 0
      BY NewestExact DEF Exact, Upto
    <3>3. seqr.rows[b] = IF m < b[2] /\ b[2] <= Pending(b[1]) THEN 1 ELSE 0
      BY DEF RowsInv
    <3>4. w.to.rows[b] = Newest.rows[b] + seqr.rows[b]
      BY <2>1
    <3> HIDE DEF m
    <3> QED
      BY <3>1, <3>2, <3>3, <3>4
  <2>4. \A i \in DOMAIN flying' : Exact(flying'[i].to)
    BY <2>1, <2>3, Lengthens DEF RowsInv
  <2>5. \A b \in Batches : /\ seqr'.rows[b] = 0 /\ Newest'.mark[b[1]] = Pending(b[1])' /\ b[2] \in Nat
                           /\ Newest'.mark[b[1]] \in 0 .. MaxSeq
    <3> TAKE b \in Batches
    <3>1. seqr'.rows[b] = 0 /\ seqr'.seqs[b[1]] = 0 /\ b[2] \in Nat
      BY <2>1, BatchIs DEF None, NoSeqs
    <3>2. Newest'.mark[b[1]] \in 0 .. MaxSeq
      BY <2>1, <2>2, BatchIs, SeqIs
    <3> QED
      BY <3>1, <3>2 DEF Pending
  <2>6. \A b \in Batches : seqr'.rows[b] = IF Newest'.mark[b[1]] < b[2] /\ b[2] <= Pending(b[1])' THEN 1 ELSE 0
    BY <2>5
  <2> QED
    BY <2>2, <2>4, <2>6 DEF RowsInv, Exact, Upto
<1>4. CASE MakeView \/ Move
  <2>1. PICK w \in Write : flying' = Append(flying, w) /\ w.to.mark = Newest.mark /\ w.to.rows = Newest.rows
    BY <1>4, StatementWrites
  <2>2. cat' = cat /\ seqr' = seqr /\ Newest' = w.to
    BY <1>4, <2>1, Lengthens DEF MakeView, Move
  <2>3. Exact(w.to)
    BY <2>1, NewestExact DEF Exact, Upto
  <2>4. \A i \in DOMAIN flying' : Exact(flying'[i].to)
    BY <2>1, <2>3, Lengthens DEF RowsInv
  <2>5. \A b \in Batches : Pending(b[1])' = Pending(b[1]) /\ Newest'.mark[b[1]] = Newest.mark[b[1]]
    BY <2>1, <2>2 DEF Pending
  <2> QED
    BY <2>2, <2>4, <2>5 DEF RowsInv, Exact, Upto
<1>5. CASE Durable
  <2>1. /\ seqr' = seqr /\ Newest' = Newest /\ Exact(cat')
        /\ \A i \in DOMAIN flying' : Exact(flying'[i].to)
    BY <1>5, Shortens DEF Durable, RowsInv
  <2>2. \A b \in Batches : Pending(b[1])' = Pending(b[1])
    BY <2>1 DEF Pending
  <2> QED
    BY <2>1, <2>2 DEF RowsInv, Exact, Upto
<1>6. ASSUME NEW k \in 0 .. Len(flying), TakeOver(k)
      PROVE  RowsInv'
  <2>1. cat' = Kept(k) /\ DOMAIN flying' = {} /\ Newest' = cat' /\ seqr'.seqs = NoSeqs /\ seqr'.rows = None
    BY <1>6, TakenOver
  <2>2. Exact(cat') /\ cat' \in Catalog
    BY <1>6, <2>1, TakenOver, KeptType DEF RowsInv
  <2>3. \A b \in Batches : /\ seqr'.rows[b] = 0 /\ Newest'.mark[b[1]] = Pending(b[1])' /\ b[2] \in Nat
                           /\ Newest'.mark[b[1]] \in 0 .. MaxSeq
    <3> TAKE b \in Batches
    <3>1. seqr'.rows[b] = 0 /\ seqr'.seqs[b[1]] = 0 /\ b[2] \in Nat
      BY <2>1, BatchIs DEF None, NoSeqs
    <3>2. Newest'.mark[b[1]] \in 0 .. MaxSeq
      BY <2>1, <2>2, BatchIs DEF Catalog
    <3> QED
      BY <3>1, <3>2 DEF Pending
  <2>4. \A b \in Batches : seqr'.rows[b] = IF Newest'.mark[b[1]] < b[2] /\ b[2] <= Pending(b[1])' THEN 1 ELSE 0
    BY <2>3
  <2> QED
    BY <2>1, <2>2, <2>4 DEF RowsInv, Exact, Upto
<1> QED
  BY <1>1, <1>2, <1>3, <1>4, <1>5, <1>6, NextIs

-----------------------------------------------------------------------------
(* Places                                                                  *)

\* What is in a sequence that grows by one, or loses its first.
LEMMA AppendHas ==
  ASSUME NEW q \in Seq(Flights), NEW f \in Flights
  PROVE  {Append(q, f)[i] : i \in DOMAIN Append(q, f)} = {q[i] : i \in DOMAIN q} \cup {f}
<1>1. /\ Append(q, f) \in Seq(Flights) /\ Len(Append(q, f)) = Len(q) + 1
      /\ \A i \in 1 .. Len(q) : Append(q, f)[i] = q[i]
      /\ Append(q, f)[Len(q) + 1] = f
  BY AppendProperties
<1>2. DOMAIN q = 1 .. Len(q) /\ DOMAIN Append(q, f) = 1 .. (Len(q) + 1) /\ Len(q) \in Nat
  BY <1>1, LenProperties
<1> QED
  BY <1>1, <1>2

LEMMA TailHas ==
  ASSUME NEW q \in Seq(Flights), q # <<>>
  PROVE  /\ {Tail(q)[i] : i \in DOMAIN Tail(q)} \subseteq {q[i] : i \in DOMAIN q}
         /\ Head(q) \in {q[i] : i \in DOMAIN q}
<1>1. /\ Head(q) = q[1] /\ Tail(q) \in Seq(Flights) /\ Len(Tail(q)) = Len(q) - 1
      /\ \A i \in 1 .. Len(Tail(q)) : Tail(q)[i] = q[i + 1]
  BY HeadTailProperties
<1>2. DOMAIN q = 1 .. Len(q) /\ DOMAIN Tail(q) = 1 .. (Len(q) - 1) /\ Len(q) \in Nat /\ Len(q) # 0
  BY <1>1, LenProperties, EmptySeq
<1> QED
  BY <1>1, <1>2

\* Places are sets of flushes.
LEMMA PlacesType ==
  ASSUME TypeOK
  PROVE  /\ Queue \in SUBSET Flights /\ Todo \in SUBSET Flights /\ seqr.of \in SUBSET Flights
         /\ seqr.queue \in Seq(Flights) /\ seqr.todo \in Seq(Flights)
         /\ \A i \in DOMAIN flying : flying[i].of \in SUBSET Flights
<1>1. seqr.queue \in Seq(Flights) /\ seqr.todo \in Seq(Flights) /\ seqr.of \in SUBSET Flights /\ flying \in Seq(Write)
  BY DEF TypeOK, Sequencer
<1>2. \A i \in DOMAIN flying : flying[i] \in Write
  BY <1>1
<1>3. (\A i \in DOMAIN seqr.queue : seqr.queue[i] \in Flights) /\ \A i \in DOMAIN seqr.todo : seqr.todo[i] \in Flights
  BY <1>1
<1> QED
  BY <1>1, <1>2, <1>3 DEF Queue, Todo, Write

\* Sequencing a flush changes nothing of it but its outcome, and of other flushes nothing.
LEMMA SequenceMoves ==
  ASSUME TypeOK, PlaceInv, NEW f \in Flights, Sequence(f)
  PROVE  /\ UNCHANGED <<cat, flying, cl>>
         /\ Queue' = Queue /\ Todo' \subseteq Todo /\ seqr'.of = seqr.of \cup {f}
         /\ f \in Todo /\ flight[f].step = "queued" /\ \A i \in DOMAIN flying : f \notin flying[i].of
         /\ \A x \in Flights : x # f => flight'[x] = flight[x]
         /\ flight'[f].step = flight[f].step /\ flight'[f].kind = flight[f].kind
         /\ flight'[f].parts = flight[f].parts /\ flight'[f].twice = flight[f].twice
<1>1. f = Head(seqr.todo) /\ seqr.todo \in Seq(Flights) /\ seqr.todo # <<>> /\ seqr \in Sequencer
  BY HeadOfTodo DEF Sequence, TypeOK
<1>2. seqr'.queue = seqr.queue /\ seqr'.todo = Tail(seqr.todo) /\ seqr'.of = seqr.of \cup {f}
  <2>1. CASE SequenceBack(f) \/ SequenceRedone(f)
    BY <1>1, <2>1 DEF SequenceBack, SequenceRedone, Sequencer
  <2>2. CASE SequenceNumber(f)
    BY <1>1, <2>2 DEF SequenceNumber, Sequencer
  <2>3. CASE SequenceFill(f)
    <3>1. \E seqs, shown : seqr' = [seqr EXCEPT !.todo = Tail(@), !.of = @ \cup {f}, !.seqs[Fill] = seqs, !.shown = shown]
      BY <2>3 DEF SequenceFill
    <3> QED
      BY <1>1, <3>1 DEF Sequencer
  <2>4. CASE SequenceRows(f)
    BY <2>4, RowsChange
  <2> QED
    BY <2>1, <2>2, <2>3, <2>4 DEF Sequence
<1>3. Queue' = Queue /\ Todo' \subseteq Todo /\ f \in Todo
  BY <1>1, <1>2, TailHas DEF Queue, Todo
<1>4. flight[f].step = "queued" /\ \A i \in DOMAIN flying : f \notin flying[i].of
  BY <1>3 DEF PlaceInv
<1>5. flight' = flight \/ \E ok, again : Answered(f, ok, again)
  <2>1. CASE SequenceBack(f) \/ SequenceRedone(f)
    BY <2>1 DEF SequenceBack, SequenceRedone
  <2>2. CASE SequenceRows(f)
    BY <2>2 DEF SequenceRows
  <2>3. CASE SequenceNumber(f) \/ SequenceFill(f)
    BY <2>3 DEF SequenceNumber, SequenceFill
  <2> QED
    BY <2>1, <2>2, <2>3 DEF Sequence
<1>6. flight \in [Flights -> Flush] /\ flight[f] \in Flush
  BY DEF TypeOK
<1>7. /\ \A x \in Flights : x # f => flight'[x] = flight[x]
      /\ flight'[f].step = flight[f].step /\ flight'[f].kind = flight[f].kind
      /\ flight'[f].parts = flight[f].parts /\ flight'[f].twice = flight[f].twice
  <2>1. CASE flight' = flight
    BY <2>1
  <2>2. ASSUME NEW ok, NEW again, Answered(f, ok, again)
        PROVE  /\ \A x \in Flights : x # f => flight'[x] = flight[x]
               /\ flight'[f] = [flight[f] EXCEPT !.ok = ok, !.again = again]
    BY <1>6, <2>2 DEF Answered, Flush
  <2>3. ASSUME NEW ok, NEW again, Answered(f, ok, again)
        PROVE  /\ flight'[f].step = flight[f].step /\ flight'[f].kind = flight[f].kind
               /\ flight'[f].parts = flight[f].parts /\ flight'[f].twice = flight[f].twice
    BY <1>6, <2>2, <2>3 DEF Flush
  <2> QED
    BY <1>5, <2>1, <2>2, <2>3
<1> QED
  BY <1>2, <1>3, <1>4, <1>7 DEF Sequence

\* A flush of a statement's waits in the sequencer's queue.
LEMMA StatementQueues ==
  ASSUME TypeOK, NEW f \in Flights, AskForEnd(f) \/ FillView(f) \/ Hold(f)
  PROVE  /\ UNCHANGED <<cat, flying, cl>> /\ seqr' = [seqr EXCEPT !.queue = Append(@, f)]
         /\ flight[f].step = "free" /\ \A x \in Flights : x # f => flight'[x] = flight[x]
         /\ flight'[f].step = "queued" /\ flight'[f].kind \notin Kinds
         /\ flight'[f].ok = {} /\ flight'[f].parts = {} /\ flight'[f].twice = {} /\ flight'[f].again = {}
<1>1. PICK g \in Flush : /\ Submit(f, g) /\ g.kind \notin Kinds
                         /\ g.ok = {} /\ g.parts = {} /\ g.twice = {} /\ g.again = {}
  BY StatementSubmits
<1> DEFINE h == [g EXCEPT !.step = "queued"]
<1>2. /\ h.step = "queued" /\ h.kind \notin Kinds
      /\ h.ok = {} /\ h.parts = {} /\ h.twice = {} /\ h.again = {}
  BY <1>1 DEF Flush
<1>3. flight' = [flight EXCEPT ![f] = h] /\ seqr' = [seqr EXCEPT !.queue = Append(@, f)] /\ flight[f].step = "free"
  BY <1>1 DEF Submit
<1> HIDE DEF h
<1>4. flight \in [Flights -> Flush]
  BY DEF TypeOK
<1>5. UNCHANGED <<cat, flying, cl>>
  BY DEF AskForEnd, FillView, Hold
<1> QED
  BY <1>2, <1>3, <1>4, <1>5

\* A flush stays in one place, from its arrival to its answer.
LEMMA PlaceStep ==
  ASSUME TypeOK, NumberInv, PlaceInv, [Next]_vars
  PROVE  PlaceInv'
<1> USE PlacesType
<1>1. seqr \in Sequencer /\ flight \in [Flights -> Flush]
  BY DEF TypeOK
<1>2. CASE \/ \E p \in Producers : Produce(p)
           \/ ReadViews \/ ForgetViews \/ ToFiles \/ Release \/ UNCHANGED vars
  <2>1. /\ UNCHANGED <<flying, flight>>
        /\ seqr'.queue = seqr.queue /\ seqr'.todo = seqr.todo /\ seqr'.of = seqr.of
    BY <1>1, <1>2, ZenonT(60) DEF Produce, ReadViews, ForgetViews, ToFiles, Release, vars, Sequencer
  <2>2. Queue' = Queue /\ Todo' = Todo
    BY <2>1 DEF Queue, Todo
  <2> QED
    BY <2>1, <2>2 DEF PlaceInv
<1>3. ASSUME NEW f \in Flights, Pack(f) \/ Lose(f) \/ Hear(f)
      PROVE  PlaceInv'
  <2>1. /\ UNCHANGED <<flying, seqr>> /\ flight[f].step # "queued"
        /\ \A x \in Flights : x # f => flight'[x] = flight[x]
    BY <1>1, <1>3 DEF Pack, Lose, Hear
  <2>2. Queue' = Queue /\ Todo' = Todo
    BY <2>1 DEF Queue, Todo
  <2>3. \A x \in Flights : flight[x].step = "queued" => flight'[x].step = "queued"
    BY <2>1
  <2> QED
    BY <2>1, <2>2, <2>3 DEF PlaceInv
<1>4. ASSUME NEW f \in Flights, Arrive(f) \/ AskForEnd(f) \/ FillView(f) \/ Hold(f)
      PROVE  PlaceInv'
  <2>1. /\ UNCHANGED flying /\ seqr' = [seqr EXCEPT !.queue = Append(@, f)]
        /\ flight[f].step # "queued" /\ flight'[f].step = "queued"
        /\ \A x \in Flights : x # f => flight'[x] = flight[x]
    <3>1. CASE Arrive(f)
      <4>1. [flight[f] EXCEPT !.step = "queued"].step = "queued"
        BY <1>1 DEF Flush
      <4> QED
        BY <1>1, <3>1, <4>1 DEF Arrive
    <3> QED
      BY <1>4, <3>1, StatementQueues
  <2>2. seqr'.queue = Append(seqr.queue, f) /\ seqr'.todo = seqr.todo /\ seqr'.of = seqr.of
    BY <1>1, <2>1 DEF Sequencer
  <2>3. Queue' = Queue \cup {f} /\ Todo' = Todo
    <3>1. Todo' = Todo
      BY <2>2 DEF Todo
    <3>2. {Append(seqr.queue, f)[i] : i \in DOMAIN Append(seqr.queue, f)} = Queue \cup {f}
      BY AppendHas DEF Queue
    <3>3. Queue' = {Append(seqr.queue, f)[i] : i \in DOMAIN Append(seqr.queue, f)}
      BY <2>2 DEF Queue
    <3> QED
      BY <3>1, <3>2, <3>3
  <2>4. \A x \in Flights : flight[x].step = "queued" => flight'[x].step = "queued"
    BY <2>1
  <2>5. f \notin Todo \cup seqr.of /\ \A i \in DOMAIN flying : f \notin flying[i].of
    BY <2>1 DEF PlaceInv
  <2> QED
    BY <2>1, <2>2, <2>3, <2>4, <2>5 DEF PlaceInv
<1>5. CASE Open
  <2>1. /\ UNCHANGED <<flying, flight>>
        /\ seqr'.queue = <<>> /\ seqr'.todo = seqr.queue /\ seqr'.of = seqr.of
    BY <1>1, <1>5 DEF Open, Sequencer
  <2>2. Queue' = {} /\ Todo' = Queue
    BY <2>1 DEF Queue, Todo
  <2> QED
    BY <2>1, <2>2 DEF PlaceInv
<1>6. ASSUME NEW f \in Flights, Sequence(f)
      PROVE  PlaceInv'
  <2>1. /\ flying' = flying /\ Queue' = Queue /\ Todo' \subseteq Todo /\ seqr'.of = seqr.of \cup {f} /\ f \in Todo
        /\ \A x \in Flights : flight'[x].step = flight[x].step
    BY <1>6, SequenceMoves
  <2> QED
    BY <2>1 DEF PlaceInv
<1>7. CASE Commit
  <2>1. PICK w \in Write : /\ flying' = Append(flying, w) /\ w.of = seqr.of
                           /\ seqr'.queue = seqr.queue /\ seqr'.todo = <<>> /\ seqr'.of = {}
    BY <1>7, CommitWrites
  <2>2. Queue' = Queue /\ Todo' = {} /\ flight' = flight
    BY <1>7, <2>1 DEF Queue, Todo, Commit
  <2>3. \A i \in DOMAIN flying' : /\ i \in DOMAIN flying => flying'[i].of = flying[i].of
                                  /\ i \notin DOMAIN flying => flying'[i].of = seqr.of /\ i = Len(flying) + 1
    BY <2>1, Lengthens
  <2>4. \A i, j \in DOMAIN flying' : i # j => flying'[i].of \cap flying'[j].of = {}
    BY <2>3 DEF PlaceInv
  <2>5. \A i \in DOMAIN flying' : flying'[i].of \cap Queue = {}
    BY <2>3 DEF PlaceInv
  <2>6. \A i \in DOMAIN flying' : \A f \in flying'[i].of : flight[f].step = "queued"
    BY <2>3 DEF PlaceInv
  <2> QED
    BY <2>1, <2>2, <2>4, <2>5, <2>6 DEF PlaceInv
<1>8. CASE MakeView \/ Move
  <2>1. PICK w \in Write : flying' = Append(flying, w) /\ w.of = {}
    BY <1>8, StatementWrites
  <2>2. Queue' = Queue /\ Todo' = Todo /\ seqr' = seqr /\ flight' = flight
    BY <1>8 DEF Queue, Todo, MakeView, Move
  <2>3. \A i \in DOMAIN flying' : /\ i \in DOMAIN flying => flying'[i].of = flying[i].of
                                  /\ i \notin DOMAIN flying => flying'[i].of = {}
    BY <2>1, Lengthens
  <2>4. \A i, j \in DOMAIN flying' : i # j => flying'[i].of \cap flying'[j].of = {}
    BY <2>3 DEF PlaceInv
  <2>5. \A i \in DOMAIN flying' : flying'[i].of \cap (Queue \cup Todo \cup seqr.of) = {}
    BY <2>3 DEF PlaceInv
  <2>6. \A i \in DOMAIN flying' : \A f \in flying'[i].of : flight[f].step = "queued"
    BY <2>3 DEF PlaceInv
  <2> QED
    BY <2>2, <2>4, <2>5, <2>6 DEF PlaceInv
<1>9. CASE Durable
  <2>1. /\ 1 \in DOMAIN flying /\ flying[1] = Head(flying)
        /\ \A i \in DOMAIN flying' : i + 1 \in DOMAIN flying /\ flying'[i] = flying[i + 1] /\ i \in Nat /\ i >= 1
    BY <1>9, Shortens
  <2>2. Queue' = Queue /\ Todo' = Todo /\ seqr' = seqr
    BY <1>9 DEF Queue, Todo, Durable
  <2>3. \A f \in Flights : f \notin flying[1].of => flight'[f] = flight[f]
    BY <1>1, <1>9, <2>1 DEF Durable
  <2>4. \A i \in DOMAIN flying' : i + 1 # 1 /\ flying'[i].of \cap flying[1].of = {} /\ flying'[i].of \in SUBSET Flights
    BY <2>1 DEF PlaceInv
  <2>5. \A i, j \in DOMAIN flying' : i # j => flying'[i].of \cap flying'[j].of = {}
    <3> TAKE i, j \in DOMAIN flying'
    <3> HAVE i # j
    <3>1. i + 1 # j + 1
      BY <2>1
    <3> QED
      BY <2>1, <3>1 DEF PlaceInv
  <2>6. \A i \in DOMAIN flying' : flying'[i].of \cap (Queue \cup Todo \cup seqr.of) = {}
    BY <2>1 DEF PlaceInv
  <2>7. \A i \in DOMAIN flying' : \A f \in flying'[i].of : flight'[f].step = "queued"
    BY <2>1, <2>3, <2>4 DEF PlaceInv
  <2>8. \A f \in Queue \cup Todo \cup seqr.of : flight'[f].step = "queued"
    BY <2>1, <2>3 DEF PlaceInv
  <2> QED
    BY <2>2, <2>5, <2>6, <2>7, <2>8 DEF PlaceInv
<1>10. ASSUME NEW k \in 0 .. Len(flying), TakeOver(k)
       PROVE  PlaceInv'
  <2>1. DOMAIN flying' = {} /\ seqr'.queue = <<>> /\ seqr'.todo = <<>> /\ seqr'.of = {}
    BY <1>10, TakenOver
  <2>2. Queue' = {} /\ Todo' = {}
    BY <2>1 DEF Queue, Todo
  <2> QED
    BY <2>1, <2>2 DEF PlaceInv
<1> QED
  BY <1>2, <1>3, <1>4, <1>5, <1>6, <1>7, <1>8, <1>9, <1>10 DEF Next

-----------------------------------------------------------------------------
(* Answers                                                                 *)

\* The steps of the sequencer never move a producer back.
LEMMA PendingGrows ==
  ASSUME TypeOK, NumberInv, MarkInv, AckInv, SentInv, NEW f \in Flights, Sequence(f), NEW p \in Producers
  PROVE  Pending(p) <= Pending(p)' /\ Pending(p) \in 0 .. MaxSeq /\ Pending(p)' \in Int
<1>1. Pending(p) = SeqOf(p) /\ Pending(p) \in 0 .. MaxSeq
  BY SeqIs
<1>2. CASE ~ SequenceRows(f)
  <2>1. Quietly
    BY <1>2 DEF Sequence, Quietly
  <2>2. UNCHANGED <<cat, flying>> /\ seqr'.seqs[p] = seqr.seqs[p]
    BY <2>1, Quiet
  <2>3. Pending(p)' = Pending(p)
    BY <2>2 DEF Pending, Newest
  <2> QED
    BY <1>1, <2>3
<1>3. CASE SequenceRows(f)
  <2>1. PICK new \in SUBSET Batches :
          /\ new = flight[f].parts \ LeftOut(flight[f].parts)
          /\ UNCHANGED <<cat, flying>>
          /\ \A q \in Producers : seqr'.seqs[q] = IF \E b \in new : b[1] = q THEN Latest(new, q) ELSE seqr.seqs[q]
    BY <1>3, RowsChange
  <2>2. Newest' = Newest
    BY <2>1 DEF Newest
  <2>3. CASE \E b \in new : b[1] = p
    <3>1. Latest(new, p) \in 1 .. MaxSeq /\ SeqOf(p) < Latest(new, p)
      BY <2>1, <2>3, NewParts
    <3>2. Pending(p)' = Latest(new, p)
      <4>1. seqr'.seqs[p] = Latest(new, p)
        BY <2>1, <2>3
      <4> QED
        BY <3>1, <4>1 DEF Pending
    <3> QED
      BY <1>1, <3>1, <3>2
  <2>4. CASE ~ \E b \in new : b[1] = p
    <3>1. Pending(p)' = Pending(p)
      BY <2>1, <2>2, <2>4 DEF Pending
    <3> QED
      BY <1>1, <3>1
  <2> QED
    BY <2>3, <2>4
<1> QED
  BY <1>2, <1>3

\* What a flush is answered: its producers are past what is committed of it.
LEMMA Outcome ==
  ASSUME TypeOK, NumberInv, PlaceInv, MarkInv, AckInv, SentInv, NEW f \in Flights, Sequence(f)
  PROVE  /\ \A b \in flight'[f].ok : b \in Batches /\ b[2] <= Pending(b[1])'
         /\ flight[f].kind \notin Kinds => flight'[f].ok = {}
         /\ flight'[f].again \subseteq flight[f].parts \cup flight[f].again
<1> DEFINE parts == flight[f].parts
<1>1. flight \in [Flights -> Flush] /\ flight[f] \in Flush /\ parts \in SUBSET Batches
  BY DEF TypeOK, Flush
<1>2. \A b \in Retries(f) : b \in Batches /\ b[2] <= Pending(b[1])'
  <2> TAKE b \in Retries(f)
  <2>1. b \in Had(parts)
    BY DEF Retries, SentInv
  <2>2. b \in Batches /\ b[2] <= SeqOf(b[1])
    BY <1>1, <2>1 DEF Had
  <2>3. b[1] \in Producers /\ b[2] \in Nat
    BY <2>2, BatchIs
  <2>4. SeqOf(b[1]) = Pending(b[1]) /\ Pending(b[1]) <= Pending(b[1])' /\ Pending(b[1]) \in 0 .. MaxSeq /\ Pending(b[1])' \in Int
    BY <2>3, SeqIs, PendingGrows
  <2> QED
    BY <2>2, <2>3, <2>4
<1>3. \A ok, again : Answered(f, ok, again) => flight'[f].ok = ok /\ flight'[f].again = again
  <2> TAKE ok, again
  <2> HAVE Answered(f, ok, again)
  <2>1. flight'[f] = [flight[f] EXCEPT !.ok = ok, !.again = again]
    BY <1>1 DEF Answered, Flush
  <2> QED
    BY <1>1, <2>1 DEF Flush
<1>4. CASE SequenceBack(f)
  <2>1. flight'[f].ok = {} /\ flight'[f].again = parts /\ flight[f].kind \in Kinds
    BY <1>3, <1>4 DEF SequenceBack
  <2> QED
    BY <2>1
<1>5. CASE SequenceRedone(f)
  <2>1. flight'[f].ok = Retries(f) /\ flight'[f].again = parts \ LeftOut(parts) /\ flight[f].kind \in Kinds
    BY <1>3, <1>5 DEF SequenceRedone
  <2> QED
    BY <1>2, <2>1
<1>6. CASE SequenceRows(f)
  <2>1. PICK new \in SUBSET Batches :
          /\ new = flight[f].parts \ LeftOut(flight[f].parts)
          /\ \A q \in Producers : seqr'.seqs[q] = IF \E b \in new : b[1] = q THEN Latest(new, q) ELSE seqr.seqs[q]
    BY <1>6, RowsChange, SMTT(60)
  <2>2. flight'[f].ok = new \cup Retries(f) /\ flight'[f].again = {} /\ flight[f].kind \in Kinds
    BY <1>3, <1>6, <2>1 DEF SequenceRows
  <2>3. \A b \in new : b[2] <= Pending(b[1])'
    <3> TAKE b \in new
    <3>1. b[1] \in Producers
      BY BatchIs
    <3>2. /\ Latest(new, b[1]) \in 1 .. MaxSeq /\ b[2] <= Latest(new, b[1])
      BY LatestIs
    <3>3. seqr'.seqs[b[1]] = Latest(new, b[1])
      BY <2>1, <3>1
    <3> QED
      BY <3>2, <3>3 DEF Pending
  <2> QED
    BY <1>2, <2>2, <2>3
<1>7. CASE SequenceNumber(f) \/ SequenceFill(f)
  <2>1. flight' = flight /\ flight[f].kind \notin Kinds
    BY <1>7, KindsAssumption DEF SequenceNumber, SequenceFill
  <2>2. flight'[f].ok = {}
    BY <2>1 DEF AckInv
  <2> QED
    BY <2>1, <2>2
<1> QED
  BY <1>4, <1>5, <1>6, <1>7 DEF Sequence

\* What was answered, over steps that write nothing and leave the sequencer's commit as it is.
LEMMA AnswersStay ==
  ASSUME TypeOK, AckInv, UNCHANGED <<cat, flying>>, seqr'.of = seqr.of,
         \A p \in Producers : seqr'.seqs[p] = seqr.seqs[p],
         \A b \in cl'.acked : Upto(b, cat.mark),
         \A f \in Flights :
             \/ flight'[f].ok = {}
             \/ /\ flight'[f].ok = flight[f].ok /\ flight'[f].kind = flight[f].kind
                /\ flight'[f].step = "answered" => flight[f].step = "answered"
  PROVE  AckInv'
<1>1. Newest' = Newest
  BY DEF Newest
<1>2. \A f \in Flights : flight[f].ok \in SUBSET Batches
  BY DEF TypeOK, Flush
<1>3. \A b \in Batches : Pending(b[1])' = Pending(b[1])
  BY <1>1, BatchIs DEF Pending
<1>4. \A f \in Flights : \A b \in flight'[f].ok : b \in flight[f].ok /\ b \in Batches
  BY <1>2
<1> QED
  BY <1>3, <1>4, PlacesType DEF AckInv, Upto

\* A flush a node packs, and one whose answer it heard.
LEMMA PackWrites ==
  ASSUME NEW f \in Flights, Pack(f)
  PROVE  \E g : /\ flight' = [flight EXCEPT ![f] = g] /\ g.ok = {} /\ g.again = {} /\ g.parts \subseteq Unacked
                /\ ~Twins => g.twice = {}
<1>1. PICK parts \in (SUBSET Unacked) \ {{}}, kind \in Kinds, derived \in Derives :
        \E twice \in IF Twins THEN SUBSET parts ELSE {{}} :
            flight' = [flight EXCEPT ![f] = [NoFlush EXCEPT
                !.step = "sent", !.kind = kind, !.parts = parts, !.twice = twice, !.derived = derived]]
  BY DEF Pack
<1>2. PICK twice \in IF Twins THEN SUBSET parts ELSE {{}} :
            flight' = [flight EXCEPT ![f] = [NoFlush EXCEPT
                !.step = "sent", !.kind = kind, !.parts = parts, !.twice = twice, !.derived = derived]]
  BY <1>1
<1> DEFINE g == [NoFlush EXCEPT !.step = "sent", !.kind = kind, !.parts = parts, !.twice = twice, !.derived = derived]
<1>3. g.ok = {} /\ g.again = {} /\ g.parts = parts /\ g.twice = twice
  BY DEF NoFlush
<1>4. flight' = [flight EXCEPT ![f] = g]
  BY <1>2
<1> HIDE DEF g
<1> QED
  BY <1>3, <1>4

LEMMA HearWrites ==
  ASSUME NEW f \in Flights, Hear(f)
  PROVE  \E g : /\ flight' = [flight EXCEPT ![f] = g] /\ g.ok = {} /\ g.again = {} /\ g.twice = {}
                /\ g.parts \subseteq flight[f].again
<1>1. CASE flight' = [flight EXCEPT ![f] = NoFlush]
  <2>1. /\ NoFlush.ok = {} /\ NoFlush.again = {} /\ NoFlush.twice = {}
        /\ NoFlush.parts \subseteq flight[f].again
    BY DEF NoFlush
  <2> QED
    BY <1>1, <2>1
<1>2. ASSUME NEW derived \in Derives,
             flight' = [flight EXCEPT ![f] = [NoFlush EXCEPT !.step = "sent",
                !.kind = flight[f].kind, !.parts = flight[f].again, !.derived = derived]]
      PROVE  \E g : /\ flight' = [flight EXCEPT ![f] = g] /\ g.ok = {} /\ g.again = {} /\ g.twice = {}
                    /\ g.parts \subseteq flight[f].again
  <2> DEFINE g == [NoFlush EXCEPT !.step = "sent", !.kind = flight[f].kind,
                                  !.parts = flight[f].again, !.derived = derived]
  <2>1. g.ok = {} /\ g.again = {} /\ g.twice = {} /\ g.parts = flight[f].again
    BY DEF NoFlush
  <2>2. flight' = [flight EXCEPT ![f] = g]
    BY <1>2
  <2> HIDE DEF g
  <2> QED
    BY <2>1, <2>2
<1>3. \/ flight' = [flight EXCEPT ![f] = NoFlush]
      \/ \E derived \in Derives :
            flight' = [flight EXCEPT ![f] = [NoFlush EXCEPT !.step = "sent",
                !.kind = flight[f].kind, !.parts = flight[f].again, !.derived = derived]]
  BY DEF Hear
<1> QED
  BY <1>1, <1>2, <1>3

\* What a flush becomes that a node packs, loses, hears of or sends, or that a takeover reaches.
LEMMA ClientFlush ==
  ASSUME TypeOK, NEW f \in Flights, Pack(f) \/ Arrive(f) \/ Lose(f) \/ Hear(f)
  PROVE  /\ UNCHANGED <<cat, flying>> /\ seqr'.of = seqr.of /\ seqr'.seqs = seqr.seqs
         /\ \A x \in Flights : x # f => flight'[x] = flight[x]
         /\ \/ flight'[f].ok = {}
            \/ flight'[f].ok = flight[f].ok /\ flight'[f].kind = flight[f].kind /\ flight'[f].step = "queued"
<1>1. seqr \in Sequencer /\ flight \in [Flights -> Flush] /\ flight[f] \in Flush
  BY DEF TypeOK
<1>2. CASE Pack(f)
  <2>1. PICK g : flight' = [flight EXCEPT ![f] = g] /\ g.ok = {}
    BY <1>2, PackWrites
  <2> QED
    BY <1>1, <1>2, <2>1 DEF Pack
<1>3. CASE Arrive(f)
  <2>1. flight'[f] = [flight[f] EXCEPT !.step = "queued"] /\ seqr'.of = seqr.of /\ seqr'.seqs = seqr.seqs
    BY <1>1, <1>3 DEF Arrive, Sequencer
  <2> QED
    BY <1>1, <1>3, <2>1 DEF Arrive, Flush
<1>4. CASE Lose(f)
  BY <1>1, <1>4 DEF Lose, NoFlush
<1>5. CASE Hear(f)
  <2>1. PICK g : flight' = [flight EXCEPT ![f] = g] /\ g.ok = {}
    BY <1>5, HearWrites
  <2> QED
    BY <1>1, <1>5, <2>1 DEF Hear
<1> QED
  BY <1>2, <1>3, <1>4, <1>5

\* What is answered stays true of the catalog the answer's commit leads to.
LEMMA AckStep ==
  ASSUME TypeOK, NumberInv, PlaceInv, MarkInv, AckInv, SentInv, [Next]_vars
  PROVE  AckInv'
<1> USE PlacesType
<1>1. /\ seqr \in Sequencer /\ flight \in [Flights -> Flush] /\ cl.acked \in SUBSET Batches
      /\ \A f \in Flights : flight[f].ok \in SUBSET Batches
  BY DEF TypeOK, Flush
<1>2. CASE \/ \E p \in Producers : Produce(p)
           \/ ReadViews \/ Open \/ ForgetViews \/ ToFiles \/ Release \/ UNCHANGED vars
  <2>1. /\ UNCHANGED <<cat, flying, flight>> /\ seqr'.of = seqr.of /\ seqr'.seqs = seqr.seqs /\ cl'.acked = cl.acked
    BY <1>1, <1>2, ZenonT(60) DEF Produce, ReadViews, Open, ForgetViews, ToFiles, Release, vars, Sequencer, TypeOK
  <2> QED
    BY <2>1, AnswersStay DEF AckInv
<1>3. ASSUME NEW f \in Flights, Pack(f) \/ Arrive(f) \/ Lose(f) \/ Hear(f)
      PROVE  AckInv'
  <2>1. cl'.acked \subseteq cl.acked \cup (IF flight[f].step = "answered" THEN flight[f].ok ELSE {})
    <3>1. CASE Hear(f)
      <4>1. cl'.acked = cl.acked \cup flight[f].ok /\ flight[f].step = "answered"
        BY <3>1 DEF Hear, TypeOK
      <4> QED
        BY <4>1
    <3>2. CASE Pack(f) \/ Arrive(f) \/ Lose(f)
      BY <3>2 DEF Pack, Arrive, Lose
    <3> QED
      BY <1>3, <3>1, <3>2
  <2>2. \A b \in cl'.acked : Upto(b, cat.mark)
    BY <2>1 DEF AckInv
  <2>3. \A x \in Flights :
          \/ flight'[x].ok = {}
          \/ /\ flight'[x].ok = flight[x].ok /\ flight'[x].kind = flight[x].kind
             /\ flight'[x].step = "answered" => flight[x].step = "answered"
    BY <1>3, ClientFlush
  <2> QED
    BY <1>3, <2>2, <2>3, ClientFlush, AnswersStay
<1>4. ASSUME NEW f \in Flights, AskForEnd(f) \/ FillView(f) \/ Hold(f)
      PROVE  AckInv'
  <2>1. /\ UNCHANGED <<cat, flying, cl>> /\ seqr' = [seqr EXCEPT !.queue = Append(@, f)]
        /\ \A x \in Flights : x # f => flight'[x] = flight[x]
        /\ flight'[f].ok = {}
    BY <1>4, StatementQueues
  <2>2. seqr'.of = seqr.of /\ seqr'.seqs = seqr.seqs
    BY <1>1, <2>1 DEF Sequencer
  <2>3. \A b \in cl'.acked : Upto(b, cat.mark)
    BY <2>1 DEF AckInv
  <2> QED
    BY <2>1, <2>2, <2>3, AnswersStay
<1>5. ASSUME NEW f \in Flights, Sequence(f)
      PROVE  AckInv'
  <2>1. /\ UNCHANGED <<cat, flying, cl>> /\ seqr'.of = seqr.of \cup {f}
        /\ flight[f].step = "queued" /\ \A i \in DOMAIN flying : f \notin flying[i].of
        /\ \A x \in Flights : x # f => flight'[x] = flight[x]
        /\ flight'[f].step = flight[f].step /\ flight'[f].kind = flight[f].kind
    BY <1>5, SequenceMoves
  <2>2. /\ \A b \in flight'[f].ok : b[2] <= Pending(b[1])'
        /\ flight[f].kind \notin Kinds => flight'[f].ok = {}
    BY <1>5, Outcome
  <2>3. \A x \in seqr'.of : \A b \in flight'[x].ok : b[2] <= Pending(b[1])'
    <3> SUFFICES ASSUME NEW x \in seqr.of, x # f, NEW b \in flight[x].ok
                 PROVE  b[2] <= Pending(b[1])'
      BY <2>1, <2>2
    <3>1. b[2] <= Pending(b[1])
      BY DEF AckInv
    <3>2. b \in Batches
      BY <1>1
    <3>3. b[1] \in Producers /\ b[2] \in Nat
      BY <3>2, BatchIs
    <3>4. Pending(b[1]) <= Pending(b[1])' /\ Pending(b[1]) \in 0 .. MaxSeq /\ Pending(b[1])' \in Int
      BY <1>5, <3>3, PendingGrows
    <3> QED
      BY <3>1, <3>3, <3>4
  <2>4. \A x \in Flights : flight'[x].step = "answered" => \A b \in flight'[x].ok : Upto(b, cat.mark)
    BY <2>1 DEF AckInv
  <2>5. \A i \in DOMAIN flying : \A x \in flying[i].of : \A b \in flight'[x].ok : Upto(b, flying[i].to.mark)
    BY <2>1 DEF AckInv
  <2>6. \A x \in Flights : flight'[x].kind \notin Kinds => flight'[x].ok = {}
    BY <2>1, <2>2 DEF AckInv
  <2>7. \A b \in cl.acked : Upto(b, cat.mark)
    BY DEF AckInv
  <2> QED
    BY <2>1, <2>3, <2>4, <2>5, <2>6, <2>7 DEF AckInv, Upto
<1>6. CASE Commit
  <2>1. PICK w \in Write : /\ flying' = Append(flying, w) /\ w.of = seqr.of /\ seqr'.of = {}
                           /\ \A p \in Marked : w.to.mark[p] = Pending(p)
    BY <1>6, CommitWrites
  <2>2. UNCHANGED <<cat, flight, cl>>
    BY <1>6 DEF Commit
  <2>3. \A f \in w.of : \A b \in flight[f].ok : Upto(b, w.to.mark)
    <3> TAKE f \in w.of
    <3> TAKE b \in flight[f].ok
    <3>1. b[2] <= Pending(b[1])
      BY <2>1 DEF AckInv
    <3>2. b \in Batches
      BY <1>1, <2>1
    <3>3. b[1] \in Marked
      BY <3>2, BatchIs
    <3> QED
      BY <2>1, <3>1, <3>3 DEF Upto
  <2>4. \A i \in DOMAIN flying' : \A f \in flying'[i].of : \A b \in flight[f].ok : Upto(b, flying'[i].to.mark)
    BY <2>1, <2>3, Lengthens DEF AckInv
  <2> QED
    BY <2>1, <2>2, <2>4 DEF AckInv, Upto
<1>7. CASE MakeView \/ Move
  <2>1. PICK w \in Write : flying' = Append(flying, w) /\ w.of = {} /\ w.to.mark = Newest.mark
    BY <1>7, StatementWrites
  <2>2. UNCHANGED <<cat, flight, cl, seqr>> /\ Newest' = w.to
    BY <1>7, <2>1, Lengthens DEF MakeView, Move
  <2>3. \A i \in DOMAIN flying' : \A f \in flying'[i].of : \A b \in flight[f].ok : Upto(b, flying'[i].to.mark)
    BY <2>1, Lengthens DEF AckInv
  <2>4. \A f \in seqr.of : \A b \in flight[f].ok : Pending(b[1])' = Pending(b[1])
    BY <2>1, <2>2 DEF Pending
  <2> QED
    BY <2>2, <2>3, <2>4 DEF AckInv, Upto
<1>8. CASE Durable
  <2>1. /\ 1 \in DOMAIN flying /\ flying[1] = Head(flying) /\ cat' = flying[1].to /\ Newest' = Newest
        /\ \A i \in DOMAIN flying' : i + 1 \in DOMAIN flying /\ flying'[i] = flying[i + 1]
    BY <1>8, Shortens
  <2>2. UNCHANGED <<seqr, cl>>
    BY <1>8 DEF Durable
  <2>3. \A f \in Flights : flight'[f].ok = flight[f].ok /\ flight'[f].kind = flight[f].kind
                           /\ (f \notin flying[1].of => flight'[f] = flight[f])
    <3>1. \A f \in Flights : flight'[f] = [flight[f] EXCEPT !.step = "answered"] \/ flight'[f] = flight[f]
      BY <1>1, <1>8 DEF Durable
    <3>2. \A f \in Flights : flight[f] \in Flush
      BY <1>1
    <3>3. \A f \in Flights : flight'[f].ok = flight[f].ok /\ flight'[f].kind = flight[f].kind
      BY <3>1, <3>2 DEF Flush
    <3>4. \A f \in Flights : f \notin flying[1].of => flight'[f] = flight[f]
      BY <1>1, <1>8, <2>1 DEF Durable
    <3> QED
      BY <3>3, <3>4
  <2>4. \A b \in Batches : Upto(b, cat.mark) => Upto(b, cat'.mark)
    <3> TAKE b \in Batches
    <3>1. b[1] \in Producers /\ b[2] \in Nat
      BY BatchIs
    <3>2. cat.mark[b[1]] <= flying[1].to.mark[b[1]]
      BY <2>1, <3>1 DEF MarkInv
    <3>3. cat.mark[b[1]] \in 0 .. MaxSeq /\ flying[1].to.mark[b[1]] \in 0 .. MaxSeq
      BY <2>1, <3>1, MarkOrder
    <3> QED
      BY <2>1, <3>1, <3>2, <3>3 DEF Upto
  <2>5. \A b \in cl.acked : Upto(b, cat'.mark)
    BY <1>1, <2>4 DEF AckInv
  <2>6. \A f \in Flights : flight'[f].step = "answered" => \A b \in flight'[f].ok : Upto(b, cat'.mark)
    <3> TAKE f \in Flights
    <3>1. CASE f \in flying[1].of
      BY <2>1, <2>3, <3>1 DEF AckInv
    <3>2. CASE f \notin flying[1].of
      BY <1>1, <2>3, <2>4, <3>2 DEF AckInv
    <3> QED
      BY <3>1, <3>2
  <2>7. \A i \in DOMAIN flying' : \A f \in flying'[i].of : \A b \in flight'[f].ok : Upto(b, flying'[i].to.mark)
    BY <2>1, <2>3 DEF AckInv
  <2>8. \A f \in seqr.of : \A b \in flight'[f].ok : b[2] <= Pending(b[1])'
    BY <2>1, <2>2, <2>3 DEF AckInv, Pending
  <2>9. \A f \in Flights : flight'[f].kind \notin Kinds => flight'[f].ok = {}
    BY <2>3 DEF AckInv
  <2> QED
    BY <2>2, <2>5, <2>6, <2>7, <2>8, <2>9 DEF AckInv, Upto
<1>9. ASSUME NEW k \in 0 .. Len(flying), TakeOver(k)
      PROVE  AckInv'
  <2>1. /\ cat' = Kept(k) /\ DOMAIN flying' = {} /\ seqr'.of = {} /\ cl' = cl
        /\ Kept(k) = cat \/ \E i \in DOMAIN flying : Kept(k) = flying[i].to
    BY <1>9, TakenOver DEF TakeOver
  <2>2. \A b \in Batches : Upto(b, cat.mark) => Upto(b, cat'.mark)
    <3> TAKE b \in Batches
    <3>1. b[1] \in Producers /\ b[2] \in Nat
      BY BatchIs
    <3>2. ASSUME NEW i \in DOMAIN flying
          PROVE  b[2] <= cat.mark[b[1]] => b[2] <= flying[i].to.mark[b[1]]
      <4>1. cat.mark[b[1]] <= flying[i].to.mark[b[1]]
        BY <3>1 DEF MarkInv
      <4>2. cat.mark[b[1]] \in 0 .. MaxSeq /\ flying[i].to.mark[b[1]] \in 0 .. MaxSeq
        BY <3>1, MarkOrder
      <4> QED
        BY <3>1, <4>1, <4>2, SMTT(60)
    <3> QED
      BY <2>1, <3>2 DEF Upto
  <2>3. \A f \in Flights : flight'[f] = flight[f] \/ flight'[f].ok = {}
    BY <1>9 DEF TakeOver, NoFlush
  <2>4. \A b \in cl.acked : Upto(b, cat'.mark)
    BY <1>1, <2>2 DEF AckInv
  <2>5. \A f \in Flights : flight'[f].step = "answered" => \A b \in flight'[f].ok : Upto(b, cat'.mark)
    BY <1>1, <2>2, <2>3 DEF AckInv
  <2>6. \A f \in Flights : flight'[f].kind \notin Kinds => flight'[f].ok = {}
    BY <2>3 DEF AckInv
  <2> QED
    BY <2>1, <2>4, <2>5, <2>6 DEF AckInv, Upto
<1> QED
  BY <1>2, <1>3, <1>4, <1>5, <1>6, <1>7, <1>8, <1>9 DEF Next

-----------------------------------------------------------------------------
(* What producers sent                                                     *)

\* A producer that doesn't pipeline sends on only once it is answered.
LEMMA SentStep ==
  ASSUME ~Twins, TypeOK, NumberInv, PlaceInv, MarkInv, AckInv, SentInv, [Next]_vars
  PROVE  SentInv'
<1>1. /\ flight \in [Flights -> Flush] /\ cl.sent \in [Producers -> 0 .. MaxSeq] /\ cl.acked \in SUBSET Batches
      /\ \A f \in Flights : flight[f].parts \in SUBSET Batches /\ flight[f].again \in SUBSET Batches
  BY DEF TypeOK, Flush
<1>2. CASE \/ ReadViews \/ Open \/ ForgetViews \/ ToFiles \/ Release \/ UNCHANGED vars
           \/ Commit \/ MakeView \/ Move
  <2>1. UNCHANGED <<flight, cl>>
    BY <1>2 DEF ReadViews, Open, ForgetViews, ToFiles, Release, vars, Commit, MakeView, Move
  <2> QED
    BY <2>1 DEF SentInv
<1>3. ASSUME NEW p \in Producers, Produce(p)
      PROVE  SentInv'
  <2>1. /\ flight' = flight /\ cl'.acked = cl.acked
        /\ \A q \in Producers : cl'.sent[q] = IF q = p THEN cl.sent[q] + 1 ELSE cl.sent[q]
        /\ p \in Chained \/ \A s \in 1 .. cl.sent[p] : <<p, s>> \in cl.acked
    BY <1>1, <1>3 DEF Produce, TypeOK
  <2>2. \A f \in Flights : \A b \in flight[f].parts \cup flight[f].again : b[2] <= cl'.sent[b[1]]
    <3> TAKE f \in Flights
    <3> TAKE b \in flight[f].parts \cup flight[f].again
    <3>1. b \in Batches
      BY <1>1
    <3>2. b[1] \in Producers /\ b[2] \in Nat /\ b[2] <= cl.sent[b[1]] /\ cl.sent[b[1]] \in 0 .. MaxSeq
      BY <1>1, <3>1, BatchIs DEF SentInv
    <3> QED
      BY <2>1, <3>2
  <2>3. ASSUME NEW b \in Batches, b[1] \notin Chained, b[2] < cl'.sent[b[1]]
        PROVE  b \in cl.acked
    <3>1. b[1] \in Producers /\ b[2] \in 1 .. MaxSeq /\ b = <<b[1], b[2]>> /\ cl.sent[b[1]] \in 0 .. MaxSeq
      BY <1>1, BatchIs DEF Batches
    <3>2. CASE b[2] < cl.sent[b[1]]
      BY <2>3, <3>2 DEF SentInv
    <3>3. CASE ~ (b[2] < cl.sent[b[1]])
      <4>1. b[1] = p
        BY <2>1, <2>3, <3>1, <3>3
      <4>2. b[2] \in 1 .. cl.sent[p]
        BY <2>1, <2>3, <3>1, <4>1
      <4> QED
        BY <2>1, <2>3, <3>1, <4>1, <4>2
    <3> QED
      BY <3>2, <3>3
  <2> QED
    BY <2>1, <2>2, <2>3 DEF SentInv
<1>4. ASSUME NEW f \in Flights, Pack(f)
      PROVE  SentInv'
  <2>1. PICK g : /\ flight' = [flight EXCEPT ![f] = g] /\ g.again = {} /\ g.parts \subseteq Unacked /\ g.twice = {}
    BY <1>4, PackWrites
  <2>2. cl' = cl
    BY <1>4 DEF Pack
  <2>3. \A b \in g.parts \cup g.again : b[2] <= cl.sent[b[1]]
    BY <2>1 DEF Unacked
  <2>4. \A x \in Flights : flight'[x] = flight[x] \/ flight'[x] = g
    BY <1>1, <2>1
  <2> QED
    BY <2>1, <2>2, <2>3, <2>4 DEF SentInv
<1>5. ASSUME NEW f \in Flights, Hear(f)
      PROVE  SentInv'
  <2>1. PICK g : /\ flight' = [flight EXCEPT ![f] = g] /\ g.again = {} /\ g.twice = {}
                 /\ g.parts \subseteq flight[f].again
    BY <1>5, HearWrites
  <2>2. cl'.sent = cl.sent /\ cl.acked \subseteq cl'.acked
    BY <1>5 DEF Hear, TypeOK
  <2>3. \A b \in g.parts \cup g.again : b[2] <= cl.sent[b[1]]
    BY <2>1 DEF SentInv
  <2>4. \A x \in Flights : flight'[x] = flight[x] \/ flight'[x] = g
    BY <1>1, <2>1
  <2> QED
    BY <2>1, <2>2, <2>3, <2>4 DEF SentInv
<1>6. ASSUME NEW f \in Flights, Arrive(f) \/ Lose(f) \/ AskForEnd(f) \/ FillView(f) \/ Hold(f)
      PROVE  SentInv'
  <2>1. /\ cl' = cl /\ \A x \in Flights : x # f => flight'[x] = flight[x]
        /\ \/ flight'[f].parts = {} /\ flight'[f].again = {} /\ flight'[f].twice = {}
           \/ /\ flight'[f].parts = flight[f].parts /\ flight'[f].again = flight[f].again
              /\ flight'[f].twice = flight[f].twice
    <3>1. CASE Arrive(f)
      <4>1. flight'[f] = [flight[f] EXCEPT !.step = "queued"] /\ flight[f] \in Flush
        BY <1>1, <3>1 DEF Arrive
      <4> QED
        BY <1>1, <3>1, <4>1 DEF Arrive, Flush
    <3>2. CASE Lose(f)
      BY <1>1, <3>2 DEF Lose, NoFlush
    <3>3. CASE AskForEnd(f) \/ FillView(f) \/ Hold(f)
      BY <3>3, StatementQueues
    <3> QED
      BY <1>6, <3>1, <3>2, <3>3
  <2> QED
    BY <2>1 DEF SentInv
<1>7. ASSUME NEW f \in Flights, Sequence(f)
      PROVE  SentInv'
  <2>1. /\ cl' = cl /\ \A x \in Flights : x # f => flight'[x] = flight[x]
        /\ flight'[f].parts = flight[f].parts /\ flight'[f].twice = flight[f].twice
    BY <1>7, SequenceMoves
  <2>2. flight'[f].again \subseteq flight[f].parts \cup flight[f].again
    BY <1>7, Outcome
  <2> QED
    BY <2>1, <2>2 DEF SentInv
<1>8. CASE Durable
  <2>1. \A f \in Flights : flight'[f] = [flight[f] EXCEPT !.step = "answered"] \/ flight'[f] = flight[f]
    BY <1>1, <1>8 DEF Durable
  <2>2. \A f \in Flights : flight[f] \in Flush
    BY <1>1
  <2>3. \A f \in Flights : /\ flight'[f].parts = flight[f].parts /\ flight'[f].again = flight[f].again
                           /\ flight'[f].twice = flight[f].twice
    BY <2>1, <2>2 DEF Flush
  <2>4. cl' = cl
    BY <1>8 DEF Durable
  <2> QED
    BY <2>3, <2>4 DEF SentInv
<1>9. ASSUME NEW k \in 0 .. Len(flying), TakeOver(k)
      PROVE  SentInv'
  <2>1. /\ cl' = cl
        /\ \A f \in Flights : \/ flight'[f] = flight[f]
                              \/ flight'[f].parts = {} /\ flight'[f].again = {} /\ flight'[f].twice = {}
    BY <1>9 DEF TakeOver, NoFlush
  <2> QED
    BY <2>1 DEF SentInv
<1> QED
  BY <1>2, <1>3, <1>4, <1>5, <1>6, <1>7, <1>8, <1>9 DEF Next

-----------------------------------------------------------------------------
(* What each write has                                                     *)

\* The number a batch of the commit being built has, were it written now.
AtNow(b) == IF b \in seqr.inline THEN seqr.n ELSE seqr.at[b]

\* All that a commit writes, and what it leaves of the sequencer.
LEMMA CommitIs ==
  ASSUME TypeOK, NumberInv, Commit
  PROVE  \E w \in Write :
         /\ flying' = Append(flying, w) /\ w.of = seqr.of /\ seqr.step = "open" /\ seqr.todo = <<>>
         /\ UNCHANGED <<cat, flight, cl, stmt, takeovers>>
         /\ w.to.n = seqr'.n /\ seqr'.n = IF seqr.inline = {} THEN seqr.n ELSE seqr.n + 1
         /\ \A p \in Marked : w.to.mark[p] = IF seqr.seqs[p] > 0 THEN seqr.seqs[p] ELSE Newest.mark[p]
         /\ w.to.rows = [b \in Batches |-> Newest.rows[b] + seqr.rows[b]]
         /\ \A b \in Batches : w.to.shown[b] = Newest.shown[b] + seqr.shown[b]
         /\ \A b \in Batches : w.to.at[b] = IF AtNow(b) > 0 THEN AtNow(b) ELSE Newest.at[b]
         /\ w.to.view = IF seqr.seen = "unbounded" THEN "bounded" ELSE Newest.view
         /\ w.to.upto = IF seqr.seen = "unbounded" THEN seqr.upto ELSE Newest.upto
         /\ w.to.moved = Newest.moved /\ w.to.filed = Newest.filed
         /\ seqr'.step = "idle" /\ seqr'.cache = seqr.cache /\ seqr'.bounded = seqr.bounded
         /\ seqr'.queue = seqr.queue /\ seqr'.todo = <<>> /\ seqr'.of = {} /\ seqr'.seen = "none"
         /\ seqr'.seqs = NoSeqs /\ seqr'.rows = None /\ seqr'.at = None /\ seqr'.shown = None /\ seqr'.inline = {}
         /\ \A p \in Marked : seqr'.last[p] = IF seqr.seqs[p] > 0 THEN seqr.seqs[p] ELSE seqr.last[p]
<1> DEFINE at == [b \in Batches |-> IF b \in seqr.inline THEN seqr.n ELSE seqr.at[b]]
           n  == IF seqr.inline = {} THEN seqr.n ELSE seqr.n + 1
           Moved(was, to) == [p \in Marked |-> IF to[p] > 0 THEN to[p] ELSE was[p]]
           mark == Moved(Newest.mark, seqr.seqs)
           last == Moved(seqr.last, seqr.seqs)
           rows == [b \in Batches |-> Newest.rows[b] + seqr.rows[b]]
           shown == [b \in Batches |-> Newest.shown[b] + seqr.shown[b]]
           after == [b \in Batches |-> IF at[b] > 0 THEN at[b] ELSE Newest.at[b]]
           view == IF seqr.seen = "unbounded" THEN "bounded" ELSE Newest.view
           upto == IF seqr.seen = "unbounded" THEN seqr.upto ELSE Newest.upto
           to == [Newest EXCEPT !.n = n, !.mark = mark, !.rows = rows, !.shown = shown, !.at = after,
                                !.view = view, !.upto = upto]
           w  == [to |-> to, slot |-> TRUE, of |-> seqr.of]
<1>1. seqr \in Sequencer /\ Newest \in Catalog
  BY NewestType DEF TypeOK
<1>2. /\ seqr.seqs \in [Marked -> 0 .. MaxSeq] /\ seqr.last \in [Marked -> 0 .. MaxSeq] /\ seqr.rows \in Tally
      /\ seqr.shown \in Tally /\ seqr.at \in Tally /\ seqr.n \in Nat /\ seqr.upto \in Nat /\ seqr.of \in SUBSET Flights
  BY <1>1 DEF Sequencer
<1>3. /\ Newest.mark \in [Marked -> 0 .. MaxSeq] /\ Newest.rows \in Tally /\ Newest.shown \in Tally
      /\ Newest.at \in Tally /\ Newest.upto \in Nat /\ Newest.view \in {"none", "unbounded", "bounded"}
  BY <1>1 DEF Catalog
<1>4. n \in Nat /\ view \in {"none", "unbounded", "bounded"} /\ upto \in Nat
  BY <1>1, <1>2, <1>3
<1>5. mark \in [Marked -> 0 .. MaxSeq] /\ last \in [Marked -> 0 .. MaxSeq]
  BY <1>2, <1>3
<1>6. rows \in Tally /\ shown \in Tally /\ after \in Tally
  BY <1>2, <1>3 DEF Tally
<1>7. /\ seqr' = [seqr EXCEPT !.step = "idle", !.n = n, !.last = last, !.of = {}, !.seen = "none", !.upto = 0,
                           !.seqs = NoSeqs, !.rows = None, !.at = None, !.shown = None, !.inline = {}]
      /\ flying' = Append(flying, w) /\ seqr.todo = <<>> /\ seqr.step = "open"
      /\ UNCHANGED <<cat, flight, cl, stmt, takeovers>>
  BY DEF Commit
<1>8. \A p \in Marked : /\ mark[p] = IF seqr.seqs[p] > 0 THEN seqr.seqs[p] ELSE Newest.mark[p]
                        /\ last[p] = IF seqr.seqs[p] > 0 THEN seqr.seqs[p] ELSE seqr.last[p]
  OBVIOUS
<1>9. \A b \in Batches : shown[b] = Newest.shown[b] + seqr.shown[b]
  OBVIOUS
<1>10. \A b \in Batches : after[b] = IF AtNow(b) > 0 THEN AtNow(b) ELSE Newest.at[b]
  BY DEF AtNow
<1>11. n = IF seqr.inline = {} THEN seqr.n ELSE seqr.n + 1
  OBVIOUS
<1>12. /\ view = IF seqr.seen = "unbounded" THEN "bounded" ELSE Newest.view
       /\ upto = IF seqr.seen = "unbounded" THEN seqr.upto ELSE Newest.upto
       /\ rows = [b \in Batches |-> Newest.rows[b] + seqr.rows[b]]
  OBVIOUS
<1> HIDE DEF at, n, Moved, mark, last, rows, shown, after, view, upto
<1>13. /\ to \in Catalog /\ to.n = n /\ to.mark = mark /\ to.rows = rows /\ to.shown = shown /\ to.at = after
       /\ to.view = view /\ to.upto = upto /\ to.moved = Newest.moved /\ to.filed = Newest.filed
  BY <1>1, <1>4, <1>5, <1>6 DEF Catalog
<1> HIDE DEF to
<1>14. w \in Write /\ w.to = to /\ w.of = seqr.of
  BY <1>2, <1>13 DEF Write
<1>15. /\ seqr'.n = n /\ seqr'.queue = seqr.queue /\ seqr'.todo = seqr.todo /\ seqr'.of = {}
       /\ seqr'.seqs = NoSeqs /\ seqr'.rows = None /\ seqr'.last = last /\ seqr'.step = "idle"
       /\ seqr'.cache = seqr.cache /\ seqr'.bounded = seqr.bounded /\ seqr'.seen = "none"
       /\ seqr'.at = None /\ seqr'.shown = None /\ seqr'.inline = {}
  BY <1>1, <1>7 DEF Sequencer
<1> HIDE DEF w
<1>16. /\ w.to.n = seqr'.n /\ seqr'.n = IF seqr.inline = {} THEN seqr.n ELSE seqr.n + 1
       /\ \A p \in Marked : w.to.mark[p] = IF seqr.seqs[p] > 0 THEN seqr.seqs[p] ELSE Newest.mark[p]
       /\ w.to.rows = [b \in Batches |-> Newest.rows[b] + seqr.rows[b]]
       /\ \A b \in Batches : w.to.shown[b] = Newest.shown[b] + seqr.shown[b]
       /\ \A b \in Batches : w.to.at[b] = IF AtNow(b) > 0 THEN AtNow(b) ELSE Newest.at[b]
       /\ w.to.view = (IF seqr.seen = "unbounded" THEN "bounded" ELSE Newest.view)
       /\ w.to.upto = (IF seqr.seen = "unbounded" THEN seqr.upto ELSE Newest.upto)
       /\ w.to.moved = Newest.moved /\ w.to.filed = Newest.filed
       /\ \A p \in Marked : seqr'.last[p] = IF seqr.seqs[p] > 0 THEN seqr.seqs[p] ELSE seqr.last[p]
  BY <1>8, <1>9, <1>10, <1>11, <1>12, <1>13, <1>14, <1>15
<1> QED
  BY <1>7, <1>14, <1>15, <1>16, ZenonT(60)

\* All that the entry of a view writes, and of a table that moves.
LEMMA MakeViewIs ==
  ASSUME TypeOK, MakeView
  PROVE  \E w \in Write : /\ flying' = Append(flying, w) /\ w.of = {} /\ w.to = [Newest EXCEPT !.view = "unbounded"]
                          /\ w.to.n = Newest.n /\ w.to.mark = Newest.mark /\ w.to.rows = Newest.rows
                          /\ w.to.shown = Newest.shown /\ w.to.at = Newest.at /\ w.to.upto = Newest.upto
                          /\ w.to.view = "unbounded" /\ w.to.moved = Newest.moved /\ w.to.filed = Newest.filed
<1> DEFINE to == [Newest EXCEPT !.view = "unbounded"]
<1>1. Newest \in Catalog /\ WriteAfter(to)
  BY NewestType DEF MakeView
<1>2. /\ to \in Catalog /\ to.n = Newest.n /\ to.mark = Newest.mark /\ to.rows = Newest.rows
      /\ to.shown = Newest.shown /\ to.at = Newest.at /\ to.upto = Newest.upto
      /\ to.view = "unbounded" /\ to.moved = Newest.moved /\ to.filed = Newest.filed
  BY <1>1 DEF Catalog
<1>3. PICK t : t = to
  OBVIOUS
<1> HIDE DEF to
<1>4. PICK w \in Write : flying' = Append(flying, w) /\ w.to = to /\ w.of = {}
  BY <1>1, <1>2, WriteAfterIs
<1> QED
  BY <1>2, <1>4 DEF to

\* The entry gone, with what its files had.
LEMMA MoveIs ==
  ASSUME TypeOK, Move
  PROVE  \E w \in Write : /\ flying' = Append(flying, w) /\ w.of = {}
                          /\ w.to.n = Newest.n /\ w.to.mark = Newest.mark /\ w.to.rows = Newest.rows
                          /\ w.to.shown = Newest.shown /\ w.to.at = Newest.at /\ w.to.upto = Newest.upto
                          /\ w.to.view = Newest.view /\ w.to.moved /\ w.to.filed = stmt.filed
<1> DEFINE to == [Newest EXCEPT !.moved = TRUE, !.filed = stmt.filed]
<1>1. Newest \in Catalog /\ WriteAfter(to) /\ stmt.filed \in SUBSET Batches
  BY NewestType DEF Move, TypeOK
<1>2. /\ to \in Catalog /\ to.n = Newest.n /\ to.mark = Newest.mark /\ to.rows = Newest.rows
      /\ to.shown = Newest.shown /\ to.at = Newest.at /\ to.upto = Newest.upto
      /\ to.view = Newest.view /\ to.moved /\ to.filed = stmt.filed
  BY <1>1 DEF Catalog
<1> HIDE DEF to
<1>4. PICK w \in Write : flying' = Append(flying, w) /\ w.to = to /\ w.of = {}
  BY <1>1, <1>2, WriteAfterIs
<1> QED
  BY <1>2, <1>4

\* All that sequencing a flush's rows changes.
LEMMA RowsIs ==
  ASSUME TypeOK, NEW f \in Flights, Sequence(f), SequenceRows(f)
  PROVE  \E new \in SUBSET Batches :
         /\ new = flight[f].parts \ LeftOut(flight[f].parts)
         /\ flight[f].kind \in Kinds /\ ~Held /\ seqr.step = "open" /\ flight[f].derived = (seqr.seen # "none")
         /\ UNCHANGED <<cat, flying, cl, stmt, takeovers>>
         /\ seqr'.rows = [b \in Batches |-> IF b \in new THEN seqr.rows[b] + 1 ELSE seqr.rows[b]]
         /\ seqr'.shown = IF flight[f].derived THEN [b \in Batches |-> IF b \in new THEN seqr.shown[b] + 1 ELSE seqr.shown[b]]
                                               ELSE seqr.shown
         /\ \/ /\ flight[f].kind = "object" /\ new # {} /\ seqr'.n = seqr.n + 1 /\ seqr'.inline = seqr.inline
               /\ seqr'.at = [b \in Batches |-> IF b \in new THEN seqr.n ELSE seqr.at[b]]
            \/ /\ flight[f].kind # "object" \/ new = {}
               /\ seqr'.n = seqr.n /\ seqr'.inline = seqr.inline \cup new /\ seqr'.at = seqr.at
         /\ seqr'.seqs = [p \in Marked |-> IF \E b \in new : b[1] = p THEN Latest(new, p) ELSE seqr.seqs[p]]
         /\ seqr'.step = "open" /\ seqr'.cache = seqr.cache /\ seqr'.bounded = seqr.bounded /\ seqr'.last = seqr.last
         /\ seqr'.seen = seqr.seen /\ seqr'.upto = seqr.upto
<1> DEFINE new   == flight[f].parts \ LeftOut(flight[f].parts)
           big   == flight[f].kind = "object" /\ new # {}
           seqs  == [p \in Marked |-> IF \E b \in new : b[1] = p THEN Latest(new, p) ELSE seqr.seqs[p]]
           rows  == [b \in Batches |-> IF b \in new THEN seqr.rows[b] + 1 ELSE seqr.rows[b]]
           shown == IF flight[f].derived THEN [b \in Batches |-> IF b \in new THEN seqr.shown[b] + 1 ELSE seqr.shown[b]]
                                         ELSE seqr.shown
           at    == IF big THEN [b \in Batches |-> IF b \in new THEN seqr.n ELSE seqr.at[b]] ELSE seqr.at
           n     == IF big THEN seqr.n + 1 ELSE seqr.n
           inline == IF big THEN seqr.inline ELSE seqr.inline \cup new
<1>1. seqr \in Sequencer /\ new \in SUBSET Batches
  BY PartsOf DEF TypeOK
<1>2. seqr' = [seqr EXCEPT !.todo = Tail(@), !.of = @ \cup {f}, !.n = n, !.seqs = seqs, !.rows = rows,
                           !.shown = shown, !.at = at, !.inline = inline]
  BY DEF SequenceRows
<1>3. PICK S : S = new
  OBVIOUS
<1>4. /\ seqs = [p \in Marked |-> IF \E b \in S : b[1] = p THEN Latest(S, p) ELSE seqr.seqs[p]]
      /\ rows = [b \in Batches |-> IF b \in S THEN seqr.rows[b] + 1 ELSE seqr.rows[b]]
      /\ shown = IF flight[f].derived THEN [b \in Batches |-> IF b \in S THEN seqr.shown[b] + 1 ELSE seqr.shown[b]]
                                      ELSE seqr.shown
  BY <1>3
<1>5. \/ /\ flight[f].kind = "object" /\ S # {} /\ n = seqr.n + 1 /\ inline = seqr.inline
         /\ at = [b \in Batches |-> IF b \in S THEN seqr.n ELSE seqr.at[b]]
      \/ /\ flight[f].kind # "object" \/ S = {}
         /\ n = seqr.n /\ inline = seqr.inline \cup S /\ at = seqr.at
  BY <1>3
<1> HIDE DEF seqs, rows, shown, at, n, inline
<1>6. /\ seqr'.last = seqr.last /\ seqr'.seqs = seqs /\ seqr'.rows = rows /\ seqr'.shown = shown /\ seqr'.at = at
      /\ seqr'.n = n /\ seqr'.inline = inline /\ seqr'.step = seqr.step /\ seqr'.cache = seqr.cache
      /\ seqr'.bounded = seqr.bounded /\ seqr'.seen = seqr.seen /\ seqr'.upto = seqr.upto
  BY <1>1, <1>2 DEF Sequencer
<1>7. /\ UNCHANGED <<cat, flying, cl, stmt, takeovers>> /\ seqr.step = "open"
      /\ flight[f].kind \in Kinds /\ ~Held /\ flight[f].derived = (seqr.seen # "none")
  BY DEF Sequence, SequenceRows, Back, Now, SameViews
<1>8. S \in SUBSET Batches /\ S = flight[f].parts \ LeftOut(flight[f].parts)
  BY <1>1, <1>3
<1> HIDE DEF new
<1>9. /\ seqr'.rows = [b \in Batches |-> IF b \in S THEN seqr.rows[b] + 1 ELSE seqr.rows[b]]
      /\ seqr'.shown = (IF flight[f].derived THEN [b \in Batches |-> IF b \in S THEN seqr.shown[b] + 1 ELSE seqr.shown[b]]
                                             ELSE seqr.shown)
      /\ seqr'.seqs = [p \in Marked |-> IF \E b \in S : b[1] = p THEN Latest(S, p) ELSE seqr.seqs[p]]
  BY <1>4, <1>6
<1>10. \/ /\ flight[f].kind = "object" /\ S # {} /\ seqr'.n = seqr.n + 1 /\ seqr'.inline = seqr.inline
          /\ seqr'.at = [b \in Batches |-> IF b \in S THEN seqr.n ELSE seqr.at[b]]
       \/ /\ flight[f].kind # "object" \/ S = {}
          /\ seqr'.n = seqr.n /\ seqr'.inline = seqr.inline \cup S /\ seqr'.at = seqr.at
  BY <1>5, <1>6
<1> QED
  BY <1>6, <1>7, <1>8, <1>9, <1>10

\* What a quiet step does to the commit that is built, and to the views it goes by.
LEMMA QuietIs ==
  ASSUME TypeOK, NumberInv, Quietly
  PROVE  /\ UNCHANGED <<cat, flying>>
         /\ seqr'.last = seqr.last /\ seqr'.rows = seqr.rows /\ seqr'.at = seqr.at /\ seqr'.inline = seqr.inline
         /\ \/ UNCHANGED <<seqr.n, seqr.step, seqr.cache, seqr.bounded, seqr.seen, seqr.upto, seqr.seqs, seqr.shown>>
            \/ /\ ForgetViews /\ seqr'.cache = "forgotten"
               /\ UNCHANGED <<seqr.n, seqr.step, seqr.bounded, seqr.seen, seqr.upto, seqr.seqs, seqr.shown>>
            \/ /\ ReadViews /\ seqr'.step = "reading"
               /\ seqr'.seen = IF cat.view = "unbounded" /\ seqr.bounded THEN "bounded" ELSE cat.view
               /\ UNCHANGED <<seqr.n, seqr.cache, seqr.bounded, seqr.upto, seqr.seqs, seqr.shown>>
            \/ /\ Open /\ seqr'.step = "open"
               /\ seqr'.seen = IF seqr.step = "reading" THEN seqr.seen ELSE seqr.cache
               /\ seqr'.upto = IF seqr'.seen = "unbounded" THEN seqr.n - 1 ELSE 0
               /\ seqr'.bounded = (seqr.bounded \/ seqr'.seen = "unbounded")
               /\ seqr'.cache = IF seqr'.seen = "unbounded" THEN "bounded" ELSE seqr'.seen
               /\ UNCHANGED <<seqr.n, seqr.seqs, seqr.shown>>
            \/ /\ seqr.step = "open" /\ seqr'.n = seqr.n + 1
               /\ UNCHANGED <<seqr.step, seqr.cache, seqr.bounded, seqr.seen, seqr.upto, seqr.seqs, seqr.shown>>
            \/ \E f \in Flights :
               /\ flight[f].kind = "fill" /\ seqr.step = "open" /\ seqr'.seqs = [seqr.seqs EXCEPT ![Fill] = 1]
               /\ \A b \in Batches : seqr'.shown[b] = IF SeqOf(Fill) < 1 /\ b \in flight[f].content THEN seqr.shown[b] + 1
                                                                                             ELSE seqr.shown[b]
               /\ UNCHANGED <<seqr.n, seqr.step, seqr.cache, seqr.bounded, seqr.seen, seqr.upto>>
<1>1. /\ seqr \in Sequencer /\ seqr.n \in Nat /\ seqr.n >= 1 /\ seqr.shown \in Tally
      /\ seqr.bounded \in BOOLEAN /\ seqr.cache \in {"forgotten", "none", "bounded"}
      /\ seqr.seen \in {"none", "unbounded", "bounded"} /\ cat.view \in {"none", "unbounded", "bounded"}
  BY DEF TypeOK, Sequencer, NumberInv, Catalog
<1>0. UNCHANGED <<cat, flying>>
  BY Quiet
<1>2. CASE \/ \E p \in Producers : Produce(p)
           \/ \E f \in Flights : Pack(f) \/ Lose(f) \/ Hear(f)
           \/ ToFiles \/ Release \/ UNCHANGED vars
  <2>1. seqr' = seqr
    BY <1>2 DEF Produce, Pack, Lose, Hear, ToFiles, Release, vars
  <2> QED
    BY <1>0, <2>1
<1>3. ASSUME NEW f \in Flights, Arrive(f) \/ AskForEnd(f) \/ FillView(f) \/ Hold(f)
      PROVE  /\ seqr'.last = seqr.last /\ seqr'.rows = seqr.rows /\ seqr'.at = seqr.at /\ seqr'.inline = seqr.inline
             /\ UNCHANGED <<seqr.n, seqr.step, seqr.cache, seqr.bounded, seqr.seen, seqr.upto, seqr.seqs, seqr.shown>>
  <2>1. seqr' = [seqr EXCEPT !.queue = Append(@, f)]
    BY <1>3 DEF Arrive, AskForEnd, FillView, Hold, Submit
  <2> QED
    BY <1>1, <2>1 DEF Sequencer
<1>4. CASE ForgetViews
  <2>1. seqr' = [seqr EXCEPT !.cache = "forgotten"]
    BY <1>4 DEF ForgetViews
  <2> QED
    BY <1>0, <1>1, <1>4, <2>1 DEF Sequencer
<1>5. CASE ReadViews
  <2> DEFINE seen == IF cat.view = "unbounded" /\ seqr.bounded THEN "bounded" ELSE cat.view
  <2>1. seqr' = [seqr EXCEPT !.step = "reading", !.seen = seen]
    BY <1>5 DEF ReadViews
  <2> HIDE DEF seen
  <2>2. /\ seqr'.last = seqr.last /\ seqr'.rows = seqr.rows /\ seqr'.at = seqr.at /\ seqr'.inline = seqr.inline
        /\ seqr'.step = "reading" /\ seqr'.seen = seen
        /\ UNCHANGED <<seqr.n, seqr.cache, seqr.bounded, seqr.upto, seqr.seqs, seqr.shown>>
    BY <1>1, <2>1 DEF Sequencer
  <2> QED
    BY <1>0, <1>5, <2>2 DEF seen
<1>6. CASE Open
  <2> DEFINE seen == IF seqr.step = "reading" THEN seqr.seen ELSE seqr.cache
             upto == IF seen = "unbounded" THEN seqr.n - 1 ELSE 0
             bounded == seqr.bounded \/ seen = "unbounded"
             cache == IF seen = "unbounded" THEN "bounded" ELSE seen
  <2>1. seqr' = [seqr EXCEPT !.step = "open", !.todo = seqr.queue, !.queue = <<>>, !.seen = seen, !.upto = upto,
                             !.bounded = bounded, !.cache = cache]
    BY <1>6 DEF Open
  <2>2. bounded = (seqr.bounded \/ seen = "unbounded")
    OBVIOUS
  <2> HIDE DEF seen, upto, bounded, cache
  <2>3. /\ seqr'.last = seqr.last /\ seqr'.rows = seqr.rows /\ seqr'.at = seqr.at /\ seqr'.inline = seqr.inline
        /\ seqr'.step = "open" /\ seqr'.seen = seen /\ seqr'.upto = upto /\ seqr'.bounded = bounded /\ seqr'.cache = cache
        /\ UNCHANGED <<seqr.n, seqr.seqs, seqr.shown>>
    BY <1>1, <2>1 DEF Sequencer
  <2>4. /\ seqr'.seen = IF seqr.step = "reading" THEN seqr.seen ELSE seqr.cache
        /\ seqr'.upto = IF seqr'.seen = "unbounded" THEN seqr.n - 1 ELSE 0
        /\ seqr'.cache = IF seqr'.seen = "unbounded" THEN "bounded" ELSE seqr'.seen
    BY <2>3 DEF seen, upto, cache
  <2> QED
    BY <1>0, <1>6, <2>2, <2>3, <2>4
<1>7. ASSUME NEW f \in Flights, Sequence(f), SequenceBack(f) \/ SequenceRedone(f)
      PROVE  /\ seqr'.last = seqr.last /\ seqr'.rows = seqr.rows /\ seqr'.at = seqr.at /\ seqr'.inline = seqr.inline
             /\ UNCHANGED <<seqr.n, seqr.step, seqr.cache, seqr.bounded, seqr.seen, seqr.upto, seqr.seqs, seqr.shown>>
  <2>1. seqr' = [seqr EXCEPT !.todo = Tail(@), !.of = @ \cup {f}]
    BY <1>7 DEF SequenceBack, SequenceRedone
  <2> QED
    BY <1>1, <2>1 DEF Sequencer
<1>8. ASSUME NEW f \in Flights, Sequence(f), SequenceNumber(f)
      PROVE  /\ seqr'.last = seqr.last /\ seqr'.rows = seqr.rows /\ seqr'.at = seqr.at /\ seqr'.inline = seqr.inline
             /\ seqr.step = "open" /\ seqr'.n = seqr.n + 1
             /\ UNCHANGED <<seqr.step, seqr.cache, seqr.bounded, seqr.seen, seqr.upto, seqr.seqs, seqr.shown>>
  <2>1. seqr' = [seqr EXCEPT !.todo = Tail(@), !.of = @ \cup {f}, !.n = @ + 1]
    BY <1>8 DEF SequenceNumber
  <2>2. seqr.step = "open"
    BY <1>8 DEF Sequence, Now
  <2> QED
    BY <1>1, <2>1, <2>2 DEF Sequencer
<1>9. ASSUME NEW f \in Flights, Sequence(f), SequenceFill(f)
      PROVE  /\ seqr'.last = seqr.last /\ seqr'.rows = seqr.rows /\ seqr'.at = seqr.at /\ seqr'.inline = seqr.inline
             /\ flight[f].kind = "fill" /\ seqr.step = "open" /\ seqr'.seqs = [seqr.seqs EXCEPT ![Fill] = 1]
             /\ \A b \in Batches : seqr'.shown[b] = IF SeqOf(Fill) < 1 /\ b \in flight[f].content THEN seqr.shown[b] + 1
                                                                                           ELSE seqr.shown[b]
             /\ UNCHANGED <<seqr.n, seqr.step, seqr.cache, seqr.bounded, seqr.seen, seqr.upto>>
  <2> DEFINE shown == IF SeqOf(Fill) >= 1 THEN seqr.shown
                      ELSE [b \in Batches |-> IF b \in flight[f].content THEN seqr.shown[b] + 1 ELSE seqr.shown[b]]
             seqs == [seqr.seqs EXCEPT ![Fill] = 1]
  <2>1. seqr' = [seqr EXCEPT !.todo = Tail(@), !.of = @ \cup {f}, !.seqs = seqs, !.shown = shown]
    BY <1>9 DEF SequenceFill
  <2>2. \A b \in Batches : shown[b] = IF SeqOf(Fill) < 1 /\ b \in flight[f].content THEN seqr.shown[b] + 1
                                                                             ELSE seqr.shown[b]
    <3>1. SeqOf(Fill) \in Nat
      BY <1>1 DEF SeqOf, Marked, TypeOK, Catalog, Sequencer
    <3> QED
      BY <3>1
  <2> HIDE DEF shown, seqs
  <2>3. /\ seqr'.last = seqr.last /\ seqr'.rows = seqr.rows /\ seqr'.at = seqr.at /\ seqr'.inline = seqr.inline
        /\ seqr'.seqs = seqs /\ seqr'.shown = shown
        /\ UNCHANGED <<seqr.n, seqr.step, seqr.cache, seqr.bounded, seqr.seen, seqr.upto>>
    BY <1>1, <2>1 DEF Sequencer
  <2>4. flight[f].kind = "fill" /\ seqr.step = "open"
    BY <1>9 DEF Sequence, SequenceFill, Now
  <2> QED
    BY <2>2, <2>3, <2>4 DEF seqs
<1>10. CASE \E f \in Flights : Arrive(f) \/ AskForEnd(f) \/ FillView(f) \/ Hold(f)
  BY <1>0, <1>3, <1>10
<1>11. CASE \E f \in Flights : Sequence(f) /\ (SequenceBack(f) \/ SequenceRedone(f))
  BY <1>0, <1>7, <1>11
<1>12. CASE \E f \in Flights : Sequence(f) /\ SequenceNumber(f)
  BY <1>0, <1>8, <1>12
<1>13. CASE \E f \in Flights : Sequence(f) /\ SequenceFill(f)
  <2>1. PICK f \in Flights : Sequence(f) /\ SequenceFill(f)
    BY <1>13
  <2> QED
    BY <1>0, <1>9, <2>1
<1> QED
  BY <1>2, <1>4, <1>5, <1>6, <1>10, <1>11, <1>12, <1>13 DEF Quietly

-----------------------------------------------------------------------------
(* A table that is held                                                    *)

\* The flushes of statements are answered, never sent again.
Own    == {"number", "hold", "fill"}
OwnInv == \A f \in Flights : flight[f].kind \in Own => flight[f].again = {}

\* No rows are being committed, from the catalog on or from a write on its way on.
Still == /\ \A b \in Batches : seqr.rows[b] = 0
         /\ \A i \in DOMAIN flying : flying[i].to.rows = cat.rows
StillFrom(i) == /\ \A b \in Batches : seqr.rows[b] = 0
                /\ \A j \in DOMAIN flying : i <= j => flying[j].to.rows = flying[i].to.rows

\* A catalog without the table's entry has all its rows in files.
Filed(c) == c.moved => \A b \in Batches : c.rows[b] > 0 => b \in c.filed

\* A table is held until its entry is gone, and what comes in then is left out: so nothing is
\* committed to it from the hold's own number on, which its statement waits for.
MoveInv ==
    /\ Filed(cat) /\ \A i \in DOMAIN flying : Filed(flying[i].to)
    /\ (cat.moved \/ \E i \in DOMAIN flying : flying[i].to.moved) =>
          stmt.move = "moving" \/ (stmt.move = "over" /\ cat.moved)
    /\ \A i \in DOMAIN flying : cat.moved => flying[i].to.moved
    /\ \A i, j \in DOMAIN flying : i <= j /\ flying[i].to.moved => flying[j].to.moved
    /\ stmt.move \in {"still", "filed", "moving"} \/ cat.moved => Still
    /\ stmt.move \in {"filed", "moving"} => \A b \in Batches : cat.rows[b] > 0 => b \in stmt.filed
    /\ \A f \in Flights : flight[f].kind = "hold" =>
          /\ stmt.move = "holding"
          /\ flight[f].step = "answered" => Still
          /\ \A g \in Flights : flight[g].kind = "hold" => g = f
    /\ \A i \in DOMAIN flying : \A f \in flying[i].of : flight[f].kind = "hold" => StillFrom(i)

\* A statement's flush stays what it is until it is heard.
LEMMA OwnFlushes ==
  ASSUME TypeOK, NumberInv, PlaceInv, OwnInv, [Next]_vars, NEW f \in Flights, flight'[f].kind \in Own
  PROVE  \/ /\ flight[f].kind = flight'[f].kind /\ flight'[f].content = flight[f].content /\ flight'[f].again = {}
            /\ flight'[f].step = "answered" => flight[f].step = "answered" \/ (Durable /\ f \in flying[1].of)
            /\ ~ Hear(f)
         \/ Hold(f) /\ flight'[f].kind = "hold" /\ flight'[f].step = "queued" /\ flight'[f].again = {}
         \/ /\ FillView(f) /\ flight'[f].kind = "fill" /\ flight'[f].again = {}
            /\ flight'[f].content = {b \in Batches : cat.rows[b] > 0 /\ cat.at[b] <= cat.upto}
         \/ AskForEnd(f) /\ flight'[f].kind = "number" /\ flight'[f].again = {}
<1>1. flight \in [Flights -> Flush] /\ \A x \in Flights : flight[x] \in Flush
  BY DEF TypeOK
<1>2. Own \cap Kinds = {} /\ NoFlush.kind \notin Own /\ "inline" \notin Own
  BY KindsAssumption DEF Own, NoFlush
<1>3. flight'[f] = flight[f] => ~ Hear(f)
  <2> SUFFICES ASSUME flight'[f] = flight[f], Hear(f)
               PROVE  FALSE
    OBVIOUS
  <2>1. flight[f].step = "answered"
    BY DEF Hear
  <2>2. flight'[f].step \in {"free", "sent"}
    <3>1. CASE flight[f].again = {}
      <4>1. flight'[f] = NoFlush
        BY <1>1, <3>1 DEF Hear
      <4> QED
        BY <4>1 DEF NoFlush
    <3>2. CASE flight[f].again # {}
      <4>1. PICK derived \in Derives : flight' = [flight EXCEPT ![f] = [NoFlush EXCEPT
              !.step = "sent", !.kind = flight[f].kind, !.parts = flight[f].again, !.derived = derived]]
        BY <3>2 DEF Hear
      <4>2. [NoFlush EXCEPT !.step = "sent", !.kind = flight[f].kind, !.parts = flight[f].again,
                            !.derived = derived].step = "sent"
        BY DEF NoFlush
      <4> QED
        BY <1>1, <4>1, <4>2
    <3> QED
      BY <3>1, <3>2
  <2> QED
    BY <2>1, <2>2
<1>4. CASE flight'[f] = flight[f]
  BY <1>3, <1>4 DEF OwnInv
<1>5. CASE \/ \E p \in Producers : Produce(p)
           \/ ReadViews \/ Open \/ Commit \/ MakeView \/ ForgetViews \/ ToFiles \/ Move \/ Release \/ UNCHANGED vars
  <2>1. flight' = flight
    BY <1>5 DEF Produce, ReadViews, Open, Commit, MakeView, ForgetViews, ToFiles, Move, Release, vars
  <2> QED
    BY <1>4, <2>1
<1>6. ASSUME NEW x \in Flights, Pack(x) \/ Lose(x) \/ Hear(x)
      PROVE  flight'[f] = flight[f]
  <2>1. CASE Pack(x)
    <3>1. PICK g : flight' = [flight EXCEPT ![x] = g] /\ g.kind \in Kinds
      <4>1. PICK parts \in (SUBSET Unacked) \ {{}}, kind \in Kinds, derived \in Derives :
              \E twice \in IF Twins THEN SUBSET parts ELSE {{}} :
                flight' = [flight EXCEPT ![x] = [NoFlush EXCEPT
                !.step = "sent", !.kind = kind, !.parts = parts, !.twice = twice, !.derived = derived]]
        BY <2>1 DEF Pack
      <4>2. PICK twice \in IF Twins THEN SUBSET parts ELSE {{}} :
                flight' = [flight EXCEPT ![x] = [NoFlush EXCEPT
                !.step = "sent", !.kind = kind, !.parts = parts, !.twice = twice, !.derived = derived]]
        BY <4>1
      <4>3. [NoFlush EXCEPT !.step = "sent", !.kind = kind, !.parts = parts, !.twice = twice, !.derived = derived].kind = kind
        BY DEF NoFlush
      <4> QED
        BY <4>2, <4>3
    <3>2. f # x
      BY <1>1, <1>2, <3>1
    <3> QED
      BY <1>1, <3>1, <3>2
  <2>2. CASE Lose(x)
    <3>1. flight' = [flight EXCEPT ![x] = NoFlush]
      BY <2>2 DEF Lose
    <3>2. f # x
      BY <1>1, <1>2, <3>1
    <3> QED
      BY <1>1, <3>1, <3>2
  <2>3. CASE Hear(x)
    <3>1. \A y \in Flights : y # x => flight'[y] = flight[y]
      BY <1>1, <2>3 DEF Hear
    <3>2. CASE f = x
      <4>1. CASE flight[x].again = {}
        <5>1. flight'[x] = NoFlush
          BY <1>1, <2>3, <4>1 DEF Hear
        <5> QED
          BY <1>2, <3>2, <5>1
      <4>2. CASE flight[x].again # {}
        <5>1. PICK derived \in Derives : flight' = [flight EXCEPT ![x] = [NoFlush EXCEPT
                !.step = "sent", !.kind = flight[x].kind, !.parts = flight[x].again, !.derived = derived]]
          BY <2>3, <4>2 DEF Hear
        <5>2. [NoFlush EXCEPT !.step = "sent", !.kind = flight[x].kind, !.parts = flight[x].again,
                              !.derived = derived].kind = flight[x].kind
          BY DEF NoFlush
        <5>3. flight[x].kind \in Own
          BY <1>1, <3>2, <5>1, <5>2
        <5> QED
          BY <4>2, <5>3 DEF OwnInv
      <4> QED
        BY <4>1, <4>2
    <3> QED
      BY <3>1, <3>2
  <2> QED
    BY <1>6, <2>1, <2>2, <2>3
<1>7. ASSUME NEW x \in Flights, Arrive(x)
      PROVE  /\ flight[f].kind = flight'[f].kind /\ flight'[f].content = flight[f].content /\ flight'[f].again = flight[f].again
             /\ flight'[f].step = "answered" => flight[f].step = "answered"
             /\ ~ Hear(f)
  <2>1. flight' = [flight EXCEPT ![x] = [flight[x] EXCEPT !.step = "queued"]]
    BY <1>1, <1>7 DEF Arrive
  <2>2. \A y \in Flights : y # x => flight'[y] = flight[y]
    BY <1>1, <2>1
  <2>3. flight'[x] = [flight[x] EXCEPT !.step = "queued"]
    BY <1>1, <2>1
  <2>4. CASE f = x
    <3>1. ~ Hear(f)
      BY <1>7, <2>4 DEF Hear, Arrive
    <3> QED
      BY <1>1, <2>3, <2>4, <3>1 DEF Flush
  <2>5. CASE f # x
    BY <1>3, <2>2, <2>5
  <2> QED
    BY <2>4, <2>5
<1>8. ASSUME NEW x \in Flights, AskForEnd(x) \/ FillView(x) \/ Hold(x)
      PROVE  \/ flight'[f] = flight[f]
             \/ Hold(f) /\ flight'[f].kind = "hold" /\ flight'[f].step = "queued" /\ flight'[f].again = {}
             \/ /\ FillView(f) /\ flight'[f].kind = "fill" /\ flight'[f].again = {}
                /\ flight'[f].content = {b \in Batches : cat.rows[b] > 0 /\ cat.at[b] <= cat.upto}
             \/ AskForEnd(f) /\ flight'[f].kind = "number" /\ flight'[f].again = {}
  <2>1. flight'[x].step = "queued" /\ flight'[x].again = {} /\ \A y \in Flights : y # x => flight'[y] = flight[y]
    BY <1>8, StatementQueues
  <2>2. CASE f # x
    BY <2>1, <2>2
  <2>3. CASE f = x /\ Hold(x)
    <3>1. flight'[x].kind = "hold"
      <4>1. flight' = [flight EXCEPT ![x] = [[NoFlush EXCEPT !.kind = "hold"] EXCEPT !.step = "queued"]]
        BY <2>3 DEF Hold, Submit
      <4> QED
        BY <1>1, <4>1 DEF NoFlush
    <3> QED
      BY <2>1, <2>3, <3>1
  <2>4. CASE f = x /\ AskForEnd(x)
    <3>1. flight'[x].kind = "number"
      <4>1. flight' = [flight EXCEPT ![x] = [[NoFlush EXCEPT !.kind = "number"] EXCEPT !.step = "queued"]]
        BY <2>4 DEF AskForEnd, Submit
      <4> QED
        BY <1>1, <4>1 DEF NoFlush
    <3> QED
      BY <2>1, <2>4, <3>1
  <2>5. CASE f = x /\ FillView(x)
    <3> DEFINE C == {b \in Batches : cat.rows[b] > 0 /\ cat.at[b] <= cat.upto}
    <3>1. flight' = [flight EXCEPT ![x] = [[NoFlush EXCEPT !.kind = "fill", !.content = C] EXCEPT !.step = "queued"]]
      BY <2>5 DEF FillView, Submit
    <3> HIDE DEF C
    <3>2. flight'[x].kind = "fill" /\ flight'[x].content = C
      BY <1>1, <3>1 DEF NoFlush
    <3> QED
      BY <2>1, <2>5, <3>2 DEF C
  <2> QED
    BY <1>8, <2>2, <2>3, <2>4, <2>5
<1>9. ASSUME NEW x \in Flights, Sequence(x)
      PROVE  flight'[f] = flight[f]
  <2>1. flight'[x].kind = flight[x].kind /\ \A y \in Flights : y # x => flight'[y] = flight[y]
    BY <1>9, SequenceMoves
  <2>2. CASE f # x
    BY <2>1, <2>2
  <2>3. CASE f = x
    <3>1. flight[x].kind \notin Kinds
      BY <1>2, <2>1, <2>3
    <3>2. flight' = flight
      BY <1>9, <3>1 DEF Sequence, SequenceBack, SequenceRedone, SequenceRows, SequenceNumber, SequenceFill
    <3> QED
      BY <3>2
  <2> QED
    BY <2>2, <2>3
<1>10. CASE Durable
  <2>1. 1 \in DOMAIN flying /\ flying[1] = Head(flying)
    BY <1>10, Shortens
  <2>2. flight'[f] = IF f \in flying[1].of THEN [flight[f] EXCEPT !.step = "answered"] ELSE flight[f]
    BY <1>1, <1>10, <2>1 DEF Durable
  <2>3. CASE f \in flying[1].of
    <3>1. /\ flight[f].kind = flight'[f].kind /\ flight'[f].content = flight[f].content /\ flight'[f].again = flight[f].again
      BY <1>1, <2>2, <2>3 DEF Flush
    <3>2. flight[f].step = "queued"
      BY <2>1, <2>3 DEF PlaceInv
    <3>3. ~ Hear(f)
      BY <3>2 DEF Hear
    <3> QED
      BY <1>10, <2>3, <3>1, <3>3 DEF OwnInv
  <2> QED
    BY <1>4, <2>2, <2>3
<1>11. ASSUME NEW k \in 0 .. Len(flying), TakeOver(k)
       PROVE  flight'[f] = flight[f]
  BY <1>1, <1>2, <1>11 DEF TakeOver
<1>12. flight[f].kind = flight'[f].kind /\ flight'[f].again = flight[f].again => flight'[f].again = {}
  BY DEF OwnInv
<1> QED
  BY <1>4, <1>5, <1>6, <1>7, <1>8, <1>9, <1>10, <1>11, <1>12 DEF Next

\* So they are answered once.
LEMMA OwnStep ==
  ASSUME TypeOK, NumberInv, PlaceInv, OwnInv, [Next]_vars
  PROVE  OwnInv'
BY OwnFlushes DEF OwnInv

\* Where the table's statement is, after a quiet step.
LEMMA QuietMoves ==
  ASSUME TypeOK, NumberInv, Quietly
  PROVE  \/ stmt'.move = stmt.move /\ stmt'.filed = stmt.filed
         \/ /\ stmt'.move = "still" /\ stmt'.filed = stmt.filed
            /\ \E f \in Flights : Hear(f) /\ flight[f].kind = "hold" /\ flight[f].step = "answered"
         \/ \E f \in Flights : Hold(f) /\ stmt.move = "no" /\ stmt'.move = "holding" /\ stmt'.filed = stmt.filed
         \/ ToFiles
         \/ Release
<1>1. stmt \in [view : {"no", "writing", "made"}, move : {"no", "holding", "still", "filed", "moving", "over"},
                 filed : SUBSET Batches]
  BY DEF TypeOK
<1>2. ASSUME NEW f \in Flights, Hear(f)
      PROVE  \/ stmt'.move = stmt.move /\ stmt'.filed = stmt.filed
             \/ /\ stmt'.move = "still" /\ stmt'.filed = stmt.filed
                /\ flight[f].kind = "hold" /\ flight[f].step = "answered"
  BY <1>1, <1>2 DEF Hear
<1>3. ASSUME NEW f \in Flights, Hold(f)
      PROVE  stmt.move = "no" /\ stmt'.move = "holding" /\ stmt'.filed = stmt.filed
  BY <1>1, <1>3 DEF Hold
<1>4. CASE \/ \E p \in Producers : Produce(p)
           \/ \E f \in Flights : Pack(f) \/ Arrive(f) \/ Lose(f) \/ AskForEnd(f) \/ FillView(f) \/ Sequence(f)
           \/ ReadViews \/ Open \/ UNCHANGED vars
  BY <1>1, <1>4 DEF Produce, Pack, Arrive, Lose, AskForEnd, FillView, Sequence, ReadViews, Open, vars
<1>5. CASE ForgetViews
  BY <1>1, <1>5 DEF ForgetViews
<1> QED
  BY <1>2, <1>3, <1>4, <1>5 DEF Quietly

\* A quiet step keeps the hold.
LEMMA MoveQuiet ==
  ASSUME TypeOK, NumberInv, PlaceInv, OwnInv, MoveInv, Quietly, [Next]_vars
  PROVE  MoveInv'
<1>1. UNCHANGED <<cat, flying>> /\ seqr'.rows = seqr.rows
  BY Quiet
<1>2. (Still' <=> Still) /\ \A i : StillFrom(i)' <=> StillFrom(i)
  BY <1>1 DEF Still, StillFrom
<1>3. ~ Durable \/ flying' # flying
  <2>1. flying \in Seq(Write)
    BY DEF TypeOK
  <2> SUFFICES ASSUME Durable, flying' = flying
               PROVE  FALSE
    OBVIOUS
  <2>2. flying # <<>> /\ Tail(flying) = flying
    BY DEF Durable
  <2>3. Len(Tail(flying)) = Len(flying) - 1 /\ Len(flying) \in Nat
    BY <2>1, <2>2, HeadTailProperties, LenProperties
  <2> QED
    BY <2>2, <2>3
<1>4. ASSUME NEW f \in Flights, flight'[f].kind = "hold"
      PROVE  \/ flight[f].kind = "hold" /\ (flight'[f].step = "answered" => flight[f].step = "answered") /\ ~ Hear(f)
             \/ Hold(f) /\ flight'[f].step = "queued"
  BY <1>1, <1>3, <1>4, OwnFlushes DEF Own
<1>5. /\ Filed(cat)' /\ \A i \in DOMAIN flying' : Filed(flying'[i].to)
      /\ \A i \in DOMAIN flying' : cat'.moved => flying'[i].to.moved
      /\ \A i, j \in DOMAIN flying' : i <= j /\ flying'[i].to.moved => flying'[j].to.moved
  BY <1>1 DEF MoveInv, Filed
<1>6. \A i \in DOMAIN flying : flying[i].of \in SUBSET Flights
  BY PlacesType
<1>7. CASE stmt'.move = stmt.move /\ stmt'.filed = stmt.filed
  <2>1. \A f \in Flights : ~ Hold(f)
    BY <1>7 DEF Hold, TypeOK
  <2>2. \A f \in Flights : flight'[f].kind = "hold" =>
            flight[f].kind = "hold" /\ (flight'[f].step = "answered" => flight[f].step = "answered")
    BY <1>4, <2>1
  <2>3. \A f \in Flights : flight'[f].kind = "hold" =>
          /\ stmt'.move = "holding"
          /\ flight'[f].step = "answered" => Still'
          /\ \A g \in Flights : flight'[g].kind = "hold" => g = f
    BY <1>2, <1>7, <2>2 DEF MoveInv
  <2>4. \A i \in DOMAIN flying' : \A f \in flying'[i].of : flight'[f].kind = "hold" => StillFrom(i)'
    BY <1>1, <1>2, <1>6, <2>2 DEF MoveInv
  <2>5. /\ (cat'.moved \/ \E i \in DOMAIN flying' : flying'[i].to.moved) =>
              stmt'.move = "moving" \/ (stmt'.move = "over" /\ cat'.moved)
        /\ stmt'.move \in {"still", "filed", "moving"} \/ cat'.moved => Still'
        /\ stmt'.move \in {"filed", "moving"} => \A b \in Batches : cat'.rows[b] > 0 => b \in stmt'.filed
    BY <1>1, <1>2, <1>7 DEF MoveInv
  <2> QED
    BY <1>5, <2>3, <2>4, <2>5 DEF MoveInv
<1>8. ASSUME NEW f \in Flights, Hear(f), flight[f].kind = "hold", flight[f].step = "answered",
             stmt'.move = "still", stmt'.filed = stmt.filed
      PROVE  MoveInv'
  <2>1. Still /\ stmt.move = "holding" /\ \A g \in Flights : flight[g].kind = "hold" => g = f
    BY <1>8 DEF MoveInv
  <2>2. \A g \in Flights : ~ Hold(g)
    BY <1>8, <2>1 DEF Hold
  <2>3. \A g \in Flights : flight'[g].kind # "hold"
    BY <1>4, <1>8, <2>1, <2>2
  <2>4. ~ cat.moved /\ \A i \in DOMAIN flying : ~ flying[i].to.moved
    BY <2>1 DEF MoveInv
  <2> QED
    BY <1>1, <1>2, <1>5, <1>6, <1>8, <2>1, <2>3, <2>4 DEF MoveInv
<1>9. ASSUME NEW f \in Flights, Hold(f), stmt.move = "no", stmt'.move = "holding", stmt'.filed = stmt.filed
      PROVE  MoveInv'
  <2>1. \A g \in Flights : flight[g].kind # "hold"
    BY <1>9 DEF MoveInv
  <2>2. flight[f].step = "free" /\ flight'[f].step = "queued" /\ \A g \in Flights : g # f => flight'[g] = flight[g]
    BY <1>9, StatementQueues
  <2>3. \A g \in Flights : flight'[g].kind = "hold" => g = f
    BY <2>1, <2>2
  <2>4. ~ cat.moved /\ \A i \in DOMAIN flying : ~ flying[i].to.moved
    BY <1>9 DEF MoveInv
  <2>5. \A i \in DOMAIN flying : f \notin flying[i].of
    BY <2>2 DEF PlaceInv
  <2>6. \A g \in Flights : flight'[g].kind = "hold" =>
          /\ stmt'.move = "holding"
          /\ flight'[g].step = "answered" => Still'
          /\ \A x \in Flights : flight'[x].kind = "hold" => x = g
    BY <1>9, <2>2, <2>3
  <2>7. \A i \in DOMAIN flying' : \A g \in flying'[i].of : flight'[g].kind # "hold"
    BY <1>1, <1>6, <2>3, <2>5
  <2> QED
    BY <1>1, <1>2, <1>5, <1>9, <2>4, <2>6, <2>7 DEF MoveInv
<1>10. CASE ToFiles
  <2>1. /\ stmt.move = "still" /\ stmt'.move = "filed" /\ stmt'.filed = {b \in Batches : cat.rows[b] > 0}
        /\ flight' = flight
    BY <1>10 DEF ToFiles, TypeOK
  <2>2. Still /\ (\A g \in Flights : flight[g].kind # "hold") /\ ~ cat.moved /\ \A i \in DOMAIN flying : ~ flying[i].to.moved
    BY <2>1 DEF MoveInv
  <2>3. \A b \in Batches : cat'.rows[b] > 0 => b \in stmt'.filed
    BY <1>1, <2>1
  <2> QED
    BY <1>1, <1>2, <1>5, <1>6, <2>1, <2>2, <2>3 DEF MoveInv
<1>11. CASE Release
  <2>1. /\ stmt.move \in {"still", "filed"} \/ (stmt.move = "moving" /\ cat.moved)
        /\ stmt'.move = "over" /\ flight' = flight
    BY <1>11 DEF Release, TypeOK
  <2>2. /\ Still /\ (\A g \in Flights : flight[g].kind # "hold")
        /\ (cat.moved \/ \E i \in DOMAIN flying : flying[i].to.moved) => cat.moved
    BY <2>1 DEF MoveInv
  <2> QED
    BY <1>1, <1>2, <1>5, <1>6, <2>1, <2>2 DEF MoveInv
<1> QED
  BY <1>7, <1>8, <1>9, <1>10, <1>11, QuietMoves

\* Zero more of each is as many.
LEMMA NoneMore ==
  ASSUME NEW t \in Tally, NEW u, \A b \in Batches : u[b] = 0
  PROVE  [b \in Batches |-> t[b] + u[b]] = t
<1>1. \A b \in Batches : t[b] + u[b] = t[b]
  BY DEF Tally
<1> QED
  BY <1>1 DEF Tally

\* The newest catalog's rows are those of every write that nothing followed.
LEMMA NewestStill ==
  ASSUME TypeOK
  PROVE  /\ Still => Newest.rows = cat.rows
         /\ \A i \in DOMAIN flying : StillFrom(i) => Newest.rows = flying[i].to.rows
<1>1. Newest = cat \/ \E i \in DOMAIN flying : Newest = flying[i].to /\ \A j \in DOMAIN flying : j <= i
  BY NewestIs
<1>2. ASSUME NEW i \in DOMAIN flying
      PROVE  flying # <<>>
  OBVIOUS
<1>3. flying # <<>> => Newest = flying[Len(flying)].to
  BY DEF Newest
<1>4. flying \in Seq(Write)
  BY DEF TypeOK
<1>5. flying # <<>> => Len(flying) \in DOMAIN flying /\ \A j \in DOMAIN flying : j <= Len(flying)
  BY <1>4, LenProperties, EmptySeq
<1> QED
  BY <1>1, <1>2, <1>3, <1>5 DEF Still, StillFrom

\* The newest catalog has the entry gone if any has.
LEMMA NewestMoved ==
  ASSUME TypeOK, MoveInv
  PROVE  Newest.moved <=> (cat.moved \/ \E i \in DOMAIN flying : flying[i].to.moved)
<1>1. Newest = cat \/ \E i \in DOMAIN flying : Newest = flying[i].to /\ \A j \in DOMAIN flying : j <= i
  BY NewestIs
<1>2. CASE flying = <<>>
  BY <1>2 DEF Newest
<1>3. CASE flying # <<>>
  <2>1. flying \in Seq(Write)
    BY DEF TypeOK
  <2>2. Len(flying) \in DOMAIN flying /\ \A j \in DOMAIN flying : j <= Len(flying)
    BY <1>3, <2>1, LenProperties, EmptySeq
  <2>3. Newest = flying[Len(flying)].to
    BY <1>3 DEF Newest
  <2> QED
    BY <2>2, <2>3 DEF MoveInv
<1> QED
  BY <1>2, <1>3

\* Every step keeps the hold, and what it holds (ddl.rs `still`, log.rs `hold`).
LEMMA MoveStep ==
  ASSUME TypeOK, NumberInv, PlaceInv, OwnInv, MoveInv, [Next]_vars
  PROVE  MoveInv'
<1>0. \A i \in DOMAIN flying : flying[i].of \in SUBSET Flights
  BY PlacesType
<1>1. CASE Quietly
  BY <1>1, MoveQuiet
<1>2. ASSUME NEW f \in Flights, Sequence(f), SequenceRows(f)
      PROVE  MoveInv'
  <2>1. PICK new \in SUBSET Batches :
          /\ new = flight[f].parts \ LeftOut(flight[f].parts)
          /\ flight[f].kind \in Kinds /\ ~Held
          /\ UNCHANGED <<cat, flying, cl, stmt, takeovers>>
          /\ seqr'.rows = [b \in Batches |-> IF b \in new THEN seqr.rows[b] + 1 ELSE seqr.rows[b]]
    BY <1>2, RowsIs
  <2>2. ~ Durable
    <3>1. flying # <<>> => flying \in Seq(Write) /\ Len(Tail(flying)) = Len(flying) - 1 /\ Len(flying) \in Nat
      BY HeadTailProperties, LenProperties DEF TypeOK
    <3> QED
      BY <2>1, <3>1 DEF Durable
  <2>3. \A g \in Flights : flight'[g].kind = flight[g].kind
    BY <1>2, SequenceMoves
  <2>4. stmt.move \in {"no", "over"} /\ \A g \in Flights : flight[g].kind # "hold"
    BY <2>1 DEF Held, MoveInv, TypeOK
  <2>5. cat.moved => Still'
    <3> SUFFICES ASSUME cat.moved
                 PROVE  Still'
      OBVIOUS
    <3>1. new = {}
      BY <2>1 DEF LeftOut
    <3>2. Still
      BY DEF MoveInv
    <3> QED
      BY <2>1, <3>1, <3>2 DEF Still
  <2> QED
    BY <1>0, <2>1, <2>3, <2>4, <2>5 DEF MoveInv, Filed
<1>3. CASE Commit
  <2>1. PICK w \in Write :
         /\ flying' = Append(flying, w) /\ w.of = seqr.of
         /\ UNCHANGED <<cat, flight, cl, stmt, takeovers>>
         /\ w.to.rows = [b \in Batches |-> Newest.rows[b] + seqr.rows[b]]
         /\ w.to.moved = Newest.moved /\ w.to.filed = Newest.filed
         /\ seqr'.rows = None
    BY <1>3, CommitIs
  <2>2. /\ \A i \in DOMAIN flying : i \in DOMAIN flying' /\ flying'[i] = flying[i] /\ i <= Len(flying) /\ i \in Nat
        /\ flying'[Len(flying) + 1] = w /\ Len(flying) \in Nat
        /\ \A i \in DOMAIN flying' : i \in DOMAIN flying \/ i = Len(flying) + 1
    BY <2>1, Lengthens
  <2>3. (\A b \in Batches : seqr.rows[b] = 0) => w.to.rows = Newest.rows
    <3>1. Newest.rows \in Tally
      BY NewestType DEF Catalog
    <3> QED
      BY <2>1, <3>1, NoneMore
  <2>4. \A b \in Batches : seqr'.rows[b] = 0
    BY <2>1 DEF None
  <2>5. Still => Still'
    BY <2>1, <2>2, <2>3, <2>4, NewestStill DEF Still
  <2>6. \A i \in DOMAIN flying : StillFrom(i) => StillFrom(i)'
    BY <2>2, <2>3, <2>4, NewestStill DEF StillFrom
  <2> PICK m : m = Len(flying) + 1
    OBVIOUS
  <2>7. StillFrom(m)'
    BY <2>2, <2>4 DEF StillFrom
  <2>8. Newest.moved <=> (cat.moved \/ \E i \in DOMAIN flying : flying[i].to.moved)
    BY NewestMoved
  <2>15. /\ \A i \in DOMAIN flying' : cat'.moved => flying'[i].to.moved
         /\ \A i, j \in DOMAIN flying' : i <= j /\ flying'[i].to.moved => flying'[j].to.moved
    BY <2>1, <2>2, <2>8 DEF MoveInv
  <2>9. Filed(w.to)
    <3>1. Filed(Newest)
      BY NewestIs DEF MoveInv
    <3>2. Newest.moved => Still
      BY <2>8 DEF MoveInv
    <3> QED
      BY <2>1, <2>3, <3>1, <3>2 DEF Filed, Still
  <2>10. Filed(cat)' /\ \A i \in DOMAIN flying' : Filed(flying'[i].to)
    BY <2>1, <2>2, <2>9 DEF MoveInv, Filed
  <2>11. (cat'.moved \/ \E i \in DOMAIN flying' : flying'[i].to.moved) =>
              stmt'.move = "moving" \/ (stmt'.move = "over" /\ cat'.moved)
    BY <2>1, <2>2, <2>8 DEF MoveInv
  <2>12. \A i \in DOMAIN flying' : \A f \in flying'[i].of : flight'[f].kind = "hold" => StillFrom(i)'
    <3> SUFFICES ASSUME NEW i \in DOMAIN flying', NEW f \in flying'[i].of, flight'[f].kind = "hold"
                 PROVE  StillFrom(i)'
      OBVIOUS
    <3>1. CASE i \in DOMAIN flying
      BY <2>1, <2>2, <2>6, <3>1 DEF MoveInv
    <3>2. CASE i = m
      BY <2>7, <3>2
    <3> QED
      BY <2>2, <3>1, <3>2
  <2>13. \A f \in Flights : flight'[f].kind = "hold" =>
          /\ stmt'.move = "holding"
          /\ flight'[f].step = "answered" => Still'
          /\ \A g \in Flights : flight'[g].kind = "hold" => g = f
    BY <2>1, <2>5 DEF MoveInv
  <2>14. /\ stmt'.move \in {"still", "filed", "moving"} \/ cat'.moved => Still'
         /\ stmt'.move \in {"filed", "moving"} => \A b \in Batches : cat'.rows[b] > 0 => b \in stmt'.filed
    BY <2>1, <2>5 DEF MoveInv
  <2> QED
    BY <2>10, <2>11, <2>12, <2>13, <2>14, <2>15 DEF MoveInv
<1>4. CASE MakeView \/ Move
  <2>1. PICK w \in Write :
         /\ flying' = Append(flying, w) /\ w.of = {} /\ w.to.rows = Newest.rows
         /\ \/ MakeView /\ w.to.moved = Newest.moved /\ w.to.filed = Newest.filed
            \/ Move /\ w.to.filed = stmt.filed /\ w.to.moved
    BY <1>4, MakeViewIs, MoveIs
  <2>2. /\ \A i \in DOMAIN flying : i \in DOMAIN flying' /\ flying'[i] = flying[i] /\ i <= Len(flying) /\ i \in Nat
        /\ flying'[Len(flying) + 1] = w /\ Len(flying) \in Nat
        /\ \A i \in DOMAIN flying' : i \in DOMAIN flying \/ i = Len(flying) + 1
    BY <2>1, Lengthens
  <2>3. UNCHANGED <<cat, seqr, flight>> /\ stmt'.filed = stmt.filed
        /\ \/ MakeView /\ stmt'.move = stmt.move
           \/ Move /\ stmt.move = "filed" /\ stmt'.move = "moving"
    BY <1>4 DEF MakeView, Move, TypeOK
  <2>4. (Still => Still') /\ \A i \in DOMAIN flying : StillFrom(i) => StillFrom(i)'
    BY <2>1, <2>2, <2>3, NewestStill DEF Still, StillFrom
  <2>5. Newest.moved <=> (cat.moved \/ \E i \in DOMAIN flying : flying[i].to.moved)
    BY NewestMoved
  <2>12. /\ \A i \in DOMAIN flying' : cat'.moved => flying'[i].to.moved
         /\ \A i, j \in DOMAIN flying' : i <= j /\ flying'[i].to.moved => flying'[j].to.moved
    BY <2>1, <2>2, <2>3, <2>5 DEF MoveInv
  <2>6. Filed(w.to)
    <3>1. CASE w.to.filed = Newest.filed /\ w.to.moved = Newest.moved
      <4>1. Filed(Newest)
        BY NewestIs DEF MoveInv
      <4> QED
        BY <2>1, <3>1, <4>1 DEF Filed
    <3>2. CASE stmt.move = "filed" /\ w.to.filed = stmt.filed
      <4>1. Still /\ \A b \in Batches : cat.rows[b] > 0 => b \in stmt.filed
        BY <3>2 DEF MoveInv
      <4>2. w.to.rows = cat.rows
        BY <2>1, <4>1, NewestStill
      <4> QED
        BY <3>2, <4>1, <4>2 DEF Filed
    <3> QED
      BY <2>1, <2>3, <3>1, <3>2 DEF Move
  <2>7. Filed(cat)' /\ \A i \in DOMAIN flying' : Filed(flying'[i].to)
    BY <2>2, <2>3, <2>6 DEF MoveInv, Filed
  <2>8. (cat'.moved \/ \E i \in DOMAIN flying' : flying'[i].to.moved) =>
              stmt'.move = "moving" \/ (stmt'.move = "over" /\ cat'.moved)
    <3>1. CASE Move
      <4>1. ~ MakeView
        BY <3>1 DEF Move, MakeView
      <4> QED
        BY <2>3, <4>1
    <3>2. CASE MakeView
      <4>1. stmt'.move = stmt.move /\ stmt.move = "no"
        BY <2>3, <3>2 DEF MakeView, Move
      <4>2. ~ Newest.moved
        BY <2>5, <4>1 DEF MoveInv
      <4>3. w.to.moved = Newest.moved
        BY <2>1, <4>1 DEF Move
      <4>4. ~ cat.moved /\ \A i \in DOMAIN flying : ~ flying[i].to.moved
        BY <4>1 DEF MoveInv
      <4> QED
        BY <2>2, <2>3, <4>2, <4>3, <4>4
    <3> QED
      BY <1>4, <3>1, <3>2
  <2>9. \A i \in DOMAIN flying' : \A f \in flying'[i].of : flight'[f].kind = "hold" => StillFrom(i)'
    BY <2>1, <2>2, <2>3, <2>4 DEF MoveInv
  <2>10. \A f \in Flights : flight'[f].kind = "hold" =>
          /\ stmt'.move = "holding"
          /\ flight'[f].step = "answered" => Still'
          /\ \A g \in Flights : flight'[g].kind = "hold" => g = f
    BY <2>3, <2>4 DEF MoveInv
  <2>11. /\ stmt'.move \in {"still", "filed", "moving"} \/ cat'.moved => Still'
         /\ stmt'.move \in {"filed", "moving"} => \A b \in Batches : cat'.rows[b] > 0 => b \in stmt'.filed
    BY <2>3, <2>4 DEF MoveInv
  <2> QED
    BY <2>7, <2>8, <2>9, <2>10, <2>11, <2>12 DEF MoveInv
<1>5. CASE Durable
  <2>1. /\ 1 \in DOMAIN flying /\ cat' = flying[1].to
        /\ \A i \in DOMAIN flying' : i + 1 \in DOMAIN flying /\ flying'[i] = flying[i + 1] /\ i \in Nat /\ i >= 1
        /\ \A i \in DOMAIN flying : i \in Nat /\ i >= 1
    BY <1>5, Shortens
  <2>2. UNCHANGED <<seqr, stmt>>
    BY <1>5 DEF Durable
  <2>3. (Still => Still') /\ (StillFrom(1) => Still') /\ \A i \in DOMAIN flying' : StillFrom(i + 1) => StillFrom(i)'
    BY <2>1, <2>2 DEF Still, StillFrom
  <2>4. \A f \in Flights : flight'[f].kind = "hold" =>
          /\ flight[f].kind = "hold"
          /\ flight'[f].step = "answered" => flight[f].step = "answered" \/ f \in flying[1].of
    <3>1. \A f \in Flights : ~ Hold(f)
      BY <2>1, <1>5, Shortens DEF Hold, Durable, TypeOK
    <3> QED
      BY <3>1, OwnFlushes DEF Own
  <2>5. Filed(cat)' /\ \A i \in DOMAIN flying' : Filed(flying'[i].to)
    BY <2>1 DEF MoveInv, Filed
  <2>6. (cat'.moved \/ \E i \in DOMAIN flying' : flying'[i].to.moved) =>
              (cat.moved \/ \E i \in DOMAIN flying : flying[i].to.moved)
    BY <2>1
  <2>7. \A f \in Flights : flight'[f].kind = "hold" =>
          /\ stmt'.move = "holding"
          /\ flight'[f].step = "answered" => Still'
          /\ \A g \in Flights : flight'[g].kind = "hold" => g = f
    BY <2>1, <2>2, <2>3, <2>4 DEF MoveInv
  <2>8. \A i \in DOMAIN flying' : \A f \in flying'[i].of : flight'[f].kind = "hold" => StillFrom(i)'
    BY <1>0, <2>1, <2>3, <2>4 DEF MoveInv
  <2>9. /\ cat.moved => cat'.moved
        /\ \A i \in DOMAIN flying' : cat'.moved => flying'[i].to.moved
        /\ \A i, j \in DOMAIN flying' : i <= j /\ flying'[i].to.moved => flying'[j].to.moved
    BY <2>1 DEF MoveInv
  <2>10. cat'.moved => cat.moved \/ \E i \in DOMAIN flying : flying[i].to.moved
    BY <2>1
  <2>11. stmt.move \in {"still", "filed", "moving"} \/ cat'.moved => Still'
    BY <2>3, <2>10 DEF MoveInv
  <2>12. stmt.move \in {"filed", "moving"} => \A b \in Batches : cat'.rows[b] > 0 => b \in stmt.filed
    BY <2>1 DEF MoveInv, Still
  <2>13. (cat'.moved \/ \E i \in DOMAIN flying' : flying'[i].to.moved) =>
              stmt.move = "moving" \/ (stmt.move = "over" /\ cat'.moved)
    BY <2>6, <2>9 DEF MoveInv
  <2> QED
    BY <2>2, <2>5, <2>7, <2>8, <2>9, <2>11, <2>12, <2>13 DEF MoveInv
<1>6. ASSUME NEW k \in 0 .. Len(flying), TakeOver(k)
      PROVE  MoveInv'
  <2>1. /\ cat' = Kept(k) /\ DOMAIN flying' = {} /\ seqr'.rows = None
        /\ Kept(k) = cat \/ \E i \in DOMAIN flying : Kept(k) = flying[i].to
    BY <1>6, TakenOver
  <2>2. /\ stmt'.move = IF Kept(k).moved THEN "over" ELSE "no"
        /\ \A f \in Flights : flight'[f].kind # "hold"
    BY <1>6, KindsAssumption DEF TakeOver, Kept, NoFlush, TypeOK
  <2>3. Still'
    BY <2>1 DEF Still, None
  <2> QED
    BY <2>1, <2>2, <2>3 DEF MoveInv, Filed
<1> QED
  BY <1>1, <1>2, <1>3, <1>4, <1>5, <1>6, NextIs

\* It holds at the start, where nothing is held.
LEMMA MoveStart == Init => OwnInv /\ MoveInv
<1> SUFFICES ASSUME Init
             PROVE  OwnInv /\ MoveInv
  OBVIOUS
<1>1. /\ cat = Empty /\ DOMAIN flying = {} /\ stmt.move = "no"
      /\ \A f \in Flights : flight[f].kind = "inline" /\ flight[f].again = {}
  BY DEF Init, NoFlush
<1> QED
  BY <1>1 DEF OwnInv, MoveInv, Filed, Empty

-----------------------------------------------------------------------------
(* The order of a producer's rows                                          *)

\* Segments are numbered below their catalog's next number; those of the commit that is built, from the
\* newest catalog's on.
NumberedInv ==
    /\ Newest.n <= seqr.n /\ (seqr.step # "open" => seqr.n = Newest.n)
    /\ \A b \in Batches : cat.at[b] < cat.n /\ \A i \in DOMAIN flying : flying[i].to.at[b] < flying[i].to.n
    /\ \A b \in Batches :
        /\ seqr.at[b] < seqr.n
        /\ seqr.rows[b] = 0 => b \notin seqr.inline /\ seqr.at[b] = 0
        /\ seqr.rows[b] # 0 => AtNow(b) >= Newest.n /\ seqr.step = "open"

\* The numbers' types.
LEMMA NumbersType ==
  ASSUME TypeOK
  PROVE  /\ seqr.n \in Nat /\ cat.n \in Nat /\ Newest.n \in Nat /\ \A i \in DOMAIN flying : flying[i].to.n \in Nat
         /\ \A b \in Batches : /\ seqr.at[b] \in Nat /\ cat.at[b] \in Nat /\ Newest.at[b] \in Nat
                               /\ seqr.rows[b] \in Nat /\ Newest.rows[b] \in Nat /\ AtNow(b) \in Nat
                               /\ \A i \in DOMAIN flying : flying[i].to.at[b] \in Nat
<1>1. seqr \in Sequencer /\ cat \in Catalog /\ Newest \in Catalog
  BY NewestType DEF TypeOK
<1>2. \A i \in DOMAIN flying : flying[i].to \in Catalog
  <2>1. flying \in Seq(Write)
    BY DEF TypeOK
  <2>2. \A i \in DOMAIN flying : flying[i] \in Write
    BY <2>1
  <2> QED
    BY <2>2 DEF Write
<1>3. /\ seqr.n \in Nat /\ cat.n \in Nat /\ Newest.n \in Nat /\ seqr.at \in Tally /\ cat.at \in Tally
      /\ Newest.at \in Tally /\ seqr.rows \in Tally /\ Newest.rows \in Tally
      /\ \A i \in DOMAIN flying : flying[i].to.n \in Nat /\ flying[i].to.at \in Tally
  BY <1>1, <1>2 DEF Sequencer, Catalog
<1> QED
  BY <1>3 DEF Tally, AtNow

\* The newest catalog is numbered so.
LEMMA NewestNumbered ==
  ASSUME TypeOK, NumberInv, NumberedInv
  PROVE  Newest.n >= 1 /\ \A b \in Batches : Newest.at[b] < Newest.n
BY NewestIs DEF NumberInv, NumberedInv

\* A commit's segments get the numbers before its catalog's next.
LEMMA CommitNumbers ==
  ASSUME TypeOK, NumberInv, NumberedInv, NEW w \in Write,
         w.to.n = IF seqr.inline = {} THEN seqr.n ELSE seqr.n + 1,
         \A b \in Batches : w.to.at[b] = IF AtNow(b) > 0 THEN AtNow(b) ELSE Newest.at[b],
         NEW b \in Batches
  PROVE  /\ w.to.at[b] < w.to.n
         /\ seqr.rows[b] # 0 => w.to.at[b] = AtNow(b) /\ Newest.n <= w.to.at[b]
         /\ seqr.rows[b] = 0 => w.to.at[b] = Newest.at[b]
<1>1. /\ Newest.n >= 1 /\ Newest.at[b] < Newest.n /\ Newest.n <= seqr.n
      /\ seqr.n \in Nat /\ Newest.n \in Nat /\ seqr.at[b] \in Nat /\ Newest.at[b] \in Nat /\ AtNow(b) \in Nat
  BY NewestNumbered, NumbersType DEF NumberedInv
<1>2. /\ seqr.at[b] < seqr.n
      /\ seqr.rows[b] = 0 => b \notin seqr.inline /\ seqr.at[b] = 0
      /\ seqr.rows[b] # 0 => AtNow(b) >= Newest.n
  BY DEF NumberedInv
<1>3. AtNow(b) = IF b \in seqr.inline THEN seqr.n ELSE seqr.at[b]
  BY DEF AtNow
<1>4. /\ w.to.n = IF seqr.inline = {} THEN seqr.n ELSE seqr.n + 1
      /\ w.to.at[b] = IF AtNow(b) > 0 THEN AtNow(b) ELSE Newest.at[b]
  OBVIOUS
<1>5. w.to.at[b] < w.to.n
  <2>1. CASE b \in seqr.inline
    BY <1>1, <1>3, <1>4, <2>1
  <2>2. CASE b \notin seqr.inline
    <3>1. seqr.n <= w.to.n /\ w.to.n \in Nat
      BY <1>1, <1>4
    <3>2. w.to.at[b] \in Nat /\ w.to.at[b] < seqr.n
      BY <1>1, <1>2, <1>3, <1>4, <2>2
    <3> QED
      BY <1>1, <3>1, <3>2
  <2> QED
    BY <2>1, <2>2
<1> QED
  BY <1>1, <1>2, <1>3, <1>4, <1>5

\* Every step keeps the numbers so.
LEMMA NumberedStep ==
  ASSUME TypeOK, NumberInv, NumberedInv, [Next]_vars
  PROVE  NumberedInv'
<1>0. TypeOK'
  BY NextType
<1>1. CASE Quietly
  <2>1. /\ UNCHANGED <<cat, flying>> /\ seqr'.rows = seqr.rows /\ seqr'.at = seqr.at /\ seqr'.inline = seqr.inline
        /\ \/ seqr'.n = seqr.n /\ seqr'.step = seqr.step
           \/ seqr'.n = seqr.n /\ seqr'.step = "reading" /\ seqr.step = "idle"
           \/ seqr'.n = seqr.n /\ seqr'.step = "open" /\ seqr.step # "open"
           \/ seqr'.n = seqr.n + 1 /\ seqr.step = "open" /\ seqr'.step = "open"
    BY <1>1, QuietIs DEF ReadViews, Open
  <2>2. Newest' = Newest
    BY <2>1 DEF Newest
  <2>3. seqr.n \in Nat /\ Newest.n \in Nat
    BY NumbersType
  <2>4. Newest'.n <= seqr'.n /\ (seqr'.step # "open" => seqr'.n = Newest'.n)
    BY <2>1, <2>2, <2>3 DEF NumberedInv
  <2>5. ASSUME NEW b \in Batches
        PROVE  /\ seqr'.at[b] < seqr'.n
               /\ seqr'.rows[b] = 0 => b \notin seqr'.inline /\ seqr'.at[b] = 0
               /\ seqr'.rows[b] # 0 => AtNow(b)' >= Newest'.n /\ seqr'.step = "open"
    <3>1. seqr.at[b] \in Nat
      BY NumbersType
    <3> QED
      BY <2>1, <2>2, <2>3, <3>1 DEF NumberedInv, AtNow
  <2> QED
    BY <2>1, <2>4, <2>5 DEF NumberedInv
<1>2. ASSUME NEW f \in Flights, Sequence(f), SequenceRows(f)
      PROVE  NumberedInv'
  <2>1. PICK new \in SUBSET Batches :
         /\ UNCHANGED <<cat, flying>> /\ seqr.step = "open" /\ seqr'.step = "open"
         /\ seqr'.rows = [b \in Batches |-> IF b \in new THEN seqr.rows[b] + 1 ELSE seqr.rows[b]]
         /\ \/ /\ seqr'.n = seqr.n + 1 /\ seqr'.inline = seqr.inline
               /\ seqr'.at = [b \in Batches |-> IF b \in new THEN seqr.n ELSE seqr.at[b]]
            \/ /\ seqr'.n = seqr.n /\ seqr'.inline = seqr.inline \cup new /\ seqr'.at = seqr.at
    BY <1>2, RowsIs
  <2>2. Newest' = Newest
    BY <2>1 DEF Newest
  <2>3. seqr.n \in Nat /\ Newest.n \in Nat /\ Newest.n <= seqr.n
    BY NumbersType DEF NumberedInv
  <2>4. ASSUME NEW b \in Batches
        PROVE  /\ seqr'.at[b] < seqr'.n
               /\ seqr'.rows[b] = 0 => b \notin seqr'.inline /\ seqr'.at[b] = 0
               /\ seqr'.rows[b] # 0 => AtNow(b)' >= Newest'.n /\ seqr'.step = "open"
    <3>1. /\ seqr.at[b] \in Nat /\ seqr.rows[b] \in Nat /\ seqr.at[b] < seqr.n
          /\ seqr.rows[b] = 0 => b \notin seqr.inline /\ seqr.at[b] = 0
          /\ seqr.rows[b] # 0 => (IF b \in seqr.inline THEN seqr.n ELSE seqr.at[b]) >= Newest.n
      BY NumbersType DEF NumberedInv, AtNow
    <3>2. seqr'.rows[b] = IF b \in new THEN seqr.rows[b] + 1 ELSE seqr.rows[b]
      BY <2>1
    <3>3. \/ seqr'.n = seqr.n + 1 /\ seqr'.inline = seqr.inline /\ seqr'.at[b] = IF b \in new THEN seqr.n ELSE seqr.at[b]
          \/ seqr'.n = seqr.n /\ (b \in seqr'.inline <=> b \in seqr.inline \/ b \in new) /\ seqr'.at[b] = seqr.at[b]
      BY <2>1
    <3>4. AtNow(b)' = IF b \in seqr'.inline THEN seqr'.n ELSE seqr'.at[b]
      BY DEF AtNow
    <3> QED
      BY <2>1, <2>2, <2>3, <3>1, <3>2, <3>3, <3>4
  <2> QED
    BY <2>1, <2>2, <2>3, <2>4 DEF NumberedInv
<1>3. CASE Commit
  <2>1. PICK w \in Write :
         /\ flying' = Append(flying, w) /\ cat' = cat /\ w.to.n = seqr'.n
         /\ w.to.n = (IF seqr.inline = {} THEN seqr.n ELSE seqr.n + 1)
         /\ \A b \in Batches : w.to.at[b] = IF AtNow(b) > 0 THEN AtNow(b) ELSE Newest.at[b]
         /\ seqr'.rows = None /\ seqr'.at = None /\ seqr'.inline = {} /\ seqr'.step = "idle"
    BY <1>3, CommitIs, ZenonT(60)
  <2>2. /\ \A i \in DOMAIN flying' : (i \in DOMAIN flying /\ flying'[i] = flying[i]) \/ flying'[i] = w
        /\ Newest' = w.to
    BY <2>1, Lengthens
  <2>3. \A b \in Batches : w.to.at[b] < w.to.n
    BY <2>1, CommitNumbers
  <2>4. seqr'.n \in Nat /\ seqr'.n >= 1
    <3>1. seqr.n \in Nat /\ seqr.n >= 1
      BY NumbersType DEF NumberInv
    <3> QED
      BY <2>1, <3>1
  <2>5. \A b \in Batches : seqr'.rows[b] = 0 /\ seqr'.at[b] = 0 /\ b \notin seqr'.inline /\ 0 < seqr'.n
    BY <2>1, <2>4 DEF None
  <2>6. Newest'.n <= seqr'.n /\ seqr'.n = Newest'.n
    BY <2>1, <2>2, <2>4
  <2>7. \A b \in Batches : cat'.at[b] < cat'.n /\ \A i \in DOMAIN flying' : flying'[i].to.at[b] < flying'[i].to.n
    BY <2>1, <2>2, <2>3 DEF NumberedInv
  <2> QED
    BY <2>5, <2>6, <2>7 DEF NumberedInv
<1>4. CASE MakeView \/ Move
  <2>1. PICK w \in Write : flying' = Append(flying, w) /\ w.to.n = Newest.n /\ w.to.at = Newest.at
    BY <1>4, MakeViewIs, MoveIs
  <2>2. cat' = cat /\ seqr' = seqr
    BY <1>4 DEF MakeView, Move
  <2>3. /\ \A i \in DOMAIN flying' : (i \in DOMAIN flying /\ flying'[i] = flying[i]) \/ flying'[i] = w
        /\ Newest' = w.to
    BY <2>1, Lengthens
  <2>4. \A b \in Batches : AtNow(b)' = AtNow(b)
    BY <2>2 DEF AtNow
  <2>5. \A b \in Batches : w.to.at[b] < w.to.n
    BY <2>1, NewestNumbered
  <2> QED
    BY <2>1, <2>2, <2>3, <2>4, <2>5 DEF NumberedInv
<1>5. CASE Durable
  <2>1. seqr' = seqr /\ Newest' = Newest
    BY <1>5, Shortens DEF Durable
  <2>2. \A b \in Batches : AtNow(b)' = AtNow(b)
    BY <2>1 DEF AtNow
  <2>3. /\ 1 \in DOMAIN flying /\ cat' = flying[1].to
        /\ \A i \in DOMAIN flying' : i + 1 \in DOMAIN flying /\ flying'[i] = flying[i + 1]
    BY <1>5, Shortens
  <2> QED
    BY <2>1, <2>2, <2>3 DEF NumberedInv
<1>6. ASSUME NEW k \in 0 .. Len(flying), TakeOver(k)
      PROVE  NumberedInv'
  <2>1. /\ cat' = Kept(k) /\ DOMAIN flying' = {} /\ Newest' = cat' /\ seqr'.n = cat'.n /\ seqr'.rows = None
        /\ Kept(k) = cat \/ \E i \in DOMAIN flying : Kept(k) = flying[i].to
    BY <1>6, TakenOver
  <2>2. seqr'.at = None /\ seqr'.inline = {}
    BY <1>6 DEF TakeOver, Started, NewSequencer
  <2>3. cat'.n \in Nat /\ cat'.n >= 1
    <3>1. NumberInv'
      BY NumberStep
    <3> QED
      BY <1>0, <3>1 DEF NumberInv, TypeOK, Catalog
  <2>4. \A b \in Batches : cat'.at[b] < cat'.n
    BY <2>1 DEF NumberedInv
  <2>5. \A b \in Batches : seqr'.rows[b] = 0 /\ seqr'.at[b] = 0 /\ b \notin seqr'.inline /\ 0 < seqr'.n
    BY <2>1, <2>2, <2>3 DEF None
  <2>6. Newest'.n <= seqr'.n /\ seqr'.n = Newest'.n
    BY <2>1, <2>3
  <2> QED
    BY <2>1, <2>4, <2>5, <2>6 DEF NumberedInv
<1> QED
  BY <1>1, <1>2, <1>3, <1>4, <1>5, <1>6, NextIs

\* A catalog's rows of a producer are in the order of its seqs.
Ordered(c) == \A b, d \in Batches : b[1] = d[1] /\ b[2] < d[2] /\ c.rows[d] > 0 => c.at[b] <= c.at[d]

\* So are those of the commit that is built, as it would be numbered now.
OrderInv ==
    /\ Ordered(cat) /\ \A i \in DOMAIN flying : Ordered(flying[i].to)
    /\ \A b, d \in Batches : b[1] = d[1] /\ b[2] < d[2] /\ seqr.rows[b] # 0 /\ seqr.rows[d] # 0 => AtNow(b) <= AtNow(d)
    /\ "object" \notin Kinds => \A b \in Batches : seqr.at[b] = 0
    /\ "inline" \notin Kinds => seqr.inline = {}

\* With flushes of one kind, what is numbered now is in order whatever the number.
LEMMA OneKind ==
  ASSUME TypeOK, NumberInv, NumberedInv, OrderInv, Kinds # {"inline", "object"},
         seqr'.n = seqr.n \/ seqr'.n = seqr.n + 1, seqr'.at = seqr.at, seqr'.inline = seqr.inline,
         NEW b \in Batches, NEW d \in Batches, b[1] = d[1], b[2] < d[2], seqr.rows[b] # 0, seqr.rows[d] # 0
  PROVE  AtNow(b)' <= AtNow(d)'
<1>1. /\ AtNow(b) <= AtNow(d) /\ AtNow(b) \in Nat /\ AtNow(d) \in Nat /\ seqr.n \in Nat
      /\ seqr.at[b] \in Nat /\ seqr.at[d] \in Nat /\ Newest.n >= 1 /\ Newest.n \in Nat
      /\ AtNow(b) >= Newest.n /\ AtNow(d) >= Newest.n
  BY NumbersType, NewestNumbered DEF OrderInv, NumberedInv
<1>2. CASE "inline" \notin Kinds
  <2>1. b \notin seqr.inline /\ d \notin seqr.inline
    BY <1>2 DEF OrderInv
  <2> QED
    BY <1>1, <2>1 DEF AtNow
<1>3. CASE "object" \notin Kinds
  <2>1. seqr.at[b] = 0 /\ seqr.at[d] = 0
    BY <1>3 DEF OrderInv
  <2>2. b \in seqr.inline /\ d \in seqr.inline
    BY <1>1, <2>1 DEF AtNow
  <2> QED
    BY <1>1, <2>2 DEF AtNow
<1> QED
  BY <1>2, <1>3, KindsAssumption

\* A later batch of a producer is sequenced after an earlier one, or with it.
LEMMA NewAfter ==
  ASSUME TypeOK, MarkInv, RowsInv, AckInv, SentInv, NEW f \in Flights, NEW new,
         new = flight[f].parts \ LeftOut(flight[f].parts),
         NEW b \in Batches, NEW d \in Batches, b[1] = d[1], b[2] < d[2], b \in new, seqr.rows[d] # 0
  PROVE  d \in new
<1>0. PICK p : p = b[1]
  OBVIOUS
<1>1. p \in Producers /\ \E c \in new : c[1] = p
  BY <1>0, BatchIs
<1>2. \A c \in Batches : c[1] = p => (c \in new <=> SeqOf(p) < c[2] /\ c[2] <= Latest(new, p))
  BY <1>1, NewParts
<1>3. SeqOf(p) = Pending(p) /\ SeqOf(p) \in 0 .. MaxSeq
  BY <1>1, SeqIs
<1>4. SeqOf(p) < b[2]
  BY <1>0, <1>2
<1>5. d[2] <= Pending(p)
  BY <1>0 DEF RowsInv
<1> QED
  BY <1>0, <1>3, <1>4, <1>5, BatchIs

\* What a commit adds comes after what its producer has, and in order.
LEMMA CommitOrdered ==
  ASSUME TypeOK, NumberInv, MarkInv, RowsInv, NumberedInv, OrderInv, NEW w \in Write,
         w.to.n = IF seqr.inline = {} THEN seqr.n ELSE seqr.n + 1,
         w.to.rows = [b \in Batches |-> Newest.rows[b] + seqr.rows[b]],
         \A b \in Batches : w.to.at[b] = IF AtNow(b) > 0 THEN AtNow(b) ELSE Newest.at[b]
  PROVE  Ordered(w.to)
<1> SUFFICES ASSUME NEW b \in Batches, NEW d \in Batches, b[1] = d[1], b[2] < d[2], w.to.rows[d] > 0
             PROVE  w.to.at[b] <= w.to.at[d]
  BY DEF Ordered
<1>0. PICK p : p = b[1]
  OBVIOUS
<1>1. \A c \in {b, d} : /\ seqr.rows[c] # 0 => w.to.at[c] = AtNow(c) /\ Newest.n <= w.to.at[c]
                        /\ seqr.rows[c] = 0 => w.to.at[c] = Newest.at[c]
  BY CommitNumbers
<1>2. /\ Newest.at[b] < Newest.n /\ Newest.n \in Nat /\ Newest.at[b] \in Nat /\ Newest.at[d] \in Nat
      /\ seqr.rows[b] \in Nat /\ seqr.rows[d] \in Nat /\ Newest.rows[d] \in Nat
      /\ AtNow(b) \in Nat /\ AtNow(d) \in Nat
  BY NewestNumbered, NumbersType
<1>3. w.to.rows[d] = Newest.rows[d] + seqr.rows[d]
  OBVIOUS
<1>4. CASE seqr.rows[d] # 0 /\ seqr.rows[b] # 0
  <2>1. AtNow(b) <= AtNow(d)
    BY <1>4 DEF OrderInv
  <2> QED
    BY <1>1, <1>4, <2>1
<1>5. CASE seqr.rows[d] # 0 /\ seqr.rows[b] = 0
  <2>1. Newest.n <= w.to.at[d] /\ w.to.at[d] = AtNow(d) /\ w.to.at[b] = Newest.at[b]
    BY <1>1, <1>5
  <2> QED
    BY <1>2, <2>1
<1>6. CASE seqr.rows[d] = 0
  <2>1. Newest.rows[d] > 0
    BY <1>2, <1>3, <1>6
  <2>2. d[2] <= Newest.mark[p] /\ p \in Producers /\ b[2] \in Nat /\ d[2] \in Nat
    BY <1>0, <2>1, NewestExact, BatchIs DEF Exact, Upto
  <2>3. Newest.mark[p] \in 0 .. MaxSeq
    BY <2>2, MarkOrder
  <2>4. ~ (Newest.mark[p] < b[2])
    BY <2>2, <2>3
  <2>5. seqr.rows[b] = 0
    BY <1>0, <2>4 DEF RowsInv
  <2>6. Ordered(Newest)
    BY NewestIs DEF OrderInv
  <2> QED
    BY <1>1, <1>6, <2>1, <2>5, <2>6 DEF Ordered
<1> QED
  BY <1>4, <1>5, <1>6

\* Every step keeps the order.
LEMMA OrderStep ==
  ASSUME TypeOK, NumberInv, MarkInv, RowsInv, AckInv, SentInv, NumberedInv, OrderInv,
         Kinds # {"inline", "object"}, [Next]_vars
  PROVE  OrderInv'
<1>1. CASE Quietly
  <2>1. /\ UNCHANGED <<cat, flying>> /\ seqr'.rows = seqr.rows /\ seqr'.at = seqr.at /\ seqr'.inline = seqr.inline
        /\ seqr'.n = seqr.n \/ seqr'.n = seqr.n + 1
    BY <1>1, QuietIs
  <2>2. \A b, d \in Batches : b[1] = d[1] /\ b[2] < d[2] /\ seqr'.rows[b] # 0 /\ seqr'.rows[d] # 0 => AtNow(b)' <= AtNow(d)'
    BY <2>1, OneKind
  <2> QED
    BY <2>1, <2>2 DEF OrderInv, Ordered
<1>2. ASSUME NEW f \in Flights, Sequence(f), SequenceRows(f)
      PROVE  OrderInv'
  <2>1. PICK new \in SUBSET Batches :
         /\ new = flight[f].parts \ LeftOut(flight[f].parts)
         /\ UNCHANGED <<cat, flying>> /\ flight[f].kind \in Kinds
         /\ seqr'.rows = [b \in Batches |-> IF b \in new THEN seqr.rows[b] + 1 ELSE seqr.rows[b]]
         /\ \/ /\ flight[f].kind = "object" /\ new # {} /\ seqr'.n = seqr.n + 1 /\ seqr'.inline = seqr.inline
               /\ seqr'.at = [b \in Batches |-> IF b \in new THEN seqr.n ELSE seqr.at[b]]
            \/ /\ flight[f].kind # "object" \/ new = {}
               /\ seqr'.n = seqr.n /\ seqr'.inline = seqr.inline \cup new /\ seqr'.at = seqr.at
    BY <1>2, RowsIs
  <2>2. Ordered(cat)' /\ \A i \in DOMAIN flying' : Ordered(flying'[i].to)
    BY <2>1 DEF OrderInv, Ordered
  <2>3. CASE new = {}
    <3>1. seqr'.n = seqr.n /\ seqr'.inline = seqr.inline /\ seqr'.at = seqr.at
      BY <2>1, <2>3
    <3>2. \A b \in Batches : AtNow(b)' = AtNow(b) /\ seqr'.rows[b] = seqr.rows[b]
      BY <2>1, <2>3, <3>1 DEF AtNow
    <3> QED
      BY <2>2, <3>1, <3>2 DEF OrderInv
  <2>4. CASE new # {} /\ flight[f].kind = "object"
    <3>1. /\ "inline" \notin Kinds /\ seqr'.inline = {} /\ seqr.inline = {}
          /\ \A b \in Batches : seqr'.at[b] = IF b \in new THEN seqr.n ELSE seqr.at[b]
      BY <2>1, <2>4, KindsAssumption DEF OrderInv
    <3>2. ASSUME NEW b \in Batches, NEW d \in Batches, b[1] = d[1], b[2] < d[2], seqr'.rows[b] # 0, seqr'.rows[d] # 0
          PROVE  AtNow(b)' <= AtNow(d)'
      <4>1. AtNow(b)' = seqr'.at[b] /\ AtNow(d)' = seqr'.at[d] /\ AtNow(b) = seqr.at[b] /\ AtNow(d) = seqr.at[d]
        BY <3>1 DEF AtNow
      <4>2. seqr.n \in Nat /\ seqr.at[b] \in Nat /\ seqr.at[b] < seqr.n
        BY NumbersType DEF NumberedInv
      <4>3. CASE d \in new
        BY <3>1, <4>1, <4>2, <4>3
      <4>4. CASE d \notin new
        <5>1. seqr.rows[d] # 0
          BY <2>1, <3>2, <4>4
        <5>2. b \notin new
          BY <2>1, <3>2, <4>4, <5>1, NewAfter
        <5>3. seqr.rows[b] # 0
          BY <2>1, <3>2, <5>2
        <5>4. AtNow(b) <= AtNow(d)
          BY <3>2, <5>1, <5>3 DEF OrderInv
        <5> QED
          BY <3>1, <4>1, <4>4, <5>2, <5>4
      <4> QED
        BY <4>3, <4>4
    <3> QED
      BY <2>1, <2>2, <2>4, <3>1, <3>2 DEF OrderInv
  <2>5. CASE new # {} /\ flight[f].kind # "object"
    <3>0. "object" \notin Kinds /\ "inline" \in Kinds
      <4>1. flight[f].kind = "inline" /\ "inline" \in Kinds
        BY <2>1, <2>5, KindsAssumption
      <4> QED
        BY <4>1, KindsAssumption
    <3>1. /\ seqr'.n = seqr.n /\ seqr'.at = seqr.at
          /\ seqr'.inline = seqr.inline \cup new /\ \A b \in Batches : seqr.at[b] = 0
      BY <2>1, <2>5, <3>0 DEF OrderInv
    <3>2. ASSUME NEW b \in Batches, seqr'.rows[b] # 0
          PROVE  b \in seqr'.inline
      <4>1. CASE b \in new
        BY <3>1, <4>1
      <4>2. CASE b \notin new
        <5>1. seqr.rows[b] # 0
          BY <2>1, <3>2, <4>2
        <5>2. AtNow(b) >= Newest.n /\ Newest.n >= 1 /\ Newest.n \in Nat /\ seqr.at[b] = 0
          BY <3>1, <5>1, NewestNumbered, NumbersType DEF NumberedInv
        <5>3. b \in seqr.inline
          BY <5>2 DEF AtNow
        <5> QED
          BY <3>1, <5>3
      <4> QED
        BY <4>1, <4>2
    <3>3. \A b \in Batches : seqr'.rows[b] # 0 => AtNow(b)' = seqr'.n
      BY <3>2 DEF AtNow
    <3>4. seqr'.n <= seqr'.n
      BY <3>1, NumbersType
    <3> QED
      BY <2>2, <3>0, <3>1, <3>3, <3>4 DEF OrderInv
  <2> QED
    BY <2>3, <2>4, <2>5
<1>3. CASE Commit
  <2>1. PICK w \in Write :
         /\ flying' = Append(flying, w) /\ cat' = cat
         /\ w.to.n = (IF seqr.inline = {} THEN seqr.n ELSE seqr.n + 1)
         /\ w.to.rows = [b \in Batches |-> Newest.rows[b] + seqr.rows[b]]
         /\ \A b \in Batches : w.to.at[b] = IF AtNow(b) > 0 THEN AtNow(b) ELSE Newest.at[b]
         /\ seqr'.rows = None /\ seqr'.at = None /\ seqr'.inline = {}
    <3>1. PICK w \in Write :
         /\ flying' = Append(flying, w) /\ UNCHANGED <<cat, flight, cl, stmt, takeovers>>
         /\ w.to.n = seqr'.n /\ seqr'.n = (IF seqr.inline = {} THEN seqr.n ELSE seqr.n + 1)
         /\ w.to.rows = [b \in Batches |-> Newest.rows[b] + seqr.rows[b]]
         /\ \A b \in Batches : w.to.at[b] = IF AtNow(b) > 0 THEN AtNow(b) ELSE Newest.at[b]
         /\ seqr'.rows = None /\ seqr'.at = None /\ seqr'.inline = {}
      BY <1>3, CommitIs
    <3> QED
      BY <3>1
  <2>2. \A i \in DOMAIN flying' : (i \in DOMAIN flying /\ flying'[i] = flying[i]) \/ flying'[i] = w
    BY <2>1, Lengthens
  <2>3. Ordered(w.to)
    BY <2>1, CommitOrdered
  <2>4. Ordered(cat)' /\ \A i \in DOMAIN flying' : Ordered(flying'[i].to)
    BY <2>1, <2>2, <2>3 DEF OrderInv, Ordered
  <2>5. \A b \in Batches : seqr'.rows[b] = 0 /\ seqr'.at[b] = 0
    BY <2>1 DEF None
  <2> QED
    BY <2>1, <2>4, <2>5 DEF OrderInv
<1>4. CASE MakeView \/ Move
  <2>1. PICK w \in Write : flying' = Append(flying, w) /\ w.to.rows = Newest.rows /\ w.to.at = Newest.at
    BY <1>4, MakeViewIs, MoveIs
  <2>2. cat' = cat /\ seqr' = seqr
    BY <1>4 DEF MakeView, Move
  <2>3. \A i \in DOMAIN flying' : (i \in DOMAIN flying /\ flying'[i] = flying[i]) \/ flying'[i] = w
    BY <2>1, Lengthens
  <2>4. Ordered(w.to)
    BY <2>1, NewestIs DEF OrderInv, Ordered
  <2>5. \A b \in Batches : AtNow(b)' = AtNow(b)
    BY <2>2 DEF AtNow
  <2> QED
    BY <2>1, <2>2, <2>3, <2>4, <2>5 DEF OrderInv, Ordered
<1>5. CASE Durable
  <2>1. seqr' = seqr
    BY <1>5 DEF Durable
  <2>2. \A b \in Batches : AtNow(b)' = AtNow(b)
    BY <2>1 DEF AtNow
  <2>3. /\ 1 \in DOMAIN flying /\ cat' = flying[1].to
        /\ \A i \in DOMAIN flying' : i + 1 \in DOMAIN flying /\ flying'[i] = flying[i + 1]
    BY <1>5, Shortens
  <2> QED
    BY <2>1, <2>2, <2>3 DEF OrderInv, Ordered
<1>6. ASSUME NEW k \in 0 .. Len(flying), TakeOver(k)
      PROVE  OrderInv'
  <2>1. /\ cat' = Kept(k) /\ DOMAIN flying' = {} /\ seqr'.rows = None
        /\ Kept(k) = cat \/ \E i \in DOMAIN flying : Kept(k) = flying[i].to
    BY <1>6, TakenOver
  <2>2. seqr'.at = None /\ seqr'.inline = {}
    BY <1>6 DEF TakeOver, Started, NewSequencer
  <2>3. \A b \in Batches : seqr'.rows[b] = 0 /\ seqr'.at[b] = 0
    BY <2>1, <2>2 DEF None
  <2> QED
    BY <2>1, <2>2, <2>3 DEF OrderInv, Ordered
<1> QED
  BY <1>1, <1>2, <1>3, <1>4, <1>5, <1>6, NextIs

\* Both hold at the start, where there is nothing.
LEMMA OrderStart == Init => NumberedInv /\ OrderInv
<1> SUFFICES ASSUME Init
             PROVE  NumberedInv /\ OrderInv
  OBVIOUS
<1>1. cat = Empty /\ DOMAIN flying = {} /\ Newest = cat /\ seqr = Started(Empty)
  BY DEF Init, Newest
<1>2. cat.n = 1 /\ cat.rows = None /\ cat.at = None
  BY <1>1 DEF Empty
<1>3. seqr.n = 1 /\ seqr.rows = None /\ seqr.at = None /\ seqr.inline = {}
  BY <1>1 DEF Started, NewSequencer, Empty
<1> QED
  BY <1>1, <1>2, <1>3 DEF NumberedInv, OrderInv, Ordered, None

-----------------------------------------------------------------------------
(* The view                                                                *)

\* The rows a view's filling is of.
Low(c) == {b \in Batches : c.rows[b] > 0 /\ c.at[b] <= c.upto}

\* What a catalog's view shows: nothing before its filling has an end, from then on what came in later,
\* and all once it is filled.
Shows(c) ==
    /\ c.mark[Fill] <= 1
    /\ c.view # "bounded" => c.mark[Fill] = 0 /\ \A b \in Batches : c.shown[b] = 0
    /\ c.view = "bounded" =>
        /\ c.upto < c.n
        /\ \A b \in Batches : c.shown[b] = IF c.rows[b] > 0 /\ (c.mark[Fill] = 1 \/ c.at[b] > c.upto) THEN 1 ELSE 0

\* From one catalog to a later one: an end stays, with the rows up to it, and a filling stays filled.
Leads(c, d) ==
    /\ c.view = "bounded" => d.view = "bounded" /\ Low(d) = Low(c)
    /\ c.view # "none" => d.view # "none"
    /\ c.mark[Fill] <= d.mark[Fill]

LineInv ==
    /\ Shows(cat) /\ \A i \in DOMAIN flying : Shows(flying[i].to) /\ Leads(cat, flying[i].to)
    /\ \A i, j \in DOMAIN flying : i <= j => Leads(flying[i].to, flying[j].to)

\* Is the commit that is built the one that gives a filling its end?
Bounding == seqr.step = "open" /\ seqr.seen = "unbounded"

\* What the sequencer knows of the views, that of commits on their way included.
SeenInv ==
    /\ stmt.view = "no" => Newest.view = "none"
    /\ seqr.bounded => Newest.view = "bounded" \/ Bounding
    /\ seqr.cache = "bounded" => Newest.view = "bounded" \/ Bounding
    /\ seqr.cache = "none" => Newest.view # "bounded" /\ ~Bounding
    /\ Newest.view = "bounded" \/ Bounding => cat.view # "none"
    /\ Newest.view = "bounded" => cat.view = "bounded" \/ seqr.bounded
    /\ seqr.step # "idle" => /\ seqr.seen = "bounded" <=> Newest.view = "bounded"
                             /\ seqr.seen = "unbounded" => Newest.view = "unbounded" /\ cat.view # "none"
    /\ Bounding => seqr.upto = Newest.n - 1 /\ seqr.bounded

\* A filling is of the rows up to the end, whichever commit takes it, and counts once; the rows a commit
\* adds are shown if it goes by a view.
FillInv ==
    /\ seqr.last[Fill] > 0 => seqr.last[Fill] = Newest.mark[Fill]
    /\ seqr.last[Fill] = 0 => cat.mark[Fill] = Newest.mark[Fill]
    /\ seqr.seqs[Fill] > 0 => seqr.seqs[Fill] = 1 /\ Newest.view = "bounded" /\ seqr.step = "open"
    /\ \A f \in Flights : flight[f].kind = "fill" => cat.view = "bounded" /\ flight[f].content = Low(cat)
    /\ \A b \in Batches : seqr.shown[b] =
          IF seqr.seqs[Fill] = 1 /\ Newest.mark[Fill] = 0 /\ b \in Low(Newest) THEN 1
          ELSE IF seqr.seen # "none" THEN seqr.rows[b] ELSE 0

\* The types these are about.
LEMMA ViewTypes ==
  ASSUME TypeOK
  PROVE  /\ Fill \in Marked /\ Fill \notin Producers
         /\ cat.mark[Fill] \in Nat /\ Newest.mark[Fill] \in Nat /\ \A i \in DOMAIN flying : flying[i].to.mark[Fill] \in Nat
         /\ seqr.last[Fill] \in Nat /\ seqr.seqs[Fill] \in Nat /\ seqr.seqs \in [Marked -> 0 .. MaxSeq]
         /\ Newest.upto \in Nat /\ seqr.upto \in Nat
         /\ \A b \in Batches : Newest.shown[b] \in Nat /\ seqr.shown[b] \in Nat
         /\ cat.view \in {"none", "unbounded", "bounded"} /\ Newest.view \in {"none", "unbounded", "bounded"}
         /\ seqr.seen \in {"none", "unbounded", "bounded"} /\ seqr.bounded \in BOOLEAN
         /\ seqr.step \in {"idle", "reading", "open"} /\ seqr.cache \in {"forgotten", "none", "bounded"}
<1>1. seqr \in Sequencer /\ cat \in Catalog /\ Newest \in Catalog
  BY NewestType DEF TypeOK
<1>2. \A i \in DOMAIN flying : flying[i].to \in Catalog
  <2>1. flying \in Seq(Write)
    BY DEF TypeOK
  <2>2. \A i \in DOMAIN flying : flying[i] \in Write
    BY <2>1
  <2> QED
    BY <2>2 DEF Write
<1>3. Fill \in Marked /\ Fill \notin Producers
  BY ProducersAssumption DEF Marked
<1>4. /\ cat.mark[Fill] \in Nat /\ Newest.mark[Fill] \in Nat /\ \A i \in DOMAIN flying : flying[i].to.mark[Fill] \in Nat
      /\ seqr.last[Fill] \in Nat /\ seqr.seqs[Fill] \in Nat
  BY <1>1, <1>2, <1>3, SMTT(60) DEF Catalog, Sequencer
<1>5. Newest.shown \in Tally /\ seqr.shown \in Tally
  BY <1>1 DEF Catalog, Sequencer
<1>6. \A b \in Batches : Newest.shown[b] \in Nat /\ seqr.shown[b] \in Nat
  BY <1>5 DEF Tally
<1>7. /\ Newest.upto \in Nat /\ seqr.upto \in Nat /\ seqr.seqs \in [Marked -> 0 .. MaxSeq]
      /\ cat.view \in {"none", "unbounded", "bounded"} /\ Newest.view \in {"none", "unbounded", "bounded"}
      /\ seqr.seen \in {"none", "unbounded", "bounded"} /\ seqr.bounded \in BOOLEAN
      /\ seqr.step \in {"idle", "reading", "open"} /\ seqr.cache \in {"forgotten", "none", "bounded"}
  BY <1>1 DEF Catalog, Sequencer
<1> QED
  BY <1>3, <1>4, <1>6, <1>7

\* The newest catalog is in line with all before it.
LEMMA NewestLeads ==
  ASSUME TypeOK, LineInv
  PROVE  Shows(Newest) /\ Leads(cat, Newest) /\ \A i \in DOMAIN flying : Leads(flying[i].to, Newest)
<1>1. Leads(cat, cat)
  BY ViewTypes DEF Leads
<1>2. Shows(Newest) /\ Leads(cat, Newest)
  BY <1>1, NewestIs DEF LineInv
<1>3. flying # <<>> => Len(flying) \in DOMAIN flying /\ \A i \in DOMAIN flying : i <= Len(flying)
  BY LenProperties, EmptySeq DEF TypeOK
<1>4. \A i \in DOMAIN flying : Leads(flying[i].to, Newest)
  <2> SUFFICES ASSUME NEW i \in DOMAIN flying
               PROVE  Leads(flying[i].to, Newest)
    OBVIOUS
  <2>1. flying # <<>>
    OBVIOUS
  <2> QED
    BY <1>3, <2>1 DEF Newest, LineInv
<1> QED
  BY <1>2, <1>4

\* A write that goes on from the newest catalog keeps the line.
LEMMA LineOn ==
  ASSUME TypeOK, LineInv, NEW w \in Write, flying' = Append(flying, w), cat' = cat, Shows(w.to), Leads(Newest, w.to)
  PROVE  LineInv'
<1>1. /\ \A i \in DOMAIN flying' : \/ i \in DOMAIN flying /\ flying'[i] = flying[i] /\ i \in Nat /\ i <= Len(flying)
                                   \/ i = Len(flying) + 1 /\ flying'[i] = w
      /\ Len(flying) \in Nat
  BY Lengthens
<1>2. w.to.mark[Fill] \in Nat
  BY ViewTypes DEF Write, Catalog
<1>3. ASSUME NEW c, c = cat \/ \E i \in DOMAIN flying : c = flying[i].to
      PROVE  Leads(c, w.to)
  <2>1. Leads(c, Newest) /\ Leads(Newest, w.to) /\ c.mark[Fill] \in Nat /\ Newest.mark[Fill] \in Nat
    BY <1>3, NewestLeads, ViewTypes
  <2> QED
    BY <1>2, <2>1 DEF Leads
<1>4. Leads(w.to, w.to)
  BY <1>2 DEF Leads
<1>5. \A i \in DOMAIN flying' : Shows(flying'[i].to) /\ Leads(cat, flying'[i].to)
  BY <1>1, <1>3 DEF LineInv
<1>6. \A i, j \in DOMAIN flying' : i <= j => Leads(flying'[i].to, flying'[j].to)
  BY <1>1, <1>3, <1>4 DEF LineInv
<1>7. Shows(cat') /\ \A i \in DOMAIN flying' : Shows(flying'[i].to) /\ Leads(cat', flying'[i].to)
  BY <1>5 DEF LineInv
<1> QED
  BY <1>6, <1>7 DEF LineInv, Shows, Leads, Low

\* A batch of the commit that is built isn't in the newest catalog; each is once in either.
LEMMA NotBoth ==
  ASSUME TypeOK, RowsInv, NEW b \in Batches
  PROVE  /\ Newest.rows[b] \in {0, 1} /\ seqr.rows[b] \in {0, 1}
         /\ seqr.rows[b] = 1 => Newest.rows[b] = 0
<1>1. PICK p : p = b[1]
  OBVIOUS
<1>2. p \in Producers /\ b[2] \in Nat /\ Newest.mark[p] \in 0 .. MaxSeq
  BY <1>1, BatchIs, NewestType DEF Catalog, Marked
<1>3. /\ Newest.rows[b] = IF b[2] <= Newest.mark[p] THEN 1 ELSE 0
      /\ seqr.rows[b] = IF Newest.mark[p] < b[2] /\ b[2] <= Pending(p) THEN 1 ELSE 0
  BY <1>1, NewestExact DEF Exact, Upto, RowsInv
<1> QED
  BY <1>2, <1>3

\* A commit's catalog goes on from the newest one.
LEMMA CommitLine ==
  ASSUME TypeOK, NumberInv, RowsInv, NumberedInv, LineInv, SeenInv, FillInv, seqr.step = "open", NEW w \in Write,
         w.to.n = IF seqr.inline = {} THEN seqr.n ELSE seqr.n + 1,
         \A p \in Marked : w.to.mark[p] = IF seqr.seqs[p] > 0 THEN seqr.seqs[p] ELSE Newest.mark[p],
         w.to.rows = [b \in Batches |-> Newest.rows[b] + seqr.rows[b]],
         \A b \in Batches : w.to.shown[b] = Newest.shown[b] + seqr.shown[b],
         \A b \in Batches : w.to.at[b] = IF AtNow(b) > 0 THEN AtNow(b) ELSE Newest.at[b],
         w.to.view = IF seqr.seen = "unbounded" THEN "bounded" ELSE Newest.view,
         w.to.upto = IF seqr.seen = "unbounded" THEN seqr.upto ELSE Newest.upto
  PROVE  Shows(w.to) /\ Leads(Newest, w.to)
<1> DEFINE m == Newest.mark[Fill]
           s == seqr.seqs[Fill]
           k == w.to.mark[Fill]
<1>1. /\ Shows(Newest) /\ m \in Nat /\ s \in Nat
      /\ Newest.n \in Nat /\ seqr.n \in Nat /\ Newest.n <= seqr.n /\ Newest.n >= 1
      /\ Newest.upto \in Nat /\ seqr.upto \in Nat
      /\ Newest.view \in {"none", "unbounded", "bounded"} /\ seqr.seen \in {"none", "unbounded", "bounded"}
  BY NewestLeads, ViewTypes, NumbersType, NewestNumbered DEF NumberedInv
<1>2. seqr.n <= w.to.n /\ w.to.n \in Nat
  BY <1>1
<1>3. k = IF s > 0 THEN s ELSE m
  BY ViewTypes
<1>4. m <= 1 /\ (s > 0 => s = 1 /\ Newest.view = "bounded")
  BY <1>1 DEF Shows, FillInv
<1>5. k <= 1 /\ m <= k /\ k \in Nat
  BY <1>1, <1>3, <1>4
<1>6. /\ seqr.seen = "bounded" <=> Newest.view = "bounded"
      /\ seqr.seen = "unbounded" => Newest.view = "unbounded" /\ seqr.upto = Newest.n - 1
  BY DEF SeenInv, Bounding
<1>7. ASSUME NEW b \in Batches
      PROVE  /\ Newest.rows[b] \in {0, 1} /\ seqr.rows[b] \in {0, 1}
             /\ seqr.rows[b] = 1 => Newest.rows[b] = 0 /\ w.to.rows[b] = 1 /\ w.to.at[b] >= Newest.n /\ w.to.at[b] \in Nat
             /\ seqr.rows[b] = 0 => w.to.rows[b] = Newest.rows[b] /\ w.to.at[b] = Newest.at[b]
             /\ Newest.at[b] < Newest.n /\ Newest.at[b] \in Nat
             /\ w.to.shown[b] = Newest.shown[b] + seqr.shown[b] /\ Newest.shown[b] \in Nat
             /\ seqr.shown[b] = IF s = 1 /\ m = 0 /\ b \in Low(Newest) THEN 1
                                ELSE IF seqr.seen # "none" THEN seqr.rows[b] ELSE 0
  <2>1. /\ seqr.rows[b] # 0 => w.to.at[b] = AtNow(b) /\ Newest.n <= w.to.at[b]
        /\ seqr.rows[b] = 0 => w.to.at[b] = Newest.at[b]
    BY CommitNumbers
  <2>2. /\ Newest.rows[b] \in {0, 1} /\ seqr.rows[b] \in {0, 1}
        /\ seqr.rows[b] = 1 => Newest.rows[b] = 0
        /\ w.to.rows[b] = Newest.rows[b] + seqr.rows[b]
    BY NotBoth
  <2>3. AtNow(b) \in Nat /\ Newest.at[b] \in Nat /\ Newest.at[b] < Newest.n /\ Newest.shown[b] \in Nat
    BY NumbersType, NewestNumbered, ViewTypes
  <2>4. seqr.shown[b] = IF s = 1 /\ m = 0 /\ b \in Low(Newest) THEN 1
                        ELSE IF seqr.seen # "none" THEN seqr.rows[b] ELSE 0
    BY DEF FillInv
  <2> QED
    BY <1>1, <2>1, <2>2, <2>3, <2>4
<1> HIDE DEF m, s, k
<1>8. CASE seqr.seen = "unbounded"
  <2>1. /\ Newest.view = "unbounded" /\ w.to.view = "bounded" /\ w.to.upto = Newest.n - 1 /\ s = 0 /\ m = 0 /\ k = 0
        /\ \A b \in Batches : Newest.shown[b] = 0
    BY <1>1, <1>3, <1>4, <1>6, <1>8 DEF Shows, m
  <2>2. w.to.upto < w.to.n
    BY <1>1, <1>2, <2>1
  <2>3. ASSUME NEW b \in Batches
        PROVE  w.to.shown[b] = IF w.to.rows[b] > 0 /\ (k = 1 \/ w.to.at[b] > w.to.upto) THEN 1 ELSE 0
    <3>1. w.to.shown[b] = seqr.rows[b]
      BY <1>7, <1>8, <2>1
    <3>2. CASE seqr.rows[b] = 1
      BY <1>1, <1>7, <2>1, <3>1, <3>2
    <3>3. CASE seqr.rows[b] = 0
      BY <1>1, <1>7, <2>1, <3>1, <3>3
    <3> QED
      BY <1>7, <3>2, <3>3
  <2> QED
    BY <1>5, <2>1, <2>2, <2>3 DEF Shows, Leads, m, k
<1>9. CASE seqr.seen = "bounded"
  <2>1. /\ Newest.view = "bounded" /\ w.to.view = "bounded" /\ w.to.upto = Newest.upto /\ Newest.upto < Newest.n
        /\ \A b \in Batches : Newest.shown[b] = IF Newest.rows[b] > 0 /\ (m = 1 \/ Newest.at[b] > Newest.upto) THEN 1 ELSE 0
    BY <1>1, <1>6, <1>9 DEF Shows, m
  <2>2. w.to.upto < w.to.n
    BY <1>1, <1>2, <2>1
  <2>3. \A b \in Batches : b \in Low(Newest) <=> Newest.rows[b] > 0 /\ Newest.at[b] <= Newest.upto
    BY DEF Low
  <2>4. ASSUME NEW b \in Batches
        PROVE  w.to.shown[b] = IF w.to.rows[b] > 0 /\ (k = 1 \/ w.to.at[b] > w.to.upto) THEN 1 ELSE 0
    <3>1. CASE seqr.rows[b] = 1
      <4>1. Newest.shown[b] = 0 /\ b \notin Low(Newest)
        BY <1>7, <2>1, <2>3, <3>1
      <4>2. w.to.shown[b] = 1
        BY <1>7, <1>9, <3>1, <4>1
      <4>3. w.to.rows[b] = 1 /\ w.to.at[b] > w.to.upto
        BY <1>1, <1>7, <2>1, <3>1
      <4> QED
        BY <4>2, <4>3
    <3>2. CASE seqr.rows[b] = 0
      <4>1. w.to.rows[b] = Newest.rows[b] /\ w.to.at[b] = Newest.at[b] /\ w.to.upto = Newest.upto
        BY <1>7, <2>1, <3>2
      <4>2. CASE s = 1 /\ m = 0 /\ b \in Low(Newest)
        <5>1. Newest.shown[b] = 0 /\ seqr.shown[b] = 1 /\ k = 1 /\ Newest.rows[b] > 0
          BY <1>1, <1>3, <1>7, <2>1, <2>3, <4>2
        <5> QED
          BY <1>7, <4>1, <5>1
      <4>3. CASE ~ (s = 1 /\ m = 0 /\ b \in Low(Newest))
        <5>1. w.to.shown[b] = Newest.shown[b]
          BY <1>7, <3>2, <4>3
        <5>2. k = m \/ (k = 1 /\ m = 0 /\ b \notin Low(Newest))
          BY <1>1, <1>3, <1>4, <4>3
        <5> QED
          BY <1>1, <1>7, <2>1, <2>3, <4>1, <5>1, <5>2
      <4> QED
        BY <4>2, <4>3
    <3> QED
      BY <1>7, <3>1, <3>2
  <2>5. Low(w.to) = Low(Newest)
    <3>1. \A b \in Batches : w.to.rows[b] > 0 /\ w.to.at[b] <= w.to.upto <=> Newest.rows[b] > 0 /\ Newest.at[b] <= Newest.upto
      <4> TAKE b \in Batches
      <4>1. CASE seqr.rows[b] = 1
        BY <1>1, <1>7, <2>1, <4>1
      <4>2. CASE seqr.rows[b] = 0
        BY <1>7, <2>1, <4>2
      <4> QED
        BY <1>7, <4>1, <4>2
    <3> QED
      BY <3>1 DEF Low
  <2> QED
    BY <1>5, <2>1, <2>2, <2>4, <2>5 DEF Shows, Leads, m, k
<1>10. CASE seqr.seen = "none"
  <2>1. /\ Newest.view # "bounded" /\ w.to.view = Newest.view /\ s = 0 /\ m = 0 /\ k = 0
        /\ \A b \in Batches : Newest.shown[b] = 0
    BY <1>1, <1>3, <1>4, <1>6, <1>10 DEF Shows, m
  <2>2. \A b \in Batches : w.to.shown[b] = 0
    BY <1>7, <1>10, <2>1
  <2> QED
    BY <1>5, <2>1, <2>2 DEF Shows, Leads, m, k
<1> QED
  BY <1>1, <1>8, <1>9, <1>10

\* Every step keeps the line.
LEMMA LineStep ==
  ASSUME TypeOK, NumberInv, RowsInv, NumberedInv, LineInv, SeenInv, FillInv, [Next]_vars
  PROVE  LineInv'
<1>1. CASE Quietly \/ \E f \in Flights : Sequence(f) /\ SequenceRows(f)
  <2>1. UNCHANGED <<cat, flying>>
    BY <1>1, Quiet DEF Sequence
  <2> QED
    BY <2>1 DEF LineInv, Shows, Leads, Low
<1>2. CASE Commit
  <2>1. PICK w \in Write :
         /\ flying' = Append(flying, w) /\ UNCHANGED <<cat, flight, cl, stmt, takeovers>> /\ seqr.step = "open"
         /\ w.to.n = seqr'.n /\ seqr'.n = (IF seqr.inline = {} THEN seqr.n ELSE seqr.n + 1)
         /\ \A p \in Marked : w.to.mark[p] = IF seqr.seqs[p] > 0 THEN seqr.seqs[p] ELSE Newest.mark[p]
         /\ w.to.rows = [b \in Batches |-> Newest.rows[b] + seqr.rows[b]]
         /\ \A b \in Batches : w.to.shown[b] = Newest.shown[b] + seqr.shown[b]
         /\ \A b \in Batches : w.to.at[b] = IF AtNow(b) > 0 THEN AtNow(b) ELSE Newest.at[b]
         /\ w.to.view = (IF seqr.seen = "unbounded" THEN "bounded" ELSE Newest.view)
         /\ w.to.upto = (IF seqr.seen = "unbounded" THEN seqr.upto ELSE Newest.upto)
    BY <1>2, CommitIs
  <2>2. w.to.n = (IF seqr.inline = {} THEN seqr.n ELSE seqr.n + 1) /\ cat' = cat
    BY <2>1
  <2>3. Shows(w.to) /\ Leads(Newest, w.to)
    BY <2>1, <2>2, CommitLine
  <2> QED
    BY <2>1, <2>2, <2>3, LineOn
<1>3. CASE MakeView \/ Move
  <2>0. Shows(Newest) /\ Newest.mark[Fill] \in Nat /\ cat' = cat
    BY <1>3, NewestLeads, ViewTypes DEF MakeView, Move
  <2>1. CASE MakeView
    <3>1. PICK w \in Write : /\ flying' = Append(flying, w) /\ w.to.mark = Newest.mark /\ w.to.shown = Newest.shown
                             /\ w.to.view = "unbounded"
      BY <2>1, MakeViewIs
    <3>2. Newest.view = "none"
      BY <2>1 DEF MakeView, SeenInv
    <3>3. Shows(w.to) /\ Leads(Newest, w.to)
      BY <2>0, <3>1, <3>2 DEF Shows, Leads
    <3> QED
      BY <2>0, <3>1, <3>3, LineOn
  <2>2. CASE Move
    <3>1. PICK w \in Write : /\ flying' = Append(flying, w) /\ w.to.mark = Newest.mark /\ w.to.shown = Newest.shown
                             /\ w.to.n = Newest.n /\ w.to.rows = Newest.rows /\ w.to.at = Newest.at
                             /\ w.to.upto = Newest.upto /\ w.to.view = Newest.view
      BY <2>2, MoveIs
    <3>2. Low(w.to) = Low(Newest)
      BY <3>1 DEF Low
    <3>3. Shows(w.to) /\ Leads(Newest, w.to)
      BY <2>0, <3>1, <3>2 DEF Shows, Leads
    <3> QED
      BY <2>0, <3>1, <3>3, LineOn
  <2> QED
    BY <1>3, <2>1, <2>2
<1>4. CASE Durable
  <2>1. /\ 1 \in DOMAIN flying /\ cat' = flying[1].to
        /\ \A i \in DOMAIN flying' : i + 1 \in DOMAIN flying /\ flying'[i] = flying[i + 1] /\ i \in Nat /\ i >= 1
    BY <1>4, Shortens
  <2>2. /\ Shows(cat') /\ \A i \in DOMAIN flying' : Shows(flying'[i].to) /\ Leads(cat', flying'[i].to)
    BY <2>1 DEF LineInv
  <2>3. \A i, j \in DOMAIN flying' : i <= j => Leads(flying'[i].to, flying'[j].to)
    BY <2>1 DEF LineInv
  <2> QED
    BY <2>2, <2>3 DEF LineInv, Shows, Leads, Low
<1>5. ASSUME NEW k \in 0 .. Len(flying), TakeOver(k)
      PROVE  LineInv'
  <2>1. /\ cat' = Kept(k) /\ DOMAIN flying' = {}
        /\ Kept(k) = cat \/ \E i \in DOMAIN flying : Kept(k) = flying[i].to
    BY <1>5, TakenOver
  <2>2. Shows(Kept(k))
    BY <2>1 DEF LineInv
  <2>3. Shows(cat)'
    BY <2>1, <2>2 DEF Shows
  <2> QED
    BY <2>1, <2>3 DEF LineInv
<1> QED
  BY <1>1, <1>2, <1>3, <1>4, <1>5, NextIs

\* What a step leaves of the view's statement.
LEMMA ViewMoves ==
  ASSUME TypeOK, NumberInv, Quietly
  PROVE  stmt'.view = stmt.view \/ (stmt.view = "writing" /\ stmt'.view = "made")
<1>1. CASE ForgetViews
  BY <1>1 DEF ForgetViews, TypeOK
<1>2. ASSUME NEW f \in Flights, Hear(f)
      PROVE  stmt'.view = stmt.view
  BY <1>2 DEF Hear, TypeOK
<1>3. CASE ToFiles \/ Release \/ \E f \in Flights : Hold(f)
  BY <1>3 DEF ToFiles, Release, Hold, TypeOK
<1>4. CASE \/ \E p \in Producers : Produce(p)
           \/ \E f \in Flights : Pack(f) \/ Arrive(f) \/ Lose(f) \/ AskForEnd(f) \/ FillView(f) \/ Sequence(f)
           \/ ReadViews \/ Open \/ UNCHANGED vars
  BY <1>4 DEF Produce, Pack, Arrive, Lose, AskForEnd, FillView, Sequence, ReadViews, Open, vars
<1> QED
  BY <1>1, <1>2, <1>3, <1>4 DEF Quietly

\* The sequencer keeps knowing, whatever is forgotten or read again.
LEMMA SeenQuiet ==
  ASSUME TypeOK, NumberInv, NumberedInv, LineInv, SeenInv, Quietly
  PROVE  SeenInv'
<1>1. /\ UNCHANGED <<cat, flying>>
      /\ \/ UNCHANGED <<seqr.step, seqr.cache, seqr.bounded, seqr.seen, seqr.upto>>
         \/ /\ seqr'.cache = "forgotten"
            /\ UNCHANGED <<seqr.step, seqr.bounded, seqr.seen, seqr.upto>>
         \/ /\ ReadViews /\ seqr'.step = "reading"
            /\ seqr'.seen = (IF cat.view = "unbounded" /\ seqr.bounded THEN "bounded" ELSE cat.view)
            /\ UNCHANGED <<seqr.cache, seqr.bounded, seqr.upto>>
         \/ /\ Open /\ seqr'.step = "open"
            /\ seqr'.seen = (IF seqr.step = "reading" THEN seqr.seen ELSE seqr.cache)
            /\ seqr'.upto = (IF seqr'.seen = "unbounded" THEN seqr.n - 1 ELSE 0)
            /\ seqr'.bounded = (seqr.bounded \/ seqr'.seen = "unbounded")
            /\ seqr'.cache = (IF seqr'.seen = "unbounded" THEN "bounded" ELSE seqr'.seen)
  BY QuietIs
<1>2. Newest' = Newest
  BY <1>1 DEF Newest
<1>3. stmt'.view = "no" => Newest.view = "none"
  BY ViewMoves DEF SeenInv
<1>4. Leads(cat, Newest)
  BY NewestLeads
<1>5. CASE UNCHANGED <<seqr.step, seqr.cache, seqr.bounded, seqr.seen, seqr.upto>>
  BY <1>1, <1>2, <1>3, <1>5 DEF SeenInv, Bounding
<1>6. CASE seqr'.cache = "forgotten" /\ UNCHANGED <<seqr.step, seqr.bounded, seqr.seen, seqr.upto>>
  BY <1>1, <1>2, <1>3, <1>6 DEF SeenInv, Bounding
<1>7. CASE /\ ReadViews /\ seqr'.step = "reading"
           /\ seqr'.seen = (IF cat.view = "unbounded" /\ seqr.bounded THEN "bounded" ELSE cat.view)
           /\ UNCHANGED <<seqr.cache, seqr.bounded, seqr.upto>>
  <2>1. seqr.step = "idle" /\ ~Bounding /\ ~Bounding'
    BY <1>7 DEF ReadViews, Bounding
  <2>2. seqr'.seen = "bounded" <=> Newest.view = "bounded"
    <3>1. /\ seqr.bounded => Newest.view = "bounded"
          /\ Newest.view = "bounded" => cat.view # "none" /\ (cat.view = "bounded" \/ seqr.bounded)
          /\ cat.view = "bounded" => Newest.view = "bounded"
          /\ cat.view \in {"none", "unbounded", "bounded"}
      BY <1>4, <2>1, ViewTypes DEF SeenInv, Leads
    <3> QED
      BY <1>7, <3>1
  <2>3. seqr'.seen = "unbounded" => Newest.view = "unbounded" /\ cat.view # "none"
    <3>1. seqr'.seen = "unbounded" => cat.view = "unbounded" /\ ~seqr.bounded
      BY <1>7
    <3>2. cat.view = "unbounded" => Newest.view # "none"
      BY <1>4 DEF Leads
    <3>3. Newest.view = "bounded" => cat.view = "bounded" \/ seqr.bounded
      BY DEF SeenInv
    <3> QED
      BY <3>1, <3>2, <3>3, ViewTypes
  <2> QED
    BY <1>1, <1>2, <1>3, <1>7, <2>1, <2>2, <2>3 DEF SeenInv
<1>8. CASE /\ Open /\ seqr'.step = "open"
           /\ seqr'.seen = (IF seqr.step = "reading" THEN seqr.seen ELSE seqr.cache)
           /\ seqr'.upto = (IF seqr'.seen = "unbounded" THEN seqr.n - 1 ELSE 0)
           /\ seqr'.bounded = (seqr.bounded \/ seqr'.seen = "unbounded")
           /\ seqr'.cache = (IF seqr'.seen = "unbounded" THEN "bounded" ELSE seqr'.seen)
  <2>1. /\ seqr.step = "reading" \/ (seqr.step = "idle" /\ seqr.cache \in {"none", "bounded"})
        /\ ~Bounding /\ seqr.n = Newest.n
        /\ Bounding' <=> seqr'.seen = "unbounded"
    BY <1>8, ViewTypes DEF Open, Bounding, NumberedInv
  <2>2. seqr'.seen = "bounded" <=> Newest.view = "bounded"
    BY <1>8, <2>1 DEF SeenInv
  <2>3. seqr'.seen = "unbounded" => Newest.view = "unbounded" /\ cat.view # "none"
    BY <1>8, <2>1 DEF SeenInv
  <2>4. /\ seqr'.bounded => Newest.view = "bounded" \/ Bounding'
        /\ Newest.view = "bounded" => cat.view = "bounded" \/ seqr'.bounded
        /\ Newest.view = "bounded" \/ Bounding' => cat.view # "none"
    BY <1>8, <2>1, <2>3 DEF SeenInv
  <2>5. Bounding' => seqr'.upto = Newest.n - 1 /\ seqr'.bounded
    BY <1>8, <2>1
  <2>6. /\ seqr'.cache = "bounded" => Newest.view = "bounded" \/ Bounding'
        /\ seqr'.cache = "none" => Newest.view # "bounded" /\ ~Bounding'
    BY <1>8, <2>1, <2>2
  <2> QED
    BY <1>1, <1>2, <1>3, <2>2, <2>3, <2>4, <2>5, <2>6 DEF SeenInv
<1> QED
  BY <1>1, <1>5, <1>6, <1>7, <1>8

\* Every step keeps that: the commit that ends a filling is the last that finds it without an end.
LEMMA SeenStep ==
  ASSUME TypeOK, NumberInv, NumberedInv, LineInv, SeenInv, [Next]_vars
  PROVE  SeenInv'
<1>1. CASE Quietly
  BY <1>1, SeenQuiet
<1>2. ASSUME NEW f \in Flights, Sequence(f), SequenceRows(f)
      PROVE  SeenInv'
  <2>1. /\ UNCHANGED <<cat, flying, stmt>> /\ seqr.step = "open" /\ seqr'.step = "open"
        /\ seqr'.cache = seqr.cache /\ seqr'.bounded = seqr.bounded /\ seqr'.seen = seqr.seen /\ seqr'.upto = seqr.upto
    BY <1>2, RowsIs
  <2>2. Newest' = Newest
    BY <2>1 DEF Newest
  <2> QED
    BY <2>1, <2>2 DEF SeenInv, Bounding
<1>3. CASE Commit
  <2>1. PICK w \in Write :
         /\ flying' = Append(flying, w) /\ UNCHANGED <<cat, flight, cl, stmt, takeovers>> /\ seqr.step = "open"
         /\ w.to.view = (IF seqr.seen = "unbounded" THEN "bounded" ELSE Newest.view)
         /\ seqr'.step = "idle" /\ seqr'.cache = seqr.cache /\ seqr'.bounded = seqr.bounded
    BY <1>3, CommitIs
  <2>2. Newest' = w.to /\ cat' = cat /\ stmt' = stmt
    BY <2>1, Lengthens
  <2>3. /\ Newest'.view = "bounded" <=> Newest.view = "bounded" \/ Bounding
        /\ Newest.view = "none" => Newest'.view = "none"
        /\ ~Bounding'
    BY <2>1, <2>2 DEF Bounding, SeenInv
  <2> QED
    BY <2>1, <2>2, <2>3 DEF SeenInv
<1>4. CASE MakeView
  <2>1. PICK w \in Write : flying' = Append(flying, w) /\ w.to.view = "unbounded"
    BY <1>4, MakeViewIs
  <2>2. Newest' = w.to /\ cat' = cat /\ seqr' = seqr /\ stmt'.view = "writing" /\ stmt.view = "no"
    BY <1>4, <2>1, Lengthens DEF MakeView, TypeOK
  <2>3. Newest.view = "none" /\ ~Bounding /\ ~seqr.bounded /\ seqr.cache # "bounded"
    BY <2>2 DEF SeenInv, Bounding
  <2>4. ~Bounding' /\ (seqr.step # "idle" => seqr.seen # "bounded" /\ seqr.seen # "unbounded")
    BY <2>2, <2>3 DEF SeenInv, Bounding
  <2> QED
    BY <2>1, <2>2, <2>3, <2>4 DEF SeenInv
<1>5. CASE Move
  <2>1. PICK w \in Write : flying' = Append(flying, w) /\ w.to.view = Newest.view /\ w.to.n = Newest.n
    BY <1>5, MoveIs
  <2>2. Newest' = w.to /\ cat' = cat /\ seqr' = seqr /\ stmt'.view = stmt.view
    BY <1>5, <2>1, Lengthens DEF Move, TypeOK
  <2> QED
    BY <2>1, <2>2 DEF SeenInv, Bounding
<1>6. CASE Durable
  <2>1. UNCHANGED <<seqr, stmt>> /\ Newest' = Newest /\ 1 \in DOMAIN flying /\ cat' = flying[1].to
    BY <1>6, Shortens DEF Durable
  <2>2. Leads(cat, cat')
    BY <2>1 DEF LineInv
  <2>3. (cat.view = "bounded" => cat'.view = "bounded") /\ (cat.view # "none" => cat'.view # "none")
    BY <2>2 DEF Leads
  <2> QED
    BY <2>1, <2>3 DEF SeenInv, Bounding
<1>7. ASSUME NEW k \in 0 .. Len(flying), TakeOver(k)
      PROVE  SeenInv'
  <2>1. Newest' = cat' /\ cat' = Kept(k)
    BY <1>7, TakenOver
  <2>2. /\ seqr'.step = "idle" /\ seqr'.cache = "forgotten" /\ seqr'.bounded = FALSE
        /\ stmt'.view = IF Kept(k).view = "none" THEN "no" ELSE "made"
    BY <1>7 DEF TakeOver, Kept, Started, NewSequencer
  <2> QED
    BY <2>1, <2>2 DEF SeenInv, Bounding
<1> QED
  BY <1>1, <1>2, <1>3, <1>4, <1>5, <1>6, <1>7, NextIs

\* A statement that fills a view, after a step.
LEMMA FillFlushes ==
  ASSUME TypeOK, NumberInv, PlaceInv, OwnInv, [Next]_vars, NEW f \in Flights, flight'[f].kind = "fill"
  PROVE  \/ flight[f].kind = "fill" /\ flight'[f].content = flight[f].content
         \/ cat.view = "bounded" /\ flight'[f].content = Low(cat) /\ cat' = cat
<1>1. CASE FillView(f) /\ flight'[f].content = {b \in Batches : cat.rows[b] > 0 /\ cat.at[b] <= cat.upto}
  BY <1>1 DEF FillView, Low
<1> QED
  BY <1>1, OwnFlushes DEF Own

\* A quiet step keeps what is shown: a filling is taken once, and of what is below the end.
LEMMA FillQuiet ==
  ASSUME TypeOK, NumberInv, RowsInv, NumberedInv, LineInv, FillInv, Quietly
  PROVE  /\ \A b \in Batches : seqr'.shown[b] =
              IF seqr'.seqs[Fill] = 1 /\ Newest.mark[Fill] = 0 /\ b \in Low(Newest) THEN 1
              ELSE IF seqr'.seen # "none" THEN seqr.rows[b] ELSE 0
         /\ seqr'.seqs[Fill] > 0 => seqr'.seqs[Fill] = 1 /\ Newest.view = "bounded" /\ seqr'.step = "open"
<1>1. \/ UNCHANGED <<seqr.step, seqr.seen, seqr.seqs, seqr.shown>>
      \/ seqr.step # "open" /\ UNCHANGED <<seqr.seqs, seqr.shown>>
      \/ \E f \in Flights :
         /\ flight[f].kind = "fill" /\ seqr.step = "open" /\ seqr'.seqs = [seqr.seqs EXCEPT ![Fill] = 1]
         /\ \A b \in Batches : seqr'.shown[b] = IF SeqOf(Fill) < 1 /\ b \in flight[f].content THEN seqr.shown[b] + 1
                                                                                       ELSE seqr.shown[b]
         /\ UNCHANGED <<seqr.step, seqr.seen>>
  BY QuietIs DEF ReadViews, Open
<1>2. CASE UNCHANGED <<seqr.step, seqr.seen, seqr.seqs, seqr.shown>>
  BY <1>2 DEF FillInv
<1>3. CASE seqr.step # "open" /\ UNCHANGED <<seqr.seqs, seqr.shown>>
  <2>1. seqr.seqs[Fill] = 0
    BY <1>3, ViewTypes DEF FillInv
  <2>2. \A b \in Batches : seqr.rows[b] = 0
    BY <1>3 DEF NumberedInv
  <2>3. \A b \in Batches : seqr.shown[b] = 0
    BY <2>1, <2>2 DEF FillInv
  <2> QED
    BY <1>3, <2>1, <2>2, <2>3
<1>4. ASSUME NEW f \in Flights,
             flight[f].kind = "fill", seqr.step = "open", seqr'.seqs = [seqr.seqs EXCEPT ![Fill] = 1],
             \A b \in Batches : seqr'.shown[b] = IF SeqOf(Fill) < 1 /\ b \in flight[f].content THEN seqr.shown[b] + 1
                                                                                       ELSE seqr.shown[b],
             UNCHANGED <<seqr.step, seqr.seen>>
      PROVE  /\ \A b \in Batches : seqr'.shown[b] =
                  IF seqr'.seqs[Fill] = 1 /\ Newest.mark[Fill] = 0 /\ b \in Low(Newest) THEN 1
                  ELSE IF seqr'.seen # "none" THEN seqr.rows[b] ELSE 0
             /\ seqr'.seqs[Fill] > 0 => seqr'.seqs[Fill] = 1 /\ Newest.view = "bounded" /\ seqr'.step = "open"
  <2>1. seqr'.seqs[Fill] = 1
    BY <1>4, ViewTypes
  <2>2. Newest.view = "bounded" /\ flight[f].content = Low(Newest)
    BY <1>4, NewestLeads DEF FillInv, Leads
  <2>3. SeqOf(Fill) < 1 <=> seqr.seqs[Fill] = 0 /\ Newest.mark[Fill] = 0
    <3>1. /\ seqr.last[Fill] > 0 => seqr.last[Fill] = Newest.mark[Fill]
          /\ seqr.last[Fill] = 0 => cat.mark[Fill] = Newest.mark[Fill]
      BY DEF FillInv
    <3> QED
      BY <3>1, ViewTypes DEF SeqOf
  <2>4. seqr.seqs[Fill] \in {0, 1}
    BY ViewTypes DEF FillInv
  <2>5. ASSUME NEW b \in Batches
        PROVE  seqr'.shown[b] = IF Newest.mark[Fill] = 0 /\ b \in Low(Newest) THEN 1
                                ELSE IF seqr.seen # "none" THEN seqr.rows[b] ELSE 0
    <3>1. seqr'.shown[b] = IF seqr.seqs[Fill] = 0 /\ Newest.mark[Fill] = 0 /\ b \in Low(Newest) THEN seqr.shown[b] + 1
                                                                                               ELSE seqr.shown[b]
      BY <1>4, <2>2, <2>3
    <3>2. seqr.shown[b] = IF seqr.seqs[Fill] = 1 /\ Newest.mark[Fill] = 0 /\ b \in Low(Newest) THEN 1
                          ELSE IF seqr.seen # "none" THEN seqr.rows[b] ELSE 0
      BY DEF FillInv
    <3>3. b \in Low(Newest) => seqr.rows[b] = 0
      BY NotBoth DEF Low
    <3> QED
      BY <2>4, <3>1, <3>2, <3>3
  <2> QED
    BY <1>4, <2>1, <2>2, <2>5
<1> QED
  BY <1>1, <1>2, <1>3, <1>4

\* Every step keeps what is shown, and what the sequencer knows of the filling.
LEMMA FillStep ==
  ASSUME TypeOK, NumberInv, PlaceInv, OwnInv, MarkInv, RowsInv, AckInv, SentInv, NumberedInv, LineInv, SeenInv, FillInv,
         [Next]_vars
  PROVE  FillInv'
<1>0. RowsInv' /\ TypeOK'
  BY RowsStep, NextType
<1>1. CASE Quietly
  <2>1. UNCHANGED <<cat, flying>> /\ seqr'.last = seqr.last /\ seqr'.rows = seqr.rows
    BY <1>1, Quiet
  <2>2. Newest' = Newest
    BY <2>1 DEF Newest
  <2>3. Low(cat)' = Low(cat) /\ Low(Newest)' = Low(Newest)
    BY <2>1, <2>2 DEF Low
  <2>4. \A f \in Flights : flight'[f].kind = "fill" => cat'.view = "bounded" /\ flight'[f].content = Low(cat)'
    BY <2>1, <2>3, FillFlushes DEF FillInv
  <2>5. /\ seqr'.last[Fill] > 0 => seqr'.last[Fill] = Newest'.mark[Fill]
        /\ seqr'.last[Fill] = 0 => cat'.mark[Fill] = Newest'.mark[Fill]
    BY <2>1, <2>2 DEF FillInv
  <2> QED
    BY <1>1, <2>1, <2>2, <2>3, <2>4, <2>5, FillQuiet DEF FillInv
<1>2. ASSUME NEW f \in Flights, Sequence(f), SequenceRows(f)
      PROVE  FillInv'
  <2>1. PICK new \in SUBSET Batches :
         /\ UNCHANGED <<cat, flying>> /\ flight[f].derived = (seqr.seen # "none") /\ seqr.step = "open"
         /\ seqr'.rows = [b \in Batches |-> IF b \in new THEN seqr.rows[b] + 1 ELSE seqr.rows[b]]
         /\ seqr'.shown = (IF flight[f].derived THEN [b \in Batches |-> IF b \in new THEN seqr.shown[b] + 1 ELSE seqr.shown[b]]
                                               ELSE seqr.shown)
         /\ seqr'.seqs = [p \in Marked |-> IF \E b \in new : b[1] = p THEN Latest(new, p) ELSE seqr.seqs[p]]
         /\ seqr'.step = "open" /\ seqr'.last = seqr.last /\ seqr'.seen = seqr.seen
    BY <1>2, RowsIs
  <2>2. Newest' = Newest
    BY <2>1 DEF Newest
  <2>3. Low(cat)' = Low(cat) /\ Low(Newest)' = Low(Newest)
    BY <2>1, <2>2 DEF Low
  <2>4. \A g \in Flights : flight'[g].kind = "fill" => cat'.view = "bounded" /\ flight'[g].content = Low(cat)'
    BY <2>1, <2>3, FillFlushes DEF FillInv
  <2>5. seqr'.seqs[Fill] = seqr.seqs[Fill]
    <3>1. \A b \in new : b[1] # Fill
      BY BatchIs, ViewTypes
    <3> QED
      BY <2>1, <3>1, ViewTypes
  <2>6. ASSUME NEW b \in Batches
        PROVE  seqr'.shown[b] = IF seqr.seqs[Fill] = 1 /\ Newest.mark[Fill] = 0 /\ b \in Low(Newest) THEN 1
                                ELSE IF seqr.seen # "none" THEN seqr'.rows[b] ELSE 0
    <3>1. seqr.shown[b] = IF seqr.seqs[Fill] = 1 /\ Newest.mark[Fill] = 0 /\ b \in Low(Newest) THEN 1
                          ELSE IF seqr.seen # "none" THEN seqr.rows[b] ELSE 0
      BY DEF FillInv
    <3>2. /\ seqr'.rows[b] = IF b \in new THEN seqr.rows[b] + 1 ELSE seqr.rows[b]
          /\ seqr'.shown[b] = IF seqr.seen # "none" /\ b \in new THEN seqr.shown[b] + 1 ELSE seqr.shown[b]
      BY <2>1
    <3>3. seqr.rows[b] \in {0, 1} /\ (b \in Low(Newest) => b \notin new)
      <4>1. seqr.rows[b] \in {0, 1}
        BY NotBoth
      <4>2. b \in new => seqr'.rows[b] # 0
        BY <3>2, <4>1
      <4>3. ASSUME b \in Low(Newest)
            PROVE  seqr'.rows[b] = 0
        <5>1. PICK p : p = b[1]
          OBVIOUS
        <5>2. p \in Producers /\ b[2] \in Nat /\ Newest.mark[p] \in 0 .. MaxSeq
          BY <5>1, BatchIs, MarkOrder
        <5>3. b[2] <= Newest.mark[p]
          BY <4>3, <5>1, NewestExact DEF Low, Exact, Upto
        <5>4. ~ (Newest'.mark[p] < b[2])
          BY <2>2, <5>2, <5>3
        <5> QED
          BY <1>0, <5>1, <5>4 DEF RowsInv
      <4> QED
        BY <4>1, <4>2, <4>3
    <3> QED
      BY <3>1, <3>2, <3>3
  <2> QED
    BY <2>1, <2>2, <2>3, <2>4, <2>5, <2>6 DEF FillInv
<1>3. CASE Commit
  <2>1. PICK w \in Write :
         /\ flying' = Append(flying, w) /\ UNCHANGED <<cat, flight, cl, stmt, takeovers>>
         /\ \A p \in Marked : w.to.mark[p] = IF seqr.seqs[p] > 0 THEN seqr.seqs[p] ELSE Newest.mark[p]
         /\ seqr'.seqs = NoSeqs /\ seqr'.rows = None /\ seqr'.shown = None
         /\ \A p \in Marked : seqr'.last[p] = IF seqr.seqs[p] > 0 THEN seqr.seqs[p] ELSE seqr.last[p]
    BY <1>3, CommitIs
  <2>2. Newest' = w.to /\ cat' = cat /\ flight' = flight
    BY <2>1, Lengthens
  <2>3. Low(cat)' = Low(cat)
    BY <2>2 DEF Low
  <2>4. seqr'.seqs[Fill] = 0 /\ \A b \in Batches : seqr'.rows[b] = 0 /\ seqr'.shown[b] = 0
    BY <2>1, ViewTypes DEF NoSeqs, None
  <2>5. /\ w.to.mark[Fill] = IF seqr.seqs[Fill] > 0 THEN seqr.seqs[Fill] ELSE Newest.mark[Fill]
        /\ seqr'.last[Fill] = IF seqr.seqs[Fill] > 0 THEN seqr.seqs[Fill] ELSE seqr.last[Fill]
    BY <2>1, ViewTypes
  <2>6. /\ seqr'.last[Fill] > 0 => seqr'.last[Fill] = Newest'.mark[Fill]
        /\ seqr'.last[Fill] = 0 => cat'.mark[Fill] = Newest'.mark[Fill]
    BY <2>2, <2>5, ViewTypes DEF FillInv
  <2>7. \A f \in Flights : flight'[f].kind = "fill" => cat'.view = "bounded" /\ flight'[f].content = Low(cat)'
    BY <2>2, <2>3 DEF FillInv
  <2> QED
    BY <2>4, <2>6, <2>7 DEF FillInv
<1>4. CASE MakeView \/ Move
  <2>1. PICK w \in Write : /\ flying' = Append(flying, w) /\ w.to.mark = Newest.mark /\ w.to.rows = Newest.rows
                           /\ w.to.at = Newest.at /\ w.to.upto = Newest.upto
                           /\ MakeView \/ w.to.view = Newest.view
    BY <1>4, MakeViewIs, MoveIs
  <2>2. UNCHANGED <<cat, seqr, flight>> /\ Newest' = w.to
    BY <1>4, <2>1, Lengthens DEF MakeView, Move
  <2>3. Low(cat)' = Low(cat) /\ Low(Newest)' = Low(Newest)
    BY <2>1, <2>2 DEF Low
  <2>4. Newest.view = "bounded" => Newest'.view = "bounded"
    <3>1. MakeView => Newest.view = "none"
      BY DEF MakeView, SeenInv
    <3> QED
      BY <2>1, <2>2, <3>1
  <2> QED
    BY <2>1, <2>2, <2>3, <2>4 DEF FillInv
<1>5. CASE Durable
  <2>1. UNCHANGED seqr /\ Newest' = Newest /\ 1 \in DOMAIN flying /\ cat' = flying[1].to
    BY <1>5, Shortens DEF Durable
  <2>2. Leads(cat, cat') /\ Leads(cat', Newest)
    BY <2>1, NewestLeads DEF LineInv
  <2>3. Low(Newest)' = Low(Newest) /\ (cat.view = "bounded" => cat'.view = "bounded" /\ Low(cat') = Low(cat))
    BY <2>1, <2>2 DEF Low, Leads
  <2>4. \A f \in Flights : flight'[f].kind = "fill" => flight[f].kind = "fill" /\ flight'[f].content = flight[f].content
    <3>1. \A f \in Flights : ~ FillView(f)
      <4>1. flying' # flying
        <5>1. Len(flying') = Len(flying) - 1 /\ Len(flying) \in Nat
          BY <1>5, HeadTailProperties, LenProperties DEF Durable, TypeOK
        <5> QED
          BY <5>1
      <4> QED
        BY <4>1 DEF FillView
    <3> QED
      BY <3>1, OwnFlushes DEF Own
  <2>5. Low(cat)' = Low(cat')
    BY DEF Low
  <2>6. \A f \in Flights : flight'[f].kind = "fill" => cat'.view = "bounded" /\ flight'[f].content = Low(cat)'
    BY <2>3, <2>4, <2>5 DEF FillInv
  <2>7. seqr'.last[Fill] = 0 => cat'.mark[Fill] = Newest'.mark[Fill]
    <3>1. cat'.mark[Fill] \in Nat
      BY <2>1, ViewTypes
    <3> QED
      BY <2>1, <2>2, <3>1, ViewTypes DEF FillInv, Leads
  <2> QED
    BY <2>1, <2>3, <2>6, <2>7 DEF FillInv
<1>6. ASSUME NEW k \in 0 .. Len(flying), TakeOver(k)
      PROVE  FillInv'
  <2>1. Newest' = cat' /\ seqr'.seqs = NoSeqs /\ seqr'.last = NoSeqs /\ seqr'.rows = None
    BY <1>6, TakenOver
  <2>2. seqr'.shown = None /\ seqr'.seen = "none"
    BY <1>6 DEF TakeOver, Started, NewSequencer
  <2>3. \A f \in Flights : flight'[f].kind # "fill"
    BY <1>6, KindsAssumption DEF TakeOver, NoFlush, TypeOK
  <2>4. /\ seqr'.seqs[Fill] = 0 /\ seqr'.last[Fill] = 0 /\ \A b \in Batches : seqr'.rows[b] = 0 /\ seqr'.shown[b] = 0
    BY <2>1, <2>2, ViewTypes DEF NoSeqs, None
  <2> QED
    BY <2>1, <2>3, <2>4 DEF FillInv
<1> QED
  BY <1>1, <1>2, <1>3, <1>4, <1>5, <1>6, NextIs

\* They hold at the start, where there is no view.
LEMMA ViewStart == Init => LineInv /\ SeenInv /\ FillInv
<1> SUFFICES ASSUME Init
             PROVE  LineInv /\ SeenInv /\ FillInv
  OBVIOUS
<1>1. /\ cat = Empty /\ DOMAIN flying = {} /\ Newest = cat /\ seqr = Started(Empty) /\ stmt.view = "no"
      /\ \A f \in Flights : flight[f].kind = "inline"
  BY DEF Init, Newest, NoFlush
<1>2. Fill \in Marked
  BY DEF Marked
<1>3. cat.view = "none" /\ cat.mark[Fill] = 0 /\ \A b \in Batches : cat.shown[b] = 0
  BY <1>1, <1>2 DEF Empty, NoSeqs, None
<1>4. /\ seqr.step = "idle" /\ seqr.cache = "forgotten" /\ seqr.bounded = FALSE /\ seqr.last[Fill] = 0
      /\ seqr.seqs[Fill] = 0 /\ \A b \in Batches : seqr.shown[b] = 0 /\ seqr.rows[b] = 0
  BY <1>1, <1>2 DEF Started, NewSequencer, Empty, NoSeqs, None
<1>5. LineInv
  BY <1>1, <1>3 DEF LineInv, Shows
<1>6. SeenInv
  BY <1>1, <1>3, <1>4 DEF SeenInv, Bounding
<1>7. FillInv
  BY <1>1, <1>3, <1>4 DEF FillInv
<1> QED
  BY <1>5, <1>6, <1>7

-----------------------------------------------------------------------------
(* Theorems                                                                *)

\* The invariant holds at the start ...
LEMMA InitInv == Init => IInv
<1> SUFFICES ASSUME Init
             PROVE  IInv
  OBVIOUS
<1>1. cat = Empty /\ flying = <<>> /\ Newest = cat /\ DOMAIN flying = {} /\ cl.acked = {}
      /\ \A p \in Producers : cl.sent[p] = 0
  BY DEF Init, Newest
<1>2. /\ seqr.n = 1 /\ seqr.queue = <<>> /\ seqr.todo = <<>> /\ seqr.of = {}
      /\ seqr.seqs = NoSeqs /\ seqr.last = NoSeqs /\ seqr.rows = None
  BY DEF Init, Started, NewSequencer, Empty
<1>3. \A f \in Flights : /\ flight[f].step = "free" /\ flight[f].parts = {} /\ flight[f].again = {}
                         /\ flight[f].twice = {} /\ flight[f].ok = {}
  BY DEF Init, NoFlush
<1>4. \A p \in Producers : NoSeqs[p] = 0
  BY DEF NoSeqs, Marked
<1>5. NumberInv /\ PlaceInv /\ MarkInv /\ SentInv
  <2>1. NumberInv
    BY <1>1, <1>2 DEF NumberInv, Empty
  <2>2. PlaceInv
    BY <1>1, <1>2 DEF PlaceInv, Queue, Todo
  <2>3. MarkInv
    BY <1>1, <1>2, <1>4 DEF MarkInv, Empty
  <2>4. \A b \in Batches : ~ (b[2] < cl.sent[b[1]])
    BY <1>1, BatchIs
  <2>5. SentInv
    BY <1>3, <2>4 DEF SentInv
  <2> QED
    BY <2>1, <2>2, <2>3, <2>5
<1>6. \A b \in Batches : cat.rows[b] = 0 /\ cat.mark[b[1]] = 0 /\ Pending(b[1]) = 0 /\ seqr.rows[b] = 0 /\ ~ (b[2] <= 0)
  <2> TAKE b \in Batches
  <2>1. b[1] \in Producers /\ b[2] \in 1 .. MaxSeq /\ cat.rows[b] = 0 /\ seqr.rows[b] = 0
    BY <1>1, <1>2, BatchIs DEF Empty, None
  <2>2. cat.mark[b[1]] = 0 /\ seqr.seqs[b[1]] = 0
    BY <1>1, <1>2, <1>4, <2>1 DEF Empty
  <2> QED
    BY <1>1, <2>1, <2>2 DEF Pending
<1>7. RowsInv
  BY <1>1, <1>6 DEF RowsInv, Exact, Upto
<1>8. AckInv
  BY <1>1, <1>2, <1>3 DEF AckInv
<1> QED
  BY <1>5, <1>7, <1>8, InitType DEF IInv

\* ... and every step keeps it.
LEMMA StepInv ==
  ASSUME ~Twins, IInv, [Next]_vars
  PROVE  IInv'
BY NextType, NumberStep, PlaceStep, MarkStep, RowsStep, AckStep, SentStep DEF IInv

\* Every variable keeps its type, whatever nodes pack: the sequencer's tallies and numbers, the
\* flushes' outcomes and the catalog of every write (log.rs).
THEOREM TypeCorrect == Spec => []TypeOK
<1>1. Init => TypeOK /\ NumberInv
  BY InitInv DEF IInv
<1>2. TypeOK /\ NumberInv /\ [Next]_vars => (TypeOK /\ NumberInv)'
  BY NextType, NumberStep
<1> QED
  BY <1>1, <1>2, PTL DEF Spec

\* The inductive invariant holds: the catalog, each write on its way to it, and the commit that is
\* built have exactly the batches up to their marks (log.rs, Sequencer::commit_batch).
THEOREM Inductive == ~Twins => (Spec => []IInv)
<1> SUFFICES ASSUME ~Twins
             PROVE  Spec => []IInv
  OBVIOUS
<1>1. Init => IInv
  BY InitInv
<1>2. IInv /\ [Next]_vars => IInv'
  BY StepInv
<1> QED
  BY <1>1, <1>2, PTL DEF Spec

\* However often a batch is sent, and to whichever leader, it is committed at most once (log.rs:9).
THEOREM ExactlyOnce == ~Twins => (Spec => []OnceOnly)
<1> SUFFICES ASSUME ~Twins
             PROVE  Spec => []OnceOnly
  OBVIOUS
<1>1. IInv => OnceOnly
  BY DEF IInv, RowsInv, Exact, OnceOnly
<1> QED
  BY <1>1, Inductive, PTL

\* What a producer was told is committed is in the catalog from then on, takeovers included.
THEOREM AckedStays == ~Twins => (Spec => []AckedIsThere)
<1> SUFFICES ASSUME ~Twins
             PROVE  Spec => []AckedIsThere
  OBVIOUS
<1>1. IInv => AckedIsThere
  <2>1. TypeOK => cl.acked \in SUBSET Batches
    BY DEF TypeOK
  <2> QED
    BY <2>1 DEF IInv, RowsInv, AckInv, Exact, AckedIsThere
<1> QED
  BY <1>1, Inductive, PTL

\* No batch of a producer that pipelines is committed before one it follows (log.rs `sent_again`).
THEOREM NoneMissing == ~Twins => (Spec => []NoGaps)
<1> SUFFICES ASSUME ~Twins
             PROVE  Spec => []NoGaps
  OBVIOUS
<1>1. IInv => NoGaps
  <2> SUFFICES ASSUME IInv, NEW b \in Batches, NEW c \in Batches, b[1] = c[1], b[2] < c[2], cat.rows[c] > 0
               PROVE  cat.rows[b] > 0
    BY DEF NoGaps
  <2>1. /\ b[1] \in Producers /\ b[2] \in Nat /\ c[2] \in Nat
        /\ cat.mark[b[1]] \in 0 .. MaxSeq
    BY BatchIs, MarkOrder DEF IInv
  <2>2. c[2] <= cat.mark[c[1]]
    BY DEF IInv, RowsInv, Exact, Upto
  <2>3. b[2] <= cat.mark[b[1]]
    BY <2>1, <2>2
  <2> QED
    BY <2>3 DEF IInv, RowsInv, Exact, Upto
<1> QED
  BY <1>1, Inductive, PTL

\* A table whose entry moved left no row in the log under the name it had: it is held from the
\* statement's own number on until its entry is gone, and its rows are in files before (ddl.rs `still`).
THEOREM NoneLeftBehind == Spec => []MovedWhole
<1> DEFINE J == TypeOK /\ NumberInv /\ PlaceInv /\ OwnInv /\ MoveInv
<1>1. Init => J
  BY InitInv, MoveStart DEF IInv
<1>2. J /\ [Next]_vars => J'
  BY NextType, NumberStep, PlaceStep, OwnStep, MoveStep
<1>3. J => MovedWhole
  BY DEF MoveInv, Filed, MovedWhole
<1> QED
  BY <1>1, <1>2, <1>3, PTL DEF Spec

\* A producer's rows are read in the order it sent them in (log.rs:328), where all flushes are small, or
\* all are big: small ones share one number, which the commit's big ones have taken theirs before.
THEOREM ReadInOrder == ~Twins /\ Kinds # {"inline", "object"} => (Spec => []InOrder)
<1> SUFFICES ASSUME ~Twins, Kinds # {"inline", "object"}
             PROVE  Spec => []InOrder
  OBVIOUS
<1> DEFINE J == IInv /\ NumberedInv /\ OrderInv
<1>1. Init => J
  BY InitInv, OrderStart
<1>2. J /\ [Next]_vars => J'
  BY StepInv, NumberedStep, OrderStep DEF IInv
<1>3. J => InOrder
  BY DEF OrderInv, Ordered, InOrder
<1> QED
  BY <1>1, <1>2, <1>3, PTL DEF Spec

\* A view has each of its source's rows at most once, those after its filling's end from their flush, and
\* once it is filled every one (views.rs `Inline`, `bound`): whatever the nodes know of it, and when.
THEOREM ViewIsRight == ~Twins => (Spec => []ViewHolds)
<1> SUFFICES ASSUME ~Twins
             PROVE  Spec => []ViewHolds
  OBVIOUS
<1> DEFINE J == IInv /\ OwnInv /\ NumberedInv /\ LineInv /\ SeenInv /\ FillInv
<1>1. Init => J
  BY InitInv, MoveStart, OrderStart, ViewStart
<1>2. J /\ [Next]_vars => J'
  BY StepInv, OwnStep, NumberedStep, LineStep, SeenStep, FillStep DEF IInv
<1>3. J => ViewHolds
  <2> SUFFICES ASSUME J, NEW b \in Batches
               PROVE  /\ cat.shown[b] <= cat.rows[b]
                      /\ (cat.view = "bounded" /\ (cat.mark[Fill] = 1 \/ cat.at[b] > cat.upto)) => cat.shown[b] = cat.rows[b]
    BY DEF ViewHolds
  <2>1. cat.rows[b] \in {0, 1}
    BY DEF IInv, RowsInv, Exact
  <2>2. Shows(cat)
    BY DEF LineInv
  <2> QED
    BY <2>1, <2>2 DEF Shows
<1> QED
  BY <1>1, <1>2, <1>3, PTL DEF Spec
=============================================================================
