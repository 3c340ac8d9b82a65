------------------------ MODULE SequenceValues_proofs ------------------------
(***************************************************************************)
(* What holds of sequences, for any calls, nodes, names, shapes and bounds: *)
(* no value is handed out twice, and once `setval` returned on a node, none *)
(* from before is handed out there.                                         *)
(*                                                                         *)
(* The argument.  A value of a life is at one *place*: handed out, left in  *)
(* a node's block, in the block a call was answered with, or in the answer  *)
(* of a write on its way (ApartInv).  Wherever it is, the counter of its    *)
(* life is past it, in the committed catalog and in that of every write on  *)
(* its way (PassInv; a value whose write is on its way, from that write     *)
(* on).  So whichever of them a takeover keeps, the next block begins       *)
(* behind what anyone has.  It needs that a life belongs to one sequence at *)
(* a time (LineInv), that what the sequencer holds of a counter is the      *)
(* newest (HeldInv), and that one call at a time has its node's block       *)
(* (CallInv).  For `setval`: a node's block was taken in a commit after     *)
(* the last `setval` that returned there (ToldInv).                         *)
(***************************************************************************)
EXTENDS SequenceValues, SequenceTheorems, TLAPS

-----------------------------------------------------------------------------
(* The inductive invariant                                                 *)

\* A block's values, of one life.
In(b, l, v) == b.life = l /\ \E j \in 0 .. (b.left - 1) : v = b.next + j * b.step

\* Value v of life l is at a place: handed out, in a node's block, in the block a call has for an
\* answer, or in the block a write on its way answers with.
Has(k, x, y, l, v) ==
    \/ k = "given" /\ x \in Nodes /\ y \in DOMAIN given[x] /\ given[x][y].life = l /\ given[x][y].value = v
    \/ k = "block" /\ x \in Nodes /\ y \in Names /\ In(blocks[x][y], l, v)
    \/ k = "answer" /\ x \in Calls /\ y = 0 /\ call[x].step = "answered" /\ ~call[x].set /\ In(call[x].answer, l, v)
    \/ k = "flying" /\ x \in DOMAIN flying /\ y = 0 /\ In(flying[x].answer, l, v)

\* It is at one place only.
ApartInv ==
    \A k, x, y, k2, x2, y2, l, v :
        Has(k, x, y, l, v) /\ Has(k2, x2, y2, l, v) => k = k2 /\ x = x2 /\ y = y2

\* The catalogs, one after the other: the committed one, and those of the writes on their way.
Line(m) == IF m = 0 THEN cat ELSE flying[m].to

\* Every sequence has a life of its own, begun before.
Lives(x) ==
    \A s \in Names : x.seq[s] # Nothing =>
        /\ x.seq[s].life < x.n
        /\ \A t \in Names : x.seq[t] # Nothing /\ x.seq[t].life = x.seq[s].life => s = t

LineInv ==
    /\ \A m \in 0 .. Len(flying) : Lives(Line(m))
    /\ \A m, o \in 0 .. Len(flying) : m <= o => Line(m).n <= Line(o).n

\* The counter is at v or past it.
Beyond(c, v) == c.called /\ IF c.shape.increment > 0 THEN v <= c.last ELSE v >= c.last

Pass(x, l, v) == \A s \in Names : x.seq[s] # Nothing /\ x.seq[s].life = l => Beyond(x.seq[s], v)

\* A value that was taken lies behind its sequence's counter, from the catalog on that its taking made.
From(k, x) == IF k = "flying" THEN x ELSE 0

PassInv ==
    \A k, x, y, l, v : Has(k, x, y, l, v) =>
        /\ l < Line(From(k, x)).n
        /\ \A m \in From(k, x) .. Len(flying) : Pass(Line(m), l, v)

\* What the sequencer holds of a counter is the newest; what it doesn't hold, no write on its way has moved.
HeldInv ==
    \A s \in Names : IF held[s] = Unknown THEN \A m \in 0 .. Len(flying) : Line(m).seq[s] = cat.seq[s]
                                          ELSE held[s] = Newest.seq[s]

\* A counter goes on from another one of its life.
Heir(d, c) == c # Nothing /\ d.life = c.life /\ \A v \in Int : Beyond(c, v) => Beyond(d, v)

\* What an op does to the counters: one counter at most, which begins a life or goes on from one it replaces ...
Rightful(counters) ==
    /\ DOMAIN counters \subseteq Names
    /\ \A s \in DOMAIN counters : counters[s] \in Counter \cup {Nothing}
    /\ \A s, t \in DOMAIN counters : counters[s] # Nothing /\ counters[t] # Nothing => s = t
    /\ \A s \in DOMAIN counters : counters[s] # Nothing =>
          counters[s].life = Newest.n \/ \E r \in DOMAIN counters : Heir(counters[s], Newest.seq[r])

\* ... and what it answers with: values the counter is past now and wasn't before.
Backed(answer, counters) ==
    \A l, v : In(answer, l, v) =>
        /\ v \in Int
        /\ \E s \in DOMAIN counters :
            /\ counters[s] # Nothing /\ counters[s].life = l /\ Beyond(counters[s], v)
            /\ \/ l = Newest.n
               \/ Newest.seq[s] # Nothing /\ Newest.seq[s].life = l /\ ~Beyond(Newest.seq[s], v)

\* A block's values differ from one another.
Steps(b) == b.left > 0 => b.step # 0
StepInv ==
    /\ \A i \in Nodes, s \in Names : Steps(blocks[i][s])
    /\ \A c \in Calls : Steps(call[c].answer)
    /\ \A j \in DOMAIN flying : Steps(flying[j].answer)

\* A call waits for one write at most, and one that takes values has its node's blocks locked.
Holding(c) == call[c].step = "locked" \/ (call[c].step \in {"asked", "ordered", "answered"} /\ ~call[c].set)
CallInv ==
    /\ \A c \in Calls : call[c].step = "asked" /\ ~call[c].set => call[c].value >= 1
    /\ \A j \in DOMAIN flying : flying[j].of \in Calls => call[flying[j].of].step = "ordered"
    /\ \A i, j \in DOMAIN flying : flying[i].of \in Calls /\ flying[i].of = flying[j].of => i = j
    /\ \A c \in Calls : Holding(c) => lock[nodeOf[c]] = c

\* A block that a node has or will have was taken after the last `setval` that returned there.
ToldTo(c) == told[nodeOf[c]][call[c].name]

CallTold(c) ==
    /\ call[c].after <= ToldTo(c)
    /\ call[c].step = "answered" => call[c].answer.version < cat.n
    /\ call[c].step = "answered" /\ ~call[c].set /\ call[c].answer.version > 0 => ToldTo(c) < call[c].answer.version

WriteTold(j) ==
    /\ flying[j].answer.version < flying[j].to.n
    /\ flying[j].of \in Calls /\ flying[j].answer.version > 0 /\ ~call[flying[j].of].set =>
          ToldTo(flying[j].of) < flying[j].answer.version

ToldInv ==
    /\ \A i \in Nodes, s \in Names :
        /\ told[i][s] < cat.n
        /\ blocks[i][s].left > 0 => told[i][s] < blocks[i][s].version
    /\ \A c \in Calls : CallTold(c)
    /\ \A j \in DOMAIN flying : WriteTold(j)

\* The step of an op: a statement's, or a call's that asked.
Ordering(counters, of, answer) ==
    /\ Order(counters, of, answer)
    /\ Rightful(counters) /\ Backed(answer, counters)
    /\ answer \in Block /\ Steps(answer) /\ answer.version \in {0, Newest.n}
    /\ \/ of = Nothing /\ call' = call
       \/ of \in Calls /\ call[of].step = "asked" /\ call' = [call EXCEPT ![of].step = "ordered"]
    /\ UNCHANGED <<nodeOf, cat, seen, blocks, lock, given, told, takeovers>>

-----------------------------------------------------------------------------
(* Types                                                                   *)

\* The newest catalog is one, and the sequencer's counters are.
LEMMA NewestType ==
  ASSUME TypeOK
  PROVE  Newest \in Catalog /\ Newest.n \in Nat /\ \A s \in Names : Get(s) \in Counter \cup {Nothing}
<1>1. flying \in Seq(Write)
  BY DEF TypeOK
<1>2. flying # <<>> => Len(flying) \in DOMAIN flying
  BY <1>1, LenProperties, EmptySeq
<1>3. \A j \in DOMAIN flying : flying[j] \in Write
  BY <1>1
<1>4. Newest \in Catalog
  BY <1>2, <1>3 DEF Newest, TypeOK, Write
<1>5. \A s \in Names : Get(s) \in Counter \cup {Nothing}
  BY DEF Get, TypeOK, Catalog
<1> QED
  BY <1>4, <1>5 DEF Catalog

\* What a shape is.
LEMMA ShapeIs ==
  ASSUME NEW c \in Counter
  PROVE  /\ c.shape \in Shapes /\ c.shape.increment \in Int \ {0} /\ c.shape.min \in Int /\ c.shape.max \in Int
         /\ c.shape.min < c.shape.max /\ c.shape.start \in Int /\ c.shape.cycle \in BOOLEAN
         /\ c.last \in Int /\ c.called \in BOOLEAN /\ c.life \in Nat /\ c.version \in Nat
<1>1. c.shape \in Shapes /\ c.last \in Int /\ c.called \in BOOLEAN /\ c.life \in Nat /\ c.version \in Nat
  BY DEF Counter
<1> QED
  BY <1>1, ShapesAssumption

\* A block of n values from f on, and its counter.
TakenAs(c, f, n, life, version) ==
    [block |-> [version |-> version, next |-> f, left |-> n, step |-> c.shape.increment, life |-> life],
     counter |-> [c EXCEPT !.last = f + (n - 1) * c.shape.increment, !.called = TRUE, !.life = life]]

\* What `take` takes: at least one value, from the one after the last on, unless it goes round.
LEMMA TakenIs ==
  ASSUME NEW c \in Counter, First(c) # {}, NEW count \in Int, count >= 1, NEW version \in Nat
  PROVE  \E f \in Int, n \in Nat, life \in Nat :
         /\ n >= 1
         /\ \/ f = After(c) /\ life = c.life
            \/ life = version
         /\ Taken(c, count, version) = TakenAs(c, f, n, life, version)
<1> DEFINE f == CHOOSE v \in First(c) : TRUE
           n == Least(count, Room(f, c.shape))
           again == ~Within(After(c), c.shape)
           life == IF again THEN version ELSE c.life
<1>1. /\ c.shape.increment \in Int \ {0} /\ c.shape.min \in Int /\ c.shape.max \in Int
      /\ c.shape.min < c.shape.max /\ c.last \in Int /\ c.life \in Nat
  BY ShapeIs
<1>2. f \in First(c)
  OBVIOUS
<1> HIDE DEF f
<1>3. /\ f \in Int /\ c.shape.min <= f /\ f <= c.shape.max
      /\ Within(After(c), c.shape) => f = After(c)
  <2>1. After(c) \in Int
    BY <1>1 DEF After
  <2>2. CASE Within(After(c), c.shape)
    BY <1>1, <1>2, <2>1, <2>2 DEF First, Within
  <2>3. CASE ~ Within(After(c), c.shape)
    BY <1>1, <1>2, <2>1, <2>3 DEF First
  <2> QED
    BY <2>2, <2>3
<1>4. Room(f, c.shape) \in Nat /\ Room(f, c.shape) >= 1
  <2>1. CASE c.shape.increment > 0
    <3>1. (c.shape.max - f) \div c.shape.increment \in Nat
      <4>1. PICK a : a = c.shape.max - f
        OBVIOUS
      <4>2. PICK b : b = c.shape.increment
        OBVIOUS
      <4>3. a \in Nat /\ b \in Nat /\ b > 0
        BY <1>1, <1>3, <2>1, <4>1, <4>2
      <4>4. a \div b \in Nat
        BY <4>3
      <4> QED
        BY <4>1, <4>2, <4>4
    <3> QED
      BY <2>1, <3>1 DEF Room
  <2>2. CASE ~ (c.shape.increment > 0)
    <3>1. (f - c.shape.min) \div (-c.shape.increment) \in Nat
      <4>1. PICK a : a = f - c.shape.min
        OBVIOUS
      <4>2. PICK b : b = -c.shape.increment
        OBVIOUS
      <4>3. a \in Nat /\ b \in Nat /\ b > 0
        BY <1>1, <1>3, <2>2, <4>1, <4>2
      <4>4. a \div b \in Nat
        BY <4>3
      <4> QED
        BY <4>1, <4>2, <4>4
    <3> QED
      BY <2>2, <3>1 DEF Room
  <2> QED
    BY <2>1, <2>2
<1>5. n \in Nat /\ n >= 1
  BY <1>4 DEF Least
<1>6. life \in Nat /\ ((f = After(c) /\ life = c.life) \/ life = version)
  BY <1>1, <1>3
<1>7. Taken(c, count, version) = TakenAs(c, f, n, life, version)
  BY DEF Taken, TakenAs, f
<1> QED
  BY <1>3, <1>5, <1>6, <1>7

\* A call that has not begun, and no block.
LEMMA NoCallType ==
  /\ NoBlock \in Block
  /\ NoCall \in Call /\ NoCall.step = "idle" /\ ~NoCall.set /\ NoCall.after = 0 /\ NoCall.answer = NoBlock
<1>1. NoBlock \in Block
  BY DEF NoBlock, Block
<1>2. AName \in Names
  BY NamesAssumption DEF AName
<1>3. 0 \in 0 .. Most
  BY BoundsAssumption
<1> QED
  BY <1>1, <1>2, <1>3 DEF NoCall, Call

\* An op's write, and what it leaves of the rest.
LEMMA OrderType ==
  ASSUME TypeOK, NEW counters, NEW of \in Calls \cup {Nothing, Unknown}, NEW answer \in Block,
         DOMAIN counters \subseteq Names, \A s \in DOMAIN counters : counters[s] \in Counter \cup {Nothing},
         Order(counters, of, answer)
  PROVE  /\ held' \in [Names -> Counter \cup {Nothing, Unknown}]
         /\ flying' \in Seq(Write)
         /\ Len(flying') = Len(flying) + 1
         /\ \A j \in DOMAIN flying : j \in DOMAIN flying' /\ flying'[j] = flying[j]
         /\ DOMAIN flying' = 1 .. (Len(flying) + 1)
         /\ flying'[Len(flying) + 1].of = of
         /\ flying'[Len(flying) + 1].answer = answer
         /\ flying'[Len(flying) + 1].to.n = Newest.n + 1
         /\ \A s \in Names : flying'[Len(flying) + 1].to.seq[s] = IF s \in DOMAIN counters THEN counters[s] ELSE Newest.seq[s]
<1> DEFINE to == [n |-> Newest.n + 1,
                  seq |-> [s \in Names |-> IF s \in DOMAIN counters THEN counters[s] ELSE Newest.seq[s]]]
           w == [to |-> to, of |-> of, answer |-> answer]
<1>1. Newest \in Catalog /\ Newest.n \in Nat
  BY NewestType
<1>2. \A s \in Names : Newest.seq[s] \in Counter \cup {Nothing}
  BY <1>1 DEF Catalog
<1>3. to \in Catalog
  BY <1>1, <1>2 DEF Catalog
<1>4. to.n = Newest.n + 1 /\ \A s \in Names : to.seq[s] = IF s \in DOMAIN counters THEN counters[s] ELSE Newest.seq[s]
  OBVIOUS
<1>5. held' = [s \in Names |-> IF s \in DOMAIN counters THEN counters[s] ELSE held[s]] /\ flying' = Append(flying, w)
  BY DEF Order
<1> HIDE DEF to
<1>6. w \in Write /\ w.to = to /\ w.of = of /\ w.answer = answer
  BY <1>3 DEF Write
<1> HIDE DEF w
<1>7. held \in [Names -> Counter \cup {Nothing, Unknown}] /\ flying \in Seq(Write)
  BY DEF TypeOK
<1>8. held' \in [Names -> Counter \cup {Nothing, Unknown}]
  BY <1>5, <1>7
<1>9. /\ flying' \in Seq(Write) /\ Len(flying') = Len(flying) + 1
      /\ \A j \in 1 .. Len(flying) : flying'[j] = flying[j]
      /\ flying'[Len(flying) + 1] = w
  BY <1>5, <1>6, <1>7, AppendProperties
<1>10. DOMAIN flying = 1 .. Len(flying) /\ DOMAIN flying' = 1 .. Len(flying') /\ Len(flying) \in Nat
  BY <1>7, <1>9, LenProperties
<1> QED
  BY <1>4, <1>6, <1>8, <1>9, <1>10

-----------------------------------------------------------------------------
(* The sequencer's ops                                                     *)

\* What lies between two values of a block, by its step's sign.
LEMMA Between ==
  ASSUME NEW inc \in Int, NEW m \in Nat, NEW j \in Nat, j <= m
  PROVE  /\ inc > 0 => 0 <= j * inc /\ j * inc <= m * inc
         /\ inc < 0 => 0 >= j * inc /\ j * inc >= m * inc
<1>1. PICK d \in Nat : m = j + d
  <2>1. m - j \in Nat /\ m = j + (m - j)
    OBVIOUS
  <2> QED
    BY <2>1
<1>2. m * inc = j * inc + d * inc
  BY <1>1
<1>3. inc > 0 => j * inc >= 0 /\ d * inc >= 0
  OBVIOUS
<1>4. inc < 0 => j * inc <= 0 /\ d * inc <= 0
  OBVIOUS
<1>5. j * inc \in Int /\ d * inc \in Int /\ m * inc \in Int
  OBVIOUS
<1> QED
  BY <1>2, <1>3, <1>4, <1>5

\* The newest catalog is the last of the line.
LEMMA NewestIs ==
  ASSUME TypeOK
  PROVE  /\ Len(flying) \in Nat /\ DOMAIN flying = 1 .. Len(flying)
         /\ Newest = Line(Len(flying)) /\ Line(0) = cat
         /\ \A j \in DOMAIN flying : Line(j) = flying[j].to /\ flying[j] \in Write
         /\ \A m \in 0 .. Len(flying) : Line(m) \in Catalog /\ Line(m).n \in Nat
                                     /\ \A s \in Names : Line(m).seq[s] \in Counter \cup {Nothing}
<1>1. flying \in Seq(Write) /\ cat \in Catalog
  BY DEF TypeOK
<1>2. Len(flying) \in Nat /\ DOMAIN flying = 1 .. Len(flying) /\ \A j \in DOMAIN flying : flying[j] \in Write
  BY <1>1, LenProperties
<1>3. flying = <<>> <=> Len(flying) = 0
  BY <1>1, EmptySeq
<1>4. Newest = Line(Len(flying)) /\ Line(0) = cat
  BY <1>3 DEF Newest, Line
<1>5. \A j \in DOMAIN flying : Line(j) = flying[j].to
  BY <1>2 DEF Line
<1>6. \A m \in 0 .. Len(flying) : Line(m) \in Catalog
  BY <1>1, <1>2 DEF Line, Write
<1> QED
  BY <1>2, <1>4, <1>5, <1>6 DEF Catalog

\* The counter as the sequencer has it is the newest, whether it holds it or reads the catalog.
LEMMA GetIsNewest ==
  ASSUME TypeOK, HeldInv, NEW s \in Names
  PROVE  Get(s) = Newest.seq[s] /\ Get(s) \in Counter \cup {Nothing}
<1>1. Len(flying) \in 0 .. Len(flying) /\ Newest = Line(Len(flying))
  BY NewestIs
<1> QED
  BY <1>1, NewestType DEF Get, HeldInv

\* An op that is refused leaves its counter.
LEMMA RefusedRightful ==
  ASSUME TypeOK, HeldInv, NEW s \in Names
  PROVE  Rightful(Refused(s))
<1>1. DOMAIN Refused(s) = {s} /\ Refused(s)[s] = Newest.seq[s] /\ Refused(s)[s] \in Counter \cup {Nothing}
  BY GetIsNewest DEF Refused
<1>2. Refused(s)[s] # Nothing => Heir(Refused(s)[s], Newest.seq[s])
  BY <1>1 DEF Heir
<1> QED
  BY <1>1, <1>2 DEF Rightful

\* An answer without values.
LEMMA NoneBacked ==
  ASSUME NEW answer \in Block, answer.left = 0, NEW counters
  PROVE  Backed(answer, counters) /\ Steps(answer)
BY DEF Backed, In, Steps, Block

\* A counter that begins a life, alone.
LEMMA FreshRightful ==
  ASSUME NEW s \in Names, NEW d \in Counter, d.life = Newest.n
  PROVE  Rightful([t \in {s} |-> d])
<1>1. DOMAIN [t \in {s} |-> d] = {s} /\ [t \in {s} |-> d][s] = d
  OBVIOUS
<1> QED
  BY <1>1 DEF Rightful

\* A counter that goes on from the newest one, alone.
LEMMA HeirRightful ==
  ASSUME NEW s \in Names, NEW d \in Counter, Heir(d, Newest.seq[s])
  PROVE  Rightful([t \in {s} |-> d])
<1>1. DOMAIN [t \in {s} |-> d] = {s} /\ [t \in {s} |-> d][s] = d
  OBVIOUS
<1> QED
  BY <1>1 DEF Rightful

\* `take`: a block of values after the last one given, or none.
LEMMA TakeOrders ==
  ASSUME TypeOK, HeldInv, CallInv, NEW c \in Calls, OrderTake(c)
  PROVE  \E counters, answer : Ordering(counters, c, answer)
<1> DEFINE s == call[c].name
           o == Get(s)
           t == Taken(o, call[c].value, Newest.n)
<1>1. call[c].step = "asked" /\ ~call[c].set /\ s \in Names /\ call[c].value \in Int /\ call[c].value >= 1
  <2>1. call[c] \in Call
    BY DEF TypeOK
  <2> QED
    BY <2>1 DEF OrderTake, Call, CallInv
<1>2. o = Newest.seq[s] /\ o \in Counter \cup {Nothing} /\ Newest.n \in Nat
  BY <1>1, GetIsNewest, NewestType
<1>3. /\ call' = [call EXCEPT ![c].step = "ordered"]
      /\ UNCHANGED <<nodeOf, cat, seen, blocks, lock, given, told, takeovers>>
      /\ IF o = Nothing \/ (o # Nothing /\ First(o) = {})
         THEN Order(Refused(s), c, NoBlock) ELSE Order([r \in {s} |-> t.counter], c, t.block)
  BY DEF OrderTake
<1>4. CASE o = Nothing \/ (o # Nothing /\ First(o) = {})
  <2>1. NoBlock \in Block /\ NoBlock.left = 0 /\ NoBlock.version = 0
    BY NoCallType DEF NoBlock
  <2>2. Rightful(Refused(s)) /\ Backed(NoBlock, Refused(s)) /\ Steps(NoBlock)
    BY <1>1, <2>1, RefusedRightful, NoneBacked
  <2>3. Ordering(Refused(s), c, NoBlock)
    BY <1>1, <1>2, <1>3, <1>4, <2>1, <2>2 DEF Ordering
  <2> QED
    BY <2>3
<1>5. CASE o \in Counter /\ First(o) # {}
  <2>1. PICK count : count = call[c].value
    OBVIOUS
  <2>2. PICK version : version = Newest.n
    OBVIOUS
  <2>3. t = Taken(o, count, version) /\ count \in Int /\ count >= 1 /\ version \in Nat
    BY <1>1, <1>2, <2>1, <2>2
  <2> HIDE DEF s, o, t
  <2>4. PICK f \in Int, n \in Nat, life \in Nat :
          /\ n >= 1
          /\ \/ f = After(o) /\ life = o.life
             \/ life = version
          /\ Taken(o, count, version) = TakenAs(o, f, n, life, version)
    BY <1>5, <2>3, TakenIs
  <2>5. n >= 1 /\ ((f = After(o) /\ life = o.life) \/ life = Newest.n)
    BY <2>2, <2>4
  <2>6. t = TakenAs(o, f, n, life, Newest.n)
    BY <2>2, <2>3, <2>4
  <2> DEFINE inc == o.shape.increment
             d == t.counter
             b == t.block
             counters == [r \in {s} |-> d]
  <2>8. inc \in Int \ {0} /\ o.last \in Int /\ o.called \in BOOLEAN /\ o.life \in Nat /\ o.version \in Nat /\ o.shape \in Shapes
    BY <1>5, ShapeIs
  <2>9. PICK m \in Nat : m = n - 1
    BY <2>5
  <2>10. m * inc \in Int /\ f + m * inc \in Int
    BY <2>5, <2>8, <2>9
  <2>11. d = [o EXCEPT !.last = f + m * inc, !.called = TRUE, !.life = life]
    BY <2>6, <2>9 DEF TakenAs
  <2>12. d \in Counter /\ d.last = f + m * inc /\ d.called /\ d.life = life /\ d.shape.increment = inc
    BY <1>5, <2>8, <2>10, <2>11 DEF Counter
  <2>13. b \in Block /\ b.version = Newest.n /\ b.next = f /\ b.left = n /\ b.step = inc /\ b.life = life
    BY <1>2, <2>6, <2>8 DEF Block, TakenAs
  <2>14. o # Nothing
    BY <1>5, CounterAssumption
  <2>15. d # Nothing
    BY <2>12, CounterAssumption
  <2>16. After(o) = IF o.called THEN o.last + inc ELSE o.last
    BY DEF After
  <2> HIDE DEF inc, d, b
  <2>17. Beyond(d, f)
    <3>1. (inc > 0 => 0 <= m * inc) /\ (inc < 0 => 0 >= m * inc)
      BY <2>8, Between
    <3> QED
      BY <2>5, <2>8, <2>10, <2>12, <3>1 DEF Beyond
  <2>18. life = Newest.n \/ Heir(d, o)
    <3> SUFFICES ASSUME f = After(o), life = o.life, NEW v \in Int, Beyond(o, v)
                 PROVE  Beyond(d, v)
      BY <2>5, <2>12, <2>14 DEF Heir
    <3>1. o.called /\ IF inc > 0 THEN v <= o.last ELSE v >= o.last
      BY DEF Beyond, inc
    <3>2. (inc > 0 => 0 <= m * inc) /\ (inc < 0 => 0 >= m * inc)
      BY <2>8, Between
    <3> QED
      BY <2>5, <2>8, <2>10, <2>12, <2>16, <3>1, <3>2 DEF Beyond
  <2>19. Rightful(counters)
    <3>1. s \in Names
      BY <1>1 DEF s
    <3>2. d.life = Newest.n => Rightful([r \in {s} |-> d])
      BY <2>12, <3>1, FreshRightful
    <3>3. Heir(d, Newest.seq[s]) => Rightful([r \in {s} |-> d])
      BY <2>12, <3>1, HeirRightful
    <3> QED
      BY <1>2, <2>12, <2>18, <3>2, <3>3
  <2>20. Backed(b, counters)
    <3>1. DOMAIN counters = {s} /\ counters[s] = d
      OBVIOUS
    <3> HIDE DEF counters
    <3> SUFFICES ASSUME NEW l, NEW v, In(b, l, v)
                 PROVE  /\ v \in Int /\ d.life = l /\ Beyond(d, v)
                        /\ l = Newest.n \/ (Newest.seq[s] # Nothing /\ Newest.seq[s].life = l /\ ~Beyond(Newest.seq[s], v))
      BY <2>15, <3>1 DEF Backed
    <3>2. PICK j \in 0 .. (n - 1) : v = f + j * inc
      BY <2>13 DEF In
    <3>3. l = life
      BY <2>13 DEF In
    <3>4. j \in Nat /\ j <= m /\ j * inc \in Int
      BY <2>5, <2>8, <2>9, <3>2
    <3>5. /\ inc > 0 => 0 <= j * inc /\ j * inc <= m * inc
          /\ inc < 0 => 0 >= j * inc /\ j * inc >= m * inc
      BY <2>8, <3>4, Between
    <3>6. v \in Int /\ Beyond(d, v)
      BY <2>5, <2>8, <2>10, <2>12, <3>2, <3>4, <3>5 DEF Beyond
    <3>7. life = o.life /\ f = After(o) => ~Beyond(o, v)
      <4>1. Beyond(o, v) <=> o.called /\ IF inc > 0 THEN v <= o.last ELSE v >= o.last
        BY DEF Beyond, inc
      <4> QED
        BY <2>5, <2>8, <2>16, <3>2, <3>4, <3>5, <4>1
    <3> QED
      BY <1>2, <2>5, <2>12, <2>14, <3>3, <3>6, <3>7
  <2>21. Order(counters, c, b)
    BY <1>3, <1>5, <2>14 DEF s, o, t, d, b
  <2>22. Steps(b)
    BY <2>8, <2>13 DEF Steps
  <2>23. Ordering(counters, c, b)
    BY <1>1, <1>2, <1>3, <2>13, <2>19, <2>20, <2>21, <2>22 DEF Ordering
  <2> QED
    BY <2>23
<1> QED
  BY <1>2, <1>4, <1>5

\* `setval`'s op: a counter that begins a life, or one left as it is.
LEMMA SetOrders ==
  ASSUME TypeOK, HeldInv, NEW c \in Calls, OrderSet(c)
  PROVE  \E counters, answer : Ordering(counters, c, answer)
<1> DEFINE s == call[c].name
           v == call[c].value
           o == Get(s)
           d == [o EXCEPT !.last = v, !.called = call[c].called, !.version = Newest.n, !.life = Newest.n]
           b == [NoBlock EXCEPT !.version = Newest.n]
<1>1. call[c].step = "asked" /\ s \in Names /\ v \in Int /\ call[c].called \in BOOLEAN
  <2>1. call[c] \in Call
    BY DEF TypeOK
  <2> QED
    BY <2>1 DEF OrderSet, Call
<1>2. o \in Counter \cup {Nothing} /\ Newest.n \in Nat
  BY <1>1, GetIsNewest, NewestType
<1>3. /\ call' = [call EXCEPT ![c].step = "ordered"]
      /\ UNCHANGED <<nodeOf, cat, seen, blocks, lock, given, told, takeovers>>
      /\ IF o = Nothing \/ (o # Nothing /\ ~Within(v, o.shape))
         THEN Order(Refused(s), c, NoBlock) ELSE Order([r \in {s} |-> d], c, b)
  BY DEF OrderSet
<1>4. CASE o = Nothing \/ (o # Nothing /\ ~Within(v, o.shape))
  <2>1. NoBlock \in Block /\ NoBlock.left = 0 /\ NoBlock.version = 0
    BY NoCallType DEF NoBlock
  <2>2. Rightful(Refused(s)) /\ Backed(NoBlock, Refused(s)) /\ Steps(NoBlock)
    BY <1>1, <2>1, RefusedRightful, NoneBacked
  <2>3. Ordering(Refused(s), c, NoBlock)
    BY <1>1, <1>2, <1>3, <1>4, <2>1, <2>2 DEF Ordering
  <2> QED
    BY <2>3
<1>5. CASE o \in Counter /\ Within(v, o.shape)
  <2>1. d \in Counter /\ d.life = Newest.n
    BY <1>1, <1>2, <1>5 DEF Counter
  <2>2. b \in Block /\ b.left = 0 /\ b.version = Newest.n
    BY <1>2, NoCallType DEF NoBlock, Block
  <2>3. o # Nothing
    BY <1>5, CounterAssumption
  <2>4. Order([r \in {s} |-> d], c, b)
    BY <1>3, <1>5, <2>3
  <2> HIDE DEF d, b
  <2>5. Rightful([r \in {s} |-> d])
    BY <1>1, <2>1, FreshRightful
  <2>6. Backed(b, [r \in {s} |-> d]) /\ Steps(b)
    BY <2>2, NoneBacked
  <2>7. Ordering([r \in {s} |-> d], c, b)
    BY <1>1, <1>2, <1>3, <2>2, <2>4, <2>5, <2>6 DEF Ordering
  <2> QED
    BY <2>7
<1> QED
  BY <1>2, <1>4, <1>5

\* A statement's op.
LEMMA StatementOrders ==
  ASSUME NEW counters, TypeOK, Rightful(counters), Statement(counters)
  PROVE  Ordering(counters, Nothing, NoBlock)
<1>1. NoBlock \in Block /\ NoBlock.left = 0 /\ NoBlock.version = 0
  BY NoCallType DEF NoBlock
<1>2. Backed(NoBlock, counters) /\ Steps(NoBlock)
  BY <1>1, NoneBacked
<1>3. Newest.n \in Nat
  BY NewestType
<1> QED
  BY <1>1, <1>2, <1>3 DEF Ordering, Statement

Statements ==
    \E s \in Names :
        \/ \E shape \in Shapes, restart \in BOOLEAN : Make(s, shape) \/ Alter(s, shape, restart)
        \/ Drop(s) \/ \E to \in Names \ {s} : Rename(s, to)

\* CREATE, ALTER, RENAME and DROP: their counters begin a life, go on under another name, or end.
LEMMA StatementsOrder ==
  ASSUME TypeOK, HeldInv, Statements
  PROVE  \E counters : Ordering(counters, Nothing, NoBlock)
<1>1. Newest.n \in Nat
  BY NewestType
<1>2. ASSUME NEW s \in Names, NEW shape \in Shapes, Make(s, shape)
      PROVE  \E counters : Ordering(counters, Nothing, NoBlock)
  <2> DEFINE d == [shape |-> shape, last |-> shape.start, called |-> FALSE, version |-> Newest.n, life |-> Newest.n]
  <2>1. shape.start \in Int
    BY ShapesAssumption
  <2>2. d \in Counter /\ d.life = Newest.n
    BY <1>1, <2>1 DEF Counter
  <2>3. Statement([t \in {s} |-> d])
    BY <1>2 DEF Make
  <2> HIDE DEF d
  <2> QED
    BY <2>2, <2>3, FreshRightful, StatementOrders
<1>3. ASSUME NEW s \in Names, NEW shape \in Shapes, NEW restart \in BOOLEAN, Alter(s, shape, restart)
      PROVE  \E counters : Ordering(counters, Nothing, NoBlock)
  <2> DEFINE o == Get(s)
             d == [o EXCEPT !.shape = shape, !.version = Newest.n, !.life = IF shape = o.shape THEN @ ELSE Newest.n]
             e == [o EXCEPT !.shape = shape, !.last = shape.start, !.called = FALSE, !.version = Newest.n, !.life = Newest.n]
  <2>1. shape.start \in Int
    BY ShapesAssumption
  <2>2. o \in Counter /\ o = Newest.seq[s] /\ o # Nothing
    BY <1>3, GetIsNewest DEF Alter
  <2>3. o.life \in Nat /\ o.last \in Int /\ o.called \in BOOLEAN
    BY <2>2, ShapeIs
  <2>4. Statement([t \in {s} |-> d]) \/ Statement([t \in {s} |-> e])
    BY <1>3 DEF Alter
  <2>5. e \in Counter /\ e.life = Newest.n
    BY <1>1, <2>1, <2>2 DEF Counter
  <2>6. d \in Counter /\ d.called = o.called /\ d.last = o.last /\ d.shape = shape
        /\ d.life = IF shape = o.shape THEN o.life ELSE Newest.n
    BY <1>1, <2>2, <2>3 DEF Counter
  <2> HIDE DEF d, e, o
  <2>7. d.life = Newest.n \/ Heir(d, Newest.seq[s])
    BY <2>2, <2>6 DEF Heir, Beyond
  <2>8. Rightful([t \in {s} |-> d]) /\ Rightful([t \in {s} |-> e])
    BY <2>5, <2>6, <2>7, FreshRightful, HeirRightful
  <2> QED
    BY <2>4, <2>8, StatementOrders
<1>4. ASSUME NEW s \in Names, Drop(s)
      PROVE  \E counters : Ordering(counters, Nothing, NoBlock)
  <2> DEFINE counters == [t \in {s} |-> Nothing]
  <2>1. Rightful(counters)
    BY DEF Rightful
  <2>2. Statement(counters)
    BY <1>4 DEF Drop
  <2> HIDE DEF counters
  <2> QED
    BY <2>1, <2>2, StatementOrders
<1>5. ASSUME NEW s \in Names, NEW to \in Names \ {s}, Rename(s, to)
      PROVE  \E counters : Ordering(counters, Nothing, NoBlock)
  <2> DEFINE o == Get(s)
             d == [o EXCEPT !.version = Newest.n]
             counters == [t \in {s, to} |-> IF t = s THEN Nothing ELSE d]
  <2>1. o \in Counter /\ o = Newest.seq[s] /\ o # Nothing
    BY <1>5, GetIsNewest DEF Rename
  <2>2. d \in Counter /\ d.life = o.life /\ d.called = o.called /\ d.last = o.last /\ d.shape = o.shape
    BY <1>1, <2>1 DEF Counter
  <2>3. Statement(counters)
    BY <1>5 DEF Rename
  <2> HIDE DEF d, o
  <2>4. Heir(d, Newest.seq[s])
    BY <2>1, <2>2 DEF Heir, Beyond
  <2>5. DOMAIN counters = {s, to} /\ counters[s] = Nothing /\ counters[to] = d
    OBVIOUS
  <2> HIDE DEF counters
  <2>6. Rightful(counters)
    BY <2>2, <2>4, <2>5 DEF Rightful
  <2> QED
    BY <2>3, <2>6, StatementOrders
<1> QED
  BY <1>2, <1>3, <1>4, <1>5 DEF Statements

-----------------------------------------------------------------------------
(* Lines, lives and places, over a step                                    *)

\* What an op makes of the line.
LEMMA OrderingLine ==
  ASSUME TypeOK, NEW counters, NEW of \in Calls \cup {Nothing, Unknown}, NEW answer, Ordering(counters, of, answer)
  PROVE  /\ held' \in [Names -> Counter \cup {Nothing, Unknown}]
         /\ flying' \in Seq(Write) /\ Len(flying') = Len(flying) + 1
         /\ \A j \in DOMAIN flying : j \in DOMAIN flying' /\ flying'[j] = flying[j]
         /\ DOMAIN flying' = 1 .. (Len(flying) + 1)
         /\ flying'[Len(flying) + 1].of = of /\ flying'[Len(flying) + 1].answer = answer
         /\ Newest' = flying'[Len(flying) + 1].to
         /\ \A m \in 0 .. Len(flying) : Line(m)' = Line(m)
         /\ \A m \in 0 .. Len(flying') : m \in 0 .. Len(flying) \/ (m = Len(flying) + 1 /\ Line(m)' = Newest')
         /\ Newest'.n = Newest.n + 1
         /\ \A s \in Names : Newest'.seq[s] = IF s \in DOMAIN counters THEN counters[s] ELSE Newest.seq[s]
<1>1. /\ Order(counters, of, answer) /\ answer \in Block /\ cat' = cat
      /\ DOMAIN counters \subseteq Names /\ \A s \in DOMAIN counters : counters[s] \in Counter \cup {Nothing}
  BY DEF Ordering, Rightful
<1> DEFINE last == Len(flying) + 1
<1>2. /\ held' \in [Names -> Counter \cup {Nothing, Unknown}]
      /\ flying' \in Seq(Write) /\ Len(flying') = last
      /\ \A j \in DOMAIN flying : j \in DOMAIN flying' /\ flying'[j] = flying[j]
      /\ DOMAIN flying' = 1 .. last
      /\ flying'[last].of = of /\ flying'[last].answer = answer
      /\ flying'[last].to.n = Newest.n + 1
      /\ \A s \in Names : flying'[last].to.seq[s] = IF s \in DOMAIN counters THEN counters[s] ELSE Newest.seq[s]
  BY <1>1, OrderType, ZenonT(60)
<1>3. Len(flying) \in Nat /\ DOMAIN flying = 1 .. Len(flying)
  BY NewestIs
<1>4. flying' # <<>>
  BY <1>2, <1>3, EmptySeq
<1>5. Newest' = flying'[last].to
  BY <1>2, <1>4 DEF Newest
<1>6. \A m \in 0 .. Len(flying) : Line(m)' = Line(m)
  BY <1>1, <1>2, <1>3 DEF Line
<1>7. ASSUME NEW m \in 0 .. Len(flying'), m \notin 0 .. Len(flying)
      PROVE  m = last /\ Line(m)' = Newest'
  BY <1>2, <1>3, <1>5, <1>7 DEF Line
<1> QED
  BY <1>1, <1>2, <1>5, <1>6, <1>7

\* What is at a place is a value of a life, and the place's counters are on the line.
LEMMA HasInt ==
  ASSUME TypeOK, NEW k, NEW x, NEW y, NEW l, NEW v, Has(k, x, y, l, v)
  PROVE  l \in Nat /\ v \in Int /\ From(k, x) \in 0 .. Len(flying)
<1>1. \A b \in Block : In(b, l, v) => l \in Nat /\ v \in Int
  <2> SUFFICES ASSUME NEW b \in Block, In(b, l, v)
               PROVE  l \in Nat /\ v \in Int
    OBVIOUS
  <2>1. b.life \in Nat /\ b.next \in Int /\ b.step \in Int /\ b.left \in Nat
    BY DEF Block
  <2>2. PICK j \in 0 .. (b.left - 1) : v = b.next + j * b.step
    BY DEF In
  <2>3. j * b.step \in Int
    BY <2>1, <2>2
  <2> QED
    BY <2>1, <2>2, <2>3 DEF In
<1>2. Len(flying) \in Nat /\ DOMAIN flying = 1 .. Len(flying) /\ \A j \in DOMAIN flying : flying[j].answer \in Block
  BY NewestIs DEF Write
<1>3. \A c \in Calls : call[c].answer \in Block
  BY DEF TypeOK, Call
<1>4. \A i \in Nodes, s \in Names : blocks[i][s] \in Block
  BY DEF TypeOK
<1>5. \A i \in Nodes : \A g \in DOMAIN given[i] : given[i][g].life \in Nat /\ given[i][g].value \in Int
  <2> SUFFICES ASSUME NEW i \in Nodes, NEW g \in DOMAIN given[i]
               PROVE  given[i][g].life \in Nat /\ given[i][g].value \in Int
    OBVIOUS
  <2>1. given[i] \in Seq(Given)
    BY DEF TypeOK
  <2>2. given[i][g] \in Given
    BY <2>1
  <2> QED
    BY <2>2 DEF Given
<1>6. l \in Nat /\ v \in Int
  BY <1>1, <1>2, <1>3, <1>4, <1>5 DEF Has
<1>7. From(k, x) \in 0 .. Len(flying)
  BY <1>2 DEF Has, From
<1> QED
  BY <1>6, <1>7

\* Every value that is anywhere lies behind the newest catalog's counters.
LEMMA BehindNewest ==
  ASSUME TypeOK, LineInv, PassInv, NEW k, NEW x, NEW y, NEW l, NEW v, Has(k, x, y, l, v)
  PROVE  l < Newest.n /\ Pass(Newest, l, v)
<1>1. l \in Nat /\ From(k, x) \in 0 .. Len(flying)
  BY HasInt
<1>2. Len(flying) \in From(k, x) .. Len(flying) /\ Len(flying) \in 0 .. Len(flying)
  BY <1>1, NewestIs
<1>3. l < Line(From(k, x)).n /\ Pass(Line(Len(flying)), l, v)
  BY <1>2 DEF PassInv
<1>4. Line(From(k, x)).n <= Line(Len(flying)).n
  BY <1>1, <1>2, NewestIs DEF LineInv
<1>5. Line(From(k, x)).n \in Nat /\ Line(Len(flying)).n \in Nat
  BY <1>1, <1>2, NewestIs
<1>6. Newest = Line(Len(flying))
  BY NewestIs
<1>7. l < Line(Len(flying)).n
  <2> PICK a \in Nat, b \in Nat : a = Line(From(k, x)).n /\ b = Line(Len(flying)).n
    BY <1>5
  <2> QED
    BY <1>1, <1>3, <1>4
<1>8. Pass(Newest, l, v)
  BY <1>3, <1>6
<1> QED
  BY <1>6, <1>7, <1>8

\* An op brings the values it answers with, and no others.
LEMMA OrderingHas ==
  ASSUME TypeOK, NEW counters, NEW of \in Calls \cup {Nothing, Unknown}, NEW answer, Ordering(counters, of, answer),
         NEW k, NEW x, NEW y, NEW l, NEW v, Has(k, x, y, l, v)'
  PROVE  Has(k, x, y, l, v) \/ (k = "flying" /\ x = Len(flying) + 1 /\ y = 0 /\ In(answer, l, v))
<1>0. /\ \A j \in DOMAIN flying : flying'[j] = flying[j]
      /\ DOMAIN flying' = 1 .. (Len(flying) + 1)
      /\ flying'[Len(flying) + 1].answer = answer
  BY OrderingLine, ZenonT(60)
<1>1. /\ \A j \in DOMAIN flying : flying'[j] = flying[j]
      /\ DOMAIN flying' = 1 .. (Len(flying) + 1) /\ DOMAIN flying = 1 .. Len(flying)
      /\ flying'[Len(flying) + 1].answer = answer /\ Len(flying) \in Nat
  BY <1>0, NewestIs
<1>2. given' = given /\ blocks' = blocks
  BY DEF Ordering
<1>3. ASSUME NEW c \in Calls, call'[c].step = "answered"
      PROVE  call'[c] = call[c]
  <2>1. call \in [Calls -> Call]
    BY DEF TypeOK
  <2>2. call' = call \/ (of \in Calls /\ call' = [call EXCEPT ![of].step = "ordered"])
    BY DEF Ordering
  <2>3. CASE of = c /\ call' = [call EXCEPT ![of].step = "ordered"]
    <3>1. call'[c] = [call[c] EXCEPT !.step = "ordered"]
      BY <2>1, <2>3
    <3>2. call[c] \in Call
      BY <2>1
    <3>3. [call[c] EXCEPT !.step = "ordered"].step = "ordered"
      BY <3>2 DEF Call
    <3> QED
      BY <1>3, <3>1, <3>3
  <2>4. CASE of # c /\ call' = [call EXCEPT ![of].step = "ordered"]
    BY <2>1, <2>4
  <2> QED
    BY <2>2, <2>3, <2>4
<1>4. CASE k = "given" \/ k = "block"
  BY <1>2, <1>4 DEF Has
<1>5. CASE k = "answer"
  BY <1>3, <1>5 DEF Has
<1>6. CASE k = "flying"
  BY <1>1, <1>6 DEF Has
<1> QED
  BY <1>4, <1>5, <1>6 DEF Has

\* The catalog an op makes: its counters' lives are their own, and go on from those before.
LEMMA OrderingLives ==
  ASSUME TypeOK, LineInv, NEW counters, NEW of \in Calls \cup {Nothing, Unknown}, NEW answer, Ordering(counters, of, answer)
  PROVE  /\ Lives(Newest')
         /\ \A s \in Names : Newest'.seq[s] # Nothing =>
               Newest'.seq[s].life = Newest.n \/ \E r \in Names : Heir(Newest'.seq[s], Newest.seq[r])
<1>1. /\ Newest'.n = Newest.n + 1 /\ Newest.n \in Nat
      /\ \A s \in Names : Newest'.seq[s] = IF s \in DOMAIN counters THEN counters[s] ELSE Newest.seq[s]
  BY OrderingLine, NewestType
<1>2. Lives(Newest)
  BY NewestIs DEF LineInv
<1>3. /\ DOMAIN counters \subseteq Names
      /\ \A s \in DOMAIN counters : counters[s] \in Counter \cup {Nothing}
      /\ \A s, t \in DOMAIN counters : counters[s] # Nothing /\ counters[t] # Nothing => s = t
      /\ \A s \in DOMAIN counters : counters[s] # Nothing =>
            counters[s].life = Newest.n \/ \E r \in DOMAIN counters : Heir(counters[s], Newest.seq[r])
  BY DEF Ordering, Rightful
<1>4. \A s \in Names : Newest.seq[s] # Nothing => Newest.seq[s].life \in Nat /\ Heir(Newest.seq[s], Newest.seq[s])
  BY NewestType, ShapeIs DEF Catalog, Heir
<1>5. ASSUME NEW s \in Names, Newest'.seq[s] # Nothing
      PROVE  Newest'.seq[s].life = Newest.n \/ \E r \in Names : Heir(Newest'.seq[s], Newest.seq[r])
  BY <1>1, <1>3, <1>4, <1>5
<1>6. ASSUME NEW s \in Names, Newest'.seq[s] # Nothing
      PROVE  Newest'.seq[s].life < Newest'.n
  BY <1>1, <1>2, <1>4, <1>5, <1>6 DEF Lives, Heir
<1>7. ASSUME NEW s \in DOMAIN counters, NEW t \in Names, t \notin DOMAIN counters,
             counters[s] # Nothing, Newest.seq[t] # Nothing
      PROVE  counters[s].life # Newest.seq[t].life
  BY <1>1, <1>2, <1>3, <1>4, <1>7 DEF Lives, Heir
<1>8. ASSUME NEW s \in Names, NEW t \in Names, Newest'.seq[s] # Nothing, Newest'.seq[t] # Nothing,
             Newest'.seq[t].life = Newest'.seq[s].life
      PROVE  s = t
  <2>1. CASE s \in DOMAIN counters /\ t \in DOMAIN counters
    BY <1>1, <1>3, <1>8, <2>1
  <2>2. CASE s \in DOMAIN counters /\ t \notin DOMAIN counters
    BY <1>1, <1>7, <1>8, <2>2
  <2>3. CASE s \notin DOMAIN counters /\ t \in DOMAIN counters
    BY <1>1, <1>7, <1>8, <2>3
  <2>4. CASE s \notin DOMAIN counters /\ t \notin DOMAIN counters
    BY <1>1, <1>2, <1>8, <2>4 DEF Lives
  <2> QED
    BY <2>1, <2>2, <2>3, <2>4
<1> QED
  BY <1>5, <1>6, <1>8 DEF Lives

\* Whatever lay behind the newest counters lies behind those of the op.
LEMMA OrderingPass ==
  ASSUME TypeOK, LineInv, NEW counters, NEW of \in Calls \cup {Nothing, Unknown}, NEW answer, Ordering(counters, of, answer),
         NEW l \in Nat, NEW v \in Int, l < Newest.n, Pass(Newest, l, v)
  PROVE  Pass(Newest', l, v)
<1> SUFFICES ASSUME NEW s \in Names, Newest'.seq[s] # Nothing, Newest'.seq[s].life = l
             PROVE  Beyond(Newest'.seq[s], v)
  BY DEF Pass
<1>1. Newest.n \in Nat
  BY NewestType
<1>2. PICK r \in Names : Heir(Newest'.seq[s], Newest.seq[r])
  BY <1>1, OrderingLives
<1> QED
  BY <1>2 DEF Heir, Pass

\* What an op takes lies behind its counter, and nothing else is of it.
LEMMA OrderingTakes ==
  ASSUME TypeOK, LineInv, PassInv, NEW counters, NEW of \in Calls \cup {Nothing, Unknown}, NEW answer,
         Ordering(counters, of, answer), NEW l, NEW v, In(answer, l, v)
  PROVE  /\ l < Newest'.n /\ Pass(Newest', l, v)
         /\ \A k, x, y : ~Has(k, x, y, l, v)
<1>1. PICK s \in DOMAIN counters :
        /\ counters[s] # Nothing /\ counters[s].life = l /\ Beyond(counters[s], v)
        /\ \/ l = Newest.n
           \/ Newest.seq[s] # Nothing /\ Newest.seq[s].life = l /\ ~Beyond(Newest.seq[s], v)
  BY DEF Ordering, Backed
<1>2. s \in Names /\ Newest'.seq[s] = counters[s]
  BY OrderingLine DEF Ordering, Rightful
<1>3. Lives(Newest')
  BY OrderingLives
<1>4. l < Newest'.n /\ Pass(Newest', l, v)
  BY <1>1, <1>2, <1>3 DEF Lives, Pass
<1>5. ASSUME NEW k, NEW x, NEW y, Has(k, x, y, l, v)
      PROVE  FALSE
  <2>1. l < Newest.n /\ Pass(Newest, l, v) /\ l \in Nat /\ Newest.n \in Nat
    BY <1>5, BehindNewest, HasInt, NewestType
  <2> QED
    BY <1>1, <1>2, <2>1 DEF Pass
<1> QED
  BY <1>4, <1>5

\* Where values are, and the counters behind them.
PlacesInv == LineInv /\ HeldInv /\ StepInv /\ PassInv /\ ApartInv

\* An op's values are nowhere else, and its counter is past them.
LEMMA OrderingPlaces ==
  ASSUME TypeOK, PlacesInv, NEW counters, NEW of \in Calls \cup {Nothing, Unknown}, NEW answer, Ordering(counters, of, answer)
  PROVE  PlacesInv'
<1> USE DEF PlacesInv
<1>0. PICK last \in Nat : last = Len(flying) + 1
  BY NewestIs
<1>1. /\ held' \in [Names -> Counter \cup {Nothing, Unknown}]
      /\ Len(flying') = last
      /\ \A j \in DOMAIN flying : flying'[j] = flying[j]
      /\ DOMAIN flying' = 1 .. last
      /\ flying'[last].answer = answer
      /\ \A m \in 0 .. Len(flying) : Line(m)' = Line(m)
      /\ \A m \in 0 .. Len(flying') : m \in 0 .. Len(flying) \/ (m = last /\ Line(m)' = Newest')
      /\ Newest'.n = Newest.n + 1
      /\ \A s \in Names : Newest'.seq[s] = IF s \in DOMAIN counters THEN counters[s] ELSE Newest.seq[s]
  BY <1>0, OrderingLine, ZenonT(60)
<1>2. /\ Len(flying) \in Nat /\ DOMAIN flying = 1 .. Len(flying) /\ Newest = Line(Len(flying)) /\ Newest.n \in Nat
      /\ \A m \in 0 .. Len(flying) : Line(m).n \in Nat
  BY NewestIs, NewestType
<1>3. LineInv'
  <2>1. ASSUME NEW m \in 0 .. Len(flying')
        PROVE  Lives(Line(m)')
    BY <1>1, <1>2, <2>1, OrderingLives DEF LineInv
  <2>2. ASSUME NEW m \in 0 .. Len(flying'), NEW o \in 0 .. Len(flying'), m <= o
        PROVE  Line(m)'.n <= Line(o)'.n
    <3>1. CASE m \in 0 .. Len(flying) /\ o \in 0 .. Len(flying)
      BY <1>1, <2>2, <3>1 DEF LineInv
    <3>2. CASE m \in 0 .. Len(flying) /\ o = last /\ Line(o)' = Newest'
      <4>1. Line(m).n <= Newest.n
        BY <1>2, <3>2 DEF LineInv
      <4> QED
        BY <1>1, <1>2, <3>2, <4>1
    <3>3. CASE m = last /\ o = last
      BY <1>0, <1>1, <1>2, <3>3
    <3> QED
      BY <1>0, <1>1, <1>2, <2>2, <3>1, <3>2, <3>3
  <2> QED
    BY <2>1, <2>2 DEF LineInv, Lives
<1>4. HeldInv'
  <2> SUFFICES ASSUME NEW s \in Names
               PROVE  IF held'[s] = Unknown THEN \A m \in 0 .. Len(flying') : Line(m)'.seq[s] = cat'.seq[s]
                                            ELSE held'[s] = Newest'.seq[s]
    BY DEF HeldInv
  <2>1. held' = [t \in Names |-> IF t \in DOMAIN counters THEN counters[t] ELSE held[t]] /\ cat' = cat
    BY DEF Ordering, Order
  <2>2. CASE s \in DOMAIN counters
    <3>1. counters[s] \in Counter \cup {Nothing}
      BY <2>2 DEF Ordering, Rightful
    <3>2. counters[s] # Unknown
      BY <3>1, CounterAssumption, NothingAssumption
    <3> QED
      BY <1>1, <2>1, <2>2, <3>2
  <2>3. CASE s \notin DOMAIN counters /\ held[s] # Unknown
    BY <1>1, <2>1, <2>3 DEF HeldInv
  <2>4. CASE s \notin DOMAIN counters /\ held[s] = Unknown
    <3>1. \A m \in 0 .. Len(flying) : Line(m).seq[s] = cat.seq[s]
      BY <2>4 DEF HeldInv
    <3>2. Newest.seq[s] = cat.seq[s]
      BY <1>2, <3>1
    <3> QED
      BY <1>1, <2>1, <2>4, <3>1, <3>2
  <2> QED
    BY <2>2, <2>3, <2>4
<1>5. StepInv'
  <2>1. /\ blocks' = blocks /\ Steps(answer) /\ call \in [Calls -> Call]
        /\ call' = call \/ (of \in Calls /\ call' = [call EXCEPT ![of].step = "ordered"])
    BY DEF Ordering, TypeOK
  <2>2. ASSUME NEW c \in Calls
        PROVE  call'[c].answer = call[c].answer
    <3>1. call[c] \in Call
      BY <2>1
    <3>2. [call[c] EXCEPT !.step = "ordered"].answer = call[c].answer
      BY <3>1 DEF Call
    <3>3. call'[c] = call[c] \/ call'[c] = [call[c] EXCEPT !.step = "ordered"]
      BY <2>1
    <3> QED
      BY <3>2, <3>3
  <2>3. ASSUME NEW j \in DOMAIN flying'
        PROVE  Steps(flying'[j].answer)
    BY <1>0, <1>1, <1>2, <2>1 DEF StepInv
  <2> QED
    BY <2>1, <2>2, <2>3 DEF StepInv
<1>6. PassInv'
  <2> SUFFICES ASSUME NEW k, NEW x, NEW y, NEW l, NEW v, Has(k, x, y, l, v)'
               PROVE  /\ l < Line(From(k, x))'.n
                      /\ \A m \in From(k, x) .. Len(flying') : Pass(Line(m)', l, v)
    BY DEF PassInv, From, Pass
  <2>1. CASE Has(k, x, y, l, v)
    <3>1. From(k, x) \in 0 .. Len(flying) /\ l \in Nat /\ v \in Int
      BY <2>1, HasInt
    <3>2. l < Newest.n /\ Pass(Newest, l, v)
      BY <2>1, BehindNewest
    <3>3. Pass(Newest', l, v)
      BY <3>1, <3>2, OrderingPass
    <3>4. l < Line(From(k, x)).n /\ \A m \in From(k, x) .. Len(flying) : Pass(Line(m), l, v)
      BY <2>1 DEF PassInv
    <3>5. ASSUME NEW m \in From(k, x) .. Len(flying')
          PROVE  Pass(Line(m)', l, v)
      <4>1. m \in 0 .. Len(flying')
        BY <1>0, <1>1, <1>2, <3>1
      <4>2. CASE m \in 0 .. Len(flying)
        BY <1>1, <1>2, <3>1, <3>4, <4>2
      <4>3. CASE m = last /\ Line(m)' = Newest'
        BY <3>3, <4>3
      <4> QED
        BY <1>0, <1>1, <4>1, <4>2, <4>3
    <3> QED
      BY <1>1, <3>1, <3>4, <3>5
  <2>2. CASE k = "flying" /\ x = last /\ y = 0 /\ In(answer, l, v)
    <3>1. l < Newest'.n /\ Pass(Newest', l, v)
      BY <2>2, OrderingTakes
    <3>2. From(k, x) = last
      BY <2>2 DEF From
    <3>3. last \in 0 .. Len(flying') /\ last \notin 0 .. Len(flying)
      BY <1>0, <1>1, <1>2
    <3>4. Line(last)' = Newest'
      BY <1>1, <3>3
    <3>5. \A m \in last .. Len(flying') : m = last
      BY <1>0, <1>1, <1>2
    <3> QED
      BY <3>1, <3>2, <3>4, <3>5
  <2> QED
    BY <1>0, <2>1, <2>2, OrderingHas
<1>7. ApartInv'
  <2> SUFFICES ASSUME NEW k, NEW x, NEW y, NEW k2, NEW x2, NEW y2, NEW l, NEW v,
                      Has(k, x, y, l, v)', Has(k2, x2, y2, l, v)'
               PROVE  k = k2 /\ x = x2 /\ y = y2
    BY DEF ApartInv
  <2>1. Has(k, x, y, l, v) \/ (k = "flying" /\ x = last /\ y = 0 /\ In(answer, l, v))
    BY <1>0, OrderingHas
  <2>2. Has(k2, x2, y2, l, v) \/ (k2 = "flying" /\ x2 = last /\ y2 = 0 /\ In(answer, l, v))
    BY <1>0, OrderingHas
  <2>3. In(answer, l, v) => ~Has(k, x, y, l, v) /\ ~Has(k2, x2, y2, l, v)
    BY OrderingTakes
  <2> QED
    BY <2>1, <2>2, <2>3 DEF ApartInv
<1> QED
  BY <1>3, <1>4, <1>5, <1>6, <1>7

-----------------------------------------------------------------------------
(* Types, over a step                                                      *)

\* The types, after an op ...
LEMMA OrderingType ==
  ASSUME TypeOK, NEW counters, NEW of \in Calls \cup {Nothing, Unknown}, NEW answer, Ordering(counters, of, answer)
  PROVE  TypeOK'
<1>1. held' \in [Names -> Counter \cup {Nothing, Unknown}] /\ flying' \in Seq(Write)
  BY OrderingLine
<1>2. call' \in [Calls -> Call]
  <2>1. call \in [Calls -> Call]
    BY DEF TypeOK
  <2>2. CASE of \in Calls /\ call' = [call EXCEPT ![of].step = "ordered"]
    <3>1. [call[of] EXCEPT !.step = "ordered"] \in Call
      BY <2>1, <2>2 DEF Call
    <3> QED
      BY <2>1, <2>2, <3>1
  <2> QED
    BY <2>1, <2>2 DEF Ordering
<1> QED
  BY <1>1, <1>2 DEF Ordering, TypeOK

\* A sequence whose members each become one of the kind.
LEMMA LeftByType ==
  ASSUME TypeOK, NEW calls, LeftBy(calls)
  PROVE  /\ flying' \in Seq(Write) /\ Len(flying') = Len(flying) /\ DOMAIN flying' = DOMAIN flying
         /\ \A j \in DOMAIN flying : /\ flying'[j].to = flying[j].to /\ flying'[j].answer = flying[j].answer
                                   /\ flying'[j].of = IF flying[j].of \in calls THEN Unknown ELSE flying[j].of
<1>1. Len(flying) \in Nat /\ DOMAIN flying = 1 .. Len(flying) /\ \A j \in DOMAIN flying : flying[j] \in Write
  BY NewestIs
<1>2. flying' = [j \in 1 .. Len(flying) |-> IF flying[j].of \in calls THEN [flying[j] EXCEPT !.of = Unknown] ELSE flying[j]]
  BY DEF LeftBy
<1>3. \A w \in Write : LET u == [w EXCEPT !.of = Unknown] IN u \in Write /\ u.to = w.to /\ u.answer = w.answer /\ u.of = Unknown
  BY DEF Write
<1>4. \A j \in 1 .. Len(flying) : flying'[j] \in Write
  BY <1>1, <1>2, <1>3
<1>5. flying' \in Seq(Write) /\ Len(flying') = Len(flying) /\ DOMAIN flying' = 1 .. Len(flying)
  BY <1>1, <1>2, <1>4
<1>6. ASSUME NEW j \in DOMAIN flying
      PROVE  /\ flying'[j].to = flying[j].to /\ flying'[j].answer = flying[j].answer
             /\ flying'[j].of = IF flying[j].of \in calls THEN Unknown ELSE flying[j].of
  BY <1>1, <1>2, <1>3
<1> QED
  BY <1>1, <1>5, <1>6

\* A write that is durable is the first.
LEMMA DurableLine ==
  ASSUME TypeOK, Durable
  PROVE  /\ Len(flying) >= 1 /\ flying' \in Seq(Write) /\ Len(flying') = Len(flying) - 1
         /\ DOMAIN flying' = 1 .. (Len(flying) - 1) /\ 1 \in DOMAIN flying
         /\ \A j \in DOMAIN flying' : j + 1 \in DOMAIN flying /\ flying'[j] = flying[j + 1]
         /\ cat' = flying[1].to /\ Head(flying) = flying[1]
<1>1. flying \in Seq(Write) /\ flying # <<>> /\ Len(flying) \in Nat /\ DOMAIN flying = 1 .. Len(flying)
  BY NewestIs DEF TypeOK, Durable
<1>2. Len(flying) # 0
  BY <1>1, EmptySeq
<1>3. /\ Tail(flying) \in Seq(Write) /\ Len(Tail(flying)) = Len(flying) - 1 /\ Head(flying) = flying[1]
      /\ \A j \in 1 .. Len(Tail(flying)) : Tail(flying)[j] = flying[j + 1]
  BY <1>1, HeadTailProperties
<1>4. flying' = Tail(flying) /\ cat' = Head(flying).to
  BY DEF Durable
<1>5. DOMAIN flying' = 1 .. (Len(flying) - 1)
  BY <1>3, <1>4, LenProperties
<1> QED
  BY <1>1, <1>2, <1>3, <1>4, <1>5

\* ... after a commit that is durable ...
LEMMA DurableType ==
  ASSUME TypeOK, Durable
  PROVE  TypeOK'
<1> DEFINE c == Head(flying).of
           a == Head(flying).answer
<1>1. flying' \in Seq(Write) /\ Head(flying) \in Write /\ cat' \in Catalog
  BY DurableLine, NewestIs DEF Write
<1>2. call' \in [Calls -> Call]
  <2>1. call \in [Calls -> Call] /\ a \in Block
    BY <1>1 DEF TypeOK, Write
  <2>2. call' = IF c \in Calls /\ call[c].step = "ordered"
                THEN [call EXCEPT ![c].step = "answered", ![c].answer = a] ELSE call
    BY DEF Durable
  <2> HIDE DEF c, a
  <2>3. CASE c \in Calls /\ call' = [call EXCEPT ![c].step = "answered", ![c].answer = a]
    <3>1. [call[c] EXCEPT !.step = "answered", !.answer = a] \in Call
      BY <2>1, <2>3, ZenonT(60) DEF Call
    <3>2. call' = [call EXCEPT ![c] = [call[c] EXCEPT !.step = "answered", !.answer = a]]
      BY <2>1, <2>3
    <3> QED
      BY <2>1, <2>3, <3>1, <3>2
  <2> QED
    BY <2>1, <2>2, <2>3
<1> QED
  BY <1>1, <1>2 DEF Durable, TypeOK

\* ... after a takeover, which commits a catalog of the line ...
LEMMA TakeOverType ==
  ASSUME TypeOK, NEW k \in 0 .. Len(flying), TakeOver(k)
  PROVE  TypeOK' /\ cat' = Line(k) /\ flying' = <<>>
<1>1. cat' = Line(k) /\ Line(k) \in Catalog
  BY NewestIs DEF TakeOver, Line
<1>2. takeovers' \in 0 .. MaxTakeovers
  <2>1. MaxTakeovers \in Nat /\ takeovers \in 0 .. MaxTakeovers
    BY BoundsAssumption DEF TypeOK
  <2> QED
    BY <2>1 DEF TakeOver
<1>3. flying' \in Seq(Write) /\ flying' = <<>>
  BY DEF TakeOver
<1> QED
  BY <1>1, <1>2, <1>3 DEF TakeOver, TypeOK

\* A call's record, and what it is after each of a node's steps.
LEMMA CallIs ==
  ASSUME TypeOK, NEW c \in Calls
  PROVE  /\ call[c] \in Call /\ nodeOf[c] \in Nodes /\ call[c].name \in Names /\ call[c].answer \in Block
         /\ call[c].want \in 0 .. Most /\ call[c].after \in Nat /\ blocks[nodeOf[c]][call[c].name] \in Block
         /\ blocks[nodeOf[c]] \in [Names -> Block] /\ told[nodeOf[c]] \in [Names -> Nat]
BY DEF TypeOK, Call

\* ... as a node sees the catalog ...
LEMMA SeeType ==
  ASSUME TypeOK, NEW i \in Nodes, See(i)
  PROVE  TypeOK'
<1>1. cat.seq \in [Names -> Counter \cup {Nothing}]
  BY DEF TypeOK, Catalog
<1> QED
  BY <1>1 DEF TypeOK, See

\* ... and after each step of a call.
LEMMA StartNextType ==
  ASSUME TypeOK, NEW c \in Calls, NEW s \in Names, NEW want \in 1 .. Most, StartNext(c, s, want)
  PROVE  TypeOK'
<1> DEFINE n == [NoCall EXCEPT !.step = "found", !.name = s, !.want = want,
                               !.version = seen[nodeOf[c]][s].version, !.after = told[nodeOf[c]][s]]
<1>1. seen[nodeOf[c]][s].version \in Nat /\ told[nodeOf[c]][s] \in Nat
  <2>1. nodeOf[c] \in Nodes /\ seen[nodeOf[c]][s] \in Counter \cup {Nothing} /\ told[nodeOf[c]][s] \in Nat
    BY CallIs DEF TypeOK
  <2>2. seen[nodeOf[c]][s] # Nothing
    BY DEF StartNext
  <2> QED
    BY <2>1, <2>2, ShapeIs
<1>2. n \in Call
  <2>1. want \in 0 .. Most
    BY BoundsAssumption
  <2> QED
    BY <1>1, <2>1, NoCallType DEF Call
<1>3. call' = [call EXCEPT ![c] = n]
  BY DEF StartNext
<1> HIDE DEF n
<1> QED
  BY <1>2, <1>3 DEF StartNext, TypeOK

\* `setval` begins.
LEMMA StartSetType ==
  ASSUME TypeOK, NEW c \in Calls, NEW s \in Names, NEW to \in Settings, StartSet(c, s, to)
  PROVE  TypeOK'
<1> DEFINE n == [NoCall EXCEPT !.step = "asked", !.set = TRUE, !.name = s, !.value = to.value, !.called = to.called]
<1>1. to.value \in Int /\ to.called \in BOOLEAN
  BY BoundsAssumption
<1>2. n \in Call
  BY <1>1, NoCallType DEF Call
<1>3. call' = [call EXCEPT ![c] = n]
  BY DEF StartSet
<1> HIDE DEF n
<1> QED
  BY <1>2, <1>3 DEF StartSet, TypeOK

\* A call locks its node's blocks.
LEMMA LockType ==
  ASSUME TypeOK, NEW c \in Calls, Lock(c)
  PROVE  TypeOK'
<1>1. [call[c] EXCEPT !.step = "locked"] \in Call
  BY CallIs DEF Call
<1>2. blocks' \in [Nodes -> [Names -> Block]]
  BY CallIs, NoCallType DEF Lock, WithoutBlock, TypeOK
<1> QED
  BY <1>1, <1>2 DEF Lock, TypeOK

\* It asks for a block.
LEMMA AskType ==
  ASSUME TypeOK, NEW c \in Calls, NEW size \in Sizes, Ask(c, size)
  PROVE  TypeOK' /\ call'[c].value >= 1
<1> DEFINE value == IF size < call[c].want THEN call[c].want ELSE size
           n == [call[c] EXCEPT !.step = "asked", !.value = value]
<1>1. value \in Int /\ value >= 1
  BY CallIs, BoundsAssumption
<1> HIDE DEF value
<1>2. n \in Call /\ n.value = value
  BY <1>1, CallIs DEF Call
<1>3. call' = [call EXCEPT ![c] = n]
  <2>1. call' = [call EXCEPT ![c].step = "asked", ![c].value = value]
    BY DEF Ask, value
  <2>2. call \in [Calls -> Call]
    BY DEF TypeOK
  <2> QED
    BY <2>1, <2>2
<1> HIDE DEF n
<1> QED
  BY <1>1, <1>2, <1>3, ZenonT(60) DEF Ask, TypeOK

\* It has one.
LEMMA HearBlockType ==
  ASSUME TypeOK, NEW c \in Calls, HearBlock(c)
  PROVE  TypeOK'
<1>1. [call[c] EXCEPT !.step = "locked"] \in Call
  BY CallIs DEF Call
<1>2. blocks' \in [Nodes -> [Names -> Block]]
  BY CallIs DEF HearBlock, TypeOK
<1> QED
  BY <1>1, <1>2 DEF HearBlock, TypeOK

\* `setval` returns.
LEMMA FinishSetType ==
  ASSUME TypeOK, NEW c \in Calls, FinishSet(c)
  PROVE  TypeOK'
<1>1. call[c].answer.version \in Nat
  BY CallIs DEF Block
<1>2. blocks' \in [Nodes -> [Names -> Block]]
  BY CallIs, NoCallType DEF FinishSet, WithoutBlock, TypeOK
<1>3. told' \in [Nodes -> [Names -> Nat]]
  BY <1>1, CallIs DEF FinishSet, TypeOK
<1>4. call' \in [Calls -> Call]
  BY NoCallType DEF FinishSet, TypeOK
<1> QED
  BY <1>2, <1>3, <1>4 DEF FinishSet, TypeOK

\* A call fails.
LEMMA FailType ==
  ASSUME TypeOK, NEW c \in Calls, Fail(c)
  PROVE  TypeOK'
<1>1. flying' \in Seq(Write)
  BY LeftByType DEF Fail
<1>2. call' \in [Calls -> Call] /\ lock' \in [Nodes -> Calls \cup {Nothing}]
  BY NoCallType DEF Fail, TypeOK
<1> QED
  BY <1>1, <1>2 DEF Fail, TypeOK

\* A node restarts.
LEMMA RestartType ==
  ASSUME TypeOK, NEW i \in Nodes, Restart(i)
  PROVE  TypeOK'
<1>1. flying' \in Seq(Write)
  BY LeftByType DEF Restart
<1>2. call' \in [Calls -> Call] /\ lock' \in [Nodes -> Calls \cup {Nothing}] /\ blocks' \in [Nodes -> [Names -> Block]]
  BY NoCallType DEF Restart, TypeOK
<1> QED
  BY <1>1, <1>2 DEF Restart, TypeOK

\* What a call takes of its node's block: k values, as they are handed out, and the block after them.
Handed(c, k, j) ==
    LET b == Blocks(c) IN
    [name |-> call[c].name, value |-> b.next + (j - 1) * b.step, step |-> b.step, life |-> b.life,
     version |-> b.version, after |-> call[c].after]

Left(c, k) == [Blocks(c) EXCEPT !.left = @ - k, !.next = @ + k * Blocks(c).step]

\* What a call hands out: the first k values of its block, which keeps the others.
LEMMA GiveIs ==
  ASSUME TypeOK, NEW c \in Calls, Give(c)
  PROVE  /\ TypeOK'
         /\ \E k \in Nat :
             /\ k <= Blocks(c).left /\ (k = call[c].want \/ k < call[c].want)
             /\ \A i \in Nodes : i # nodeOf[c] => given'[i] = given[i]
             /\ DOMAIN given'[nodeOf[c]] = 1 .. (Len(given[nodeOf[c]]) + k)
             /\ \A g \in DOMAIN given[nodeOf[c]] : given'[nodeOf[c]][g] = given[nodeOf[c]][g]
             /\ \A j \in 1 .. k : given'[nodeOf[c]][Len(given[nodeOf[c]]) + j] = Handed(c, k, j)
             /\ \A n \in Nodes, t \in Names :
                   blocks'[n][t] = IF n = nodeOf[c] /\ t = call[c].name THEN Left(c, k) ELSE blocks[n][t]
             /\ \/ call' = [call EXCEPT ![c] = NoCall] /\ lock' = [lock EXCEPT ![nodeOf[c]] = Nothing]
                \/ call' = [call EXCEPT ![c].want = @ - k] /\ lock' = lock
<1> DEFINE i == nodeOf[c]
           s == call[c].name
           b == Blocks(c)
           k == Share(call[c].want, b.left)
           old == given[i]
           more == [j \in 1 .. k |-> [name |-> s, value |-> b.next + (j - 1) * b.step, step |-> b.step, life |-> b.life,
                                     version |-> b.version, after |-> call[c].after]]
           rest == [b EXCEPT !.left = @ - k, !.next = @ + k * b.step]
<1>1. /\ i \in Nodes /\ s \in Names /\ b \in Block /\ call[c] \in Call /\ call[c].want \in 0 .. Most
      /\ call[c].after \in Nat /\ blocks[i] \in [Names -> Block]
  BY CallIs DEF Blocks
<1>2. b.left \in Nat /\ b.next \in Int /\ b.step \in Int /\ b.life \in Nat /\ b.version \in Nat
  BY <1>1 DEF Block
<1>3. k \in Nat /\ k <= b.left /\ k <= call[c].want /\ call[c].want \in Nat
  BY <1>1, <1>2, BoundsAssumption DEF Share, Least
<1>4. /\ call[c].step = "locked" /\ b.left > 0
      /\ given' = [given EXCEPT ![i] = old \o more]
      /\ blocks' = [blocks EXCEPT ![i][s] = rest]
      /\ IF k = call[c].want
         THEN call' = [call EXCEPT ![c] = NoCall] /\ lock' = [lock EXCEPT ![i] = Nothing]
         ELSE call' = [call EXCEPT ![c].want = @ - k] /\ UNCHANGED lock
      /\ UNCHANGED <<nodeOf, cat, flying, held, seen, told, takeovers>>
  BY DEF Give
<1>5. \A j \in 1 .. k : /\ more[j] = Handed(c, k, j)
                        /\ Handed(c, k, j) \in Given
  <2> SUFFICES ASSUME NEW j \in 1 .. k
               PROVE  more[j] = Handed(c, k, j) /\ Handed(c, k, j) \in Given
    OBVIOUS
  <2>1. (j - 1) * b.step \in Int /\ b.next + (j - 1) * b.step \in Int
    BY <1>2, <1>3
  <2>2. more[j] = Handed(c, k, j)
    BY DEF Handed
  <2>3. PICK value \in Int : value = b.next + (j - 1) * b.step
    BY <2>1
  <2>4. Handed(c, k, j) = [name |-> s, value |-> value, step |-> b.step, life |-> b.life,
                           version |-> b.version, after |-> call[c].after]
    BY <2>3 DEF Handed
  <2> HIDE DEF b, s
  <2>5. Handed(c, k, j) \in Given
    BY <1>1, <1>2, <2>4 DEF Given
  <2> QED
    BY <2>2, <2>5
<1>6. more \in Seq(Given) /\ Len(more) = k /\ old \in Seq(Given) /\ Len(old) \in Nat /\ DOMAIN old = 1 .. Len(old)
  <2>1. old \in Seq(Given)
    BY <1>1 DEF TypeOK
  <2>2. DOMAIN more = 1 .. k /\ \A j \in 1 .. k : more[j] \in Given
    BY <1>5
  <2>3. more = [j \in 1 .. k |-> more[j]]
    OBVIOUS
  <2> HIDE DEF more, old, k
  <2>4. more \in Seq(Given) /\ Len(more) = k
    BY <1>3, <2>2, <2>3
  <2> QED
    BY <2>1, <2>4, LenProperties
<1> HIDE DEF k, more, old
<1>7. /\ old \o more \in Seq(Given) /\ Len(old \o more) = Len(old) + k
      /\ \A g \in 1 .. Len(old) : (old \o more)[g] = old[g]
      /\ \A j \in 1 .. k : (old \o more)[Len(old) + j] = more[j]
  BY <1>3, <1>6
<1>8. /\ DOMAIN (old \o more) = 1 .. (Len(old) + k)
      /\ given'[i] = old \o more /\ \A n \in Nodes : n # i => given'[n] = given[n]
      /\ given' \in [Nodes -> Seq(Given)]
  BY <1>1, <1>4, <1>6, <1>7, LenProperties DEF TypeOK
<1>9. rest \in Block
  <2>1. k * b.step \in Int /\ b.next + k * b.step \in Int /\ b.left - k \in Nat
    BY <1>2, <1>3
  <2> QED
    BY <1>1, <2>1 DEF Block
<1> HIDE DEF rest
<1>10. /\ blocks' \in [Nodes -> [Names -> Block]]
       /\ \A n \in Nodes, t \in Names : blocks'[n][t] = IF n = i /\ t = s THEN rest ELSE blocks[n][t]
  BY <1>1, <1>4, <1>9 DEF TypeOK
<1>11. k # call[c].want => [call[c] EXCEPT !.want = call[c].want - k] \in Call
  BY <1>1, <1>3, BoundsAssumption DEF Call
<1>12. call' \in [Calls -> Call] /\ lock' \in [Nodes -> Calls \cup {Nothing}]
  <2>1. call \in [Calls -> Call] /\ lock \in [Nodes -> Calls \cup {Nothing}]
    BY DEF TypeOK
  <2>2. CASE k = call[c].want
    BY <1>4, <2>1, <2>2, NoCallType
  <2>3. CASE k # call[c].want
    <3> DEFINE n == [call[c] EXCEPT !.want = call[c].want - k]
    <3>1. n \in Call
      BY <1>11, <2>3
    <3>2. call' = [call EXCEPT ![c] = n]
      BY <1>4, <2>1, <2>3
    <3> HIDE DEF n
    <3> QED
      BY <1>4, <2>1, <2>3, <3>1, <3>2
  <2> QED
    BY <2>2, <2>3
<1>13. TypeOK'
  BY <1>4, <1>8, <1>10, <1>12 DEF TypeOK
<1>14. /\ k \in Nat /\ k <= Blocks(c).left /\ (k = call[c].want \/ k < call[c].want)
       /\ \A n \in Nodes : n # nodeOf[c] => given'[n] = given[n]
       /\ DOMAIN given'[nodeOf[c]] = 1 .. (Len(given[nodeOf[c]]) + k)
  BY <1>1, <1>3, <1>8 DEF old
<1>15. /\ \A g \in DOMAIN given[nodeOf[c]] : given'[nodeOf[c]][g] = given[nodeOf[c]][g]
       /\ \A j \in 1 .. k : given'[nodeOf[c]][Len(given[nodeOf[c]]) + j] = Handed(c, k, j)
  BY <1>5, <1>6, <1>7, <1>8 DEF old
<1>16. \A n \in Nodes, t \in Names :
         blocks'[n][t] = IF n = nodeOf[c] /\ t = call[c].name THEN Left(c, k) ELSE blocks[n][t]
  BY <1>10 DEF rest, Left
<1> QED
  BY <1>4, <1>13, <1>14, <1>15, <1>16

-----------------------------------------------------------------------------
(* Calls and their locks, over a step                                      *)

\* A step of one call.
LEMMA OneCall ==
  ASSUME TypeOK, CallInv, NEW c \in Calls, nodeOf' = nodeOf,
         \A d \in Calls : d # c => call'[d] = call[d],
         call'[c].step = "asked" /\ ~call'[c].set => call'[c].value >= 1,
         Holding(c)' => lock'[nodeOf[c]] = c,
         \A d \in Calls : d # c /\ Holding(d) => lock'[nodeOf[d]] = lock[nodeOf[d]],
         \A j \in DOMAIN flying' :
            /\ j \in DOMAIN flying
            /\ (flying'[j].of = flying[j].of) \/ (flying'[j].of = Unknown)
            /\ flying'[j].of = c => call'[c].step = "ordered"
  PROVE  CallInv'
<1>1. /\ \A d \in Calls : call[d].step = "asked" /\ ~call[d].set => call[d].value >= 1
      /\ \A j \in DOMAIN flying : flying[j].of \in Calls => call[flying[j].of].step = "ordered"
      /\ \A i, j \in DOMAIN flying : flying[i].of \in Calls /\ flying[i].of = flying[j].of => i = j
      /\ \A d \in Calls : Holding(d) => lock[nodeOf[d]] = d
  BY DEF CallInv
<1>2. Unknown \notin Calls
  BY NothingAssumption
<1>3. \A d \in Calls : call'[d].step = "asked" /\ ~call'[d].set => call'[d].value >= 1
  BY <1>1
<1>4. ASSUME NEW j \in DOMAIN flying', flying'[j].of \in Calls
      PROVE  call'[flying'[j].of].step = "ordered"
  BY <1>1, <1>2, <1>4
<1>5. ASSUME NEW i \in DOMAIN flying', NEW j \in DOMAIN flying', flying'[i].of \in Calls, flying'[i].of = flying'[j].of
      PROVE  i = j
  BY <1>1, <1>2, <1>5
<1>6. ASSUME NEW d \in Calls, Holding(d)'
      PROVE  lock'[nodeOf[d]] = d
  <2>1. CASE d = c
    BY <1>6, <2>1
  <2>2. CASE d # c
    <3>1. Holding(d)
      BY <1>6, <2>2 DEF Holding
    <3> QED
      BY <1>1, <2>2, <3>1
  <2> QED
    BY <2>1, <2>2
<1> QED
  BY <1>3, <1>4, <1>5, <1>6 DEF CallInv

\* What a call's record is after its step.
LEMMA Becomes ==
  ASSUME TypeOK, NEW c \in Calls, NEW r, call' = [call EXCEPT ![c] = r]
  PROVE  call'[c] = r /\ \A d \in Calls : d # c => call'[d] = call[d]
BY DEF TypeOK

\* One that doesn't wait for a write has none on its way.
LEMMA NotOrdered ==
  ASSUME CallInv, NEW c \in Calls, call[c].step # "ordered", flying' = flying
  PROVE  \A j \in DOMAIN flying' :
            /\ j \in DOMAIN flying
            /\ (flying'[j].of = flying[j].of) \/ (flying'[j].of = Unknown)
            /\ flying'[j].of = c => call'[c].step = "ordered"
BY DEF CallInv

\* A call that begins waits for no write and holds no lock.
LEMMA StartCalls ==
  ASSUME TypeOK, CallInv, NEW c \in Calls, NEW s \in Names,
         (\E want \in 1 .. Most : StartNext(c, s, want)) \/ (\E to \in Settings : StartSet(c, s, to))
  PROVE  /\ CallInv'
         /\ call'[c].step # "answered" /\ call'[c].answer = NoBlock /\ \A d \in Calls : d # c => call'[d] = call[d]
<1>1. call[c].step = "idle" /\ flying' = flying /\ lock' = lock /\ nodeOf' = nodeOf
  BY DEF StartNext, StartSet
<1> DEFINE Starts(r) == r.answer = NoBlock /\ (r.step = "found" \/ (r.step = "asked" /\ r.set))
<1>2. \E r : call' = [call EXCEPT ![c] = r] /\ Starts(r)
  <2>1. ASSUME NEW want \in 1 .. Most, StartNext(c, s, want)
        PROVE  \E r : call' = [call EXCEPT ![c] = r] /\ Starts(r)
    <3> DEFINE r == [NoCall EXCEPT !.step = "found", !.name = s, !.want = want,
                                   !.version = seen[nodeOf[c]][s].version, !.after = told[nodeOf[c]][s]]
    <3>1. Starts(r)
      BY DEF NoCall
    <3>2. call' = [call EXCEPT ![c] = r]
      BY <2>1 DEF StartNext
    <3> HIDE DEF r, Starts
    <3> QED
      BY <3>1, <3>2
  <2>2. ASSUME NEW to \in Settings, StartSet(c, s, to)
        PROVE  \E r : call' = [call EXCEPT ![c] = r] /\ Starts(r)
    <3> DEFINE r == [NoCall EXCEPT !.step = "asked", !.set = TRUE, !.name = s, !.value = to.value, !.called = to.called]
    <3>1. Starts(r)
      BY DEF NoCall
    <3>2. call' = [call EXCEPT ![c] = r]
      BY <2>2 DEF StartSet
    <3> HIDE DEF r, Starts
    <3> QED
      BY <3>1, <3>2
  <2> HIDE DEF Starts
  <2> QED
    BY <2>1, <2>2
<1> HIDE DEF Starts
<1>3. PICK r : call' = [call EXCEPT ![c] = r] /\ Starts(r)
  BY <1>2
<1>4. r.answer = NoBlock /\ (r.step = "found" \/ (r.step = "asked" /\ r.set))
  BY <1>3 DEF Starts
<1>5. call'[c] = r /\ \A d \in Calls : d # c => call'[d] = call[d]
  BY <1>3, Becomes
<1>6. ~Holding(c)'
  BY <1>4, <1>5 DEF Holding
<1>7. CallInv'
  BY <1>1, <1>4, <1>5, <1>6, NotOrdered, OneCall
<1> QED
  BY <1>4, <1>5, <1>7

\* One that locks its node's blocks has that lock.
LEMMA LockCalls ==
  ASSUME TypeOK, CallInv, NEW c \in Calls, Lock(c)
  PROVE  /\ CallInv'
         /\ call'[c].step = "locked" /\ call'[c].answer = call[c].answer /\ call'[c].set = call[c].set
         /\ call'[c].name = call[c].name /\ call'[c].after = call[c].after
         /\ \A d \in Calls : d # c => call'[d] = call[d]
<1> DEFINE r == [call[c] EXCEPT !.step = "locked"]
<1>1. /\ call[c].step = "found" /\ flying' = flying /\ nodeOf' = nodeOf /\ call' = [call EXCEPT ![c] = r]
      /\ lock[nodeOf[c]] = Nothing /\ lock' = [lock EXCEPT ![nodeOf[c]] = c]
  BY DEF Lock
<1>2. r.step = "locked" /\ r.answer = call[c].answer /\ r.set = call[c].set /\ r.name = call[c].name /\ r.after = call[c].after
  BY CallIs DEF Call
<1> HIDE DEF r
<1>3. call'[c] = r /\ \A d \in Calls : d # c => call'[d] = call[d]
  BY <1>1, Becomes
<1>4. lock'[nodeOf[c]] = c
  BY <1>1, CallIs DEF TypeOK
<1>5. ASSUME NEW d \in Calls, Holding(d)
      PROVE  lock'[nodeOf[d]] = lock[nodeOf[d]]
  <2>1. nodeOf[d] # nodeOf[c]
    BY <1>1, <1>5, NothingAssumption DEF CallInv
  <2> QED
    BY <1>1, <2>1 DEF TypeOK
<1>6. CallInv'
  BY <1>1, <1>2, <1>3, <1>4, <1>5, NotOrdered, OneCall
<1> QED
  BY <1>2, <1>3, <1>6

\* One that asks keeps it ...
LEMMA AskCalls ==
  ASSUME TypeOK, CallInv, NEW c \in Calls, NEW size \in Sizes, Ask(c, size)
  PROVE  /\ CallInv'
         /\ call'[c].step = "asked" /\ call'[c].answer = call[c].answer /\ call'[c].set = call[c].set
         /\ call'[c].name = call[c].name /\ call'[c].after = call[c].after
         /\ \A d \in Calls : d # c => call'[d] = call[d]
<1> DEFINE value == IF size < call[c].want THEN call[c].want ELSE size
           r == [call[c] EXCEPT !.step = "asked", !.value = value]
<1>1. call[c].step = "locked" /\ flying' = flying /\ nodeOf' = nodeOf /\ lock' = lock
  BY DEF Ask
<1>2. r.step = "asked" /\ r.answer = call[c].answer /\ r.set = call[c].set /\ r.name = call[c].name /\ r.after = call[c].after
  BY CallIs DEF Call
<1>3. call' = [call EXCEPT ![c] = r]
  <2>1. call' = [call EXCEPT ![c].step = "asked", ![c].value = value]
    BY DEF Ask
  <2>2. call \in [Calls -> Call]
    BY DEF TypeOK
  <2> HIDE DEF value
  <2> QED
    BY <2>1, <2>2
<1> HIDE DEF r
<1>4. call'[c] = r /\ \A d \in Calls : d # c => call'[d] = call[d]
  BY <1>3, Becomes
<1>5. lock'[nodeOf[c]] = c
  BY <1>1 DEF CallInv, Holding
<1>6. call'[c].value >= 1
  BY AskType
<1>7. CallInv'
  BY <1>1, <1>2, <1>4, <1>5, <1>6, NotOrdered, OneCall
<1> QED
  BY <1>2, <1>4, <1>7

\* ... as it hears its block ...
LEMMA HearBlockCalls ==
  ASSUME TypeOK, CallInv, NEW c \in Calls, HearBlock(c)
  PROVE  /\ CallInv'
         /\ call'[c].step = "locked" /\ call'[c].answer = call[c].answer /\ call'[c].set = call[c].set
         /\ call'[c].name = call[c].name /\ call'[c].after = call[c].after
         /\ \A d \in Calls : d # c => call'[d] = call[d]
<1> DEFINE r == [call[c] EXCEPT !.step = "locked"]
<1>1. /\ call[c].step = "answered" /\ ~call[c].set /\ flying' = flying /\ nodeOf' = nodeOf /\ call' = [call EXCEPT ![c] = r]
      /\ lock' = lock
  BY DEF HearBlock
<1>2. r.step = "locked" /\ r.answer = call[c].answer /\ r.set = call[c].set /\ r.name = call[c].name /\ r.after = call[c].after
  BY CallIs DEF Call
<1> HIDE DEF r
<1>3. call'[c] = r /\ \A d \in Calls : d # c => call'[d] = call[d]
  BY <1>1, Becomes
<1>4. lock'[nodeOf[c]] = c
  BY <1>1 DEF CallInv, Holding
<1>5. CallInv'
  BY <1>1, <1>2, <1>3, <1>4, NotOrdered, OneCall
<1> QED
  BY <1>2, <1>3, <1>5

\* A call that lets its node's lock go is the one that had it.
LEMMA OthersLocks ==
  ASSUME TypeOK, CallInv, NEW c \in Calls, lock[nodeOf[c]] = c \/ lock[nodeOf[c]] = Nothing,
         lock' = [lock EXCEPT ![nodeOf[c]] = Nothing]
  PROVE  \A d \in Calls : d # c /\ Holding(d) => lock'[nodeOf[d]] = lock[nodeOf[d]]
<1> SUFFICES ASSUME NEW d \in Calls, d # c, Holding(d)
             PROVE  lock'[nodeOf[d]] = lock[nodeOf[d]]
  OBVIOUS
<1>1. lock[nodeOf[d]] = d /\ d # Nothing
  BY NothingAssumption DEF CallInv
<1>2. nodeOf[d] # nodeOf[c]
  BY <1>1
<1> QED
  BY <1>2 DEF TypeOK

\* ... and lets it go with the last of its values.
LEMMA GiveCalls ==
  ASSUME TypeOK, CallInv, NEW c \in Calls, Give(c)
  PROVE  /\ CallInv'
         /\ call'[c].step # "answered"
         /\ call'[c] = NoCall \/ (call'[c].answer = call[c].answer /\ call'[c].name = call[c].name /\ call'[c].after = call[c].after)
         /\ \A d \in Calls : d # c => call'[d] = call[d]
<1>1. call[c].step = "locked" /\ flying' = flying /\ nodeOf' = nodeOf /\ call[c] \in Call
  BY CallIs DEF Give
<1>2. lock[nodeOf[c]] = c
  BY <1>1 DEF CallInv, Holding
<1>3. PICK k \in Nat :
        \/ call' = [call EXCEPT ![c] = NoCall] /\ lock' = [lock EXCEPT ![nodeOf[c]] = Nothing]
        \/ call' = [call EXCEPT ![c].want = @ - k] /\ lock' = lock
  BY GiveIs
<1>4. CASE call' = [call EXCEPT ![c] = NoCall] /\ lock' = [lock EXCEPT ![nodeOf[c]] = Nothing]
  <2>1. call'[c] = NoCall /\ \A d \in Calls : d # c => call'[d] = call[d]
    BY <1>4, Becomes
  <2>2. call'[c].step = "idle" /\ ~Holding(c)'
    BY <2>1, NoCallType DEF Holding
  <2>3. CallInv'
    BY <1>1, <1>2, <1>4, <2>1, <2>2, NotOrdered, OthersLocks, OneCall
  <2> QED
    BY <2>1, <2>2, <2>3
<1>5. CASE call' = [call EXCEPT ![c].want = @ - k] /\ lock' = lock
  <2> DEFINE r == [call[c] EXCEPT !.want = @ - k]
  <2>1. r.step = "locked" /\ r.answer = call[c].answer /\ r.name = call[c].name /\ r.after = call[c].after
    BY <1>1 DEF Call
  <2>2. call' = [call EXCEPT ![c] = r]
    BY <1>5
  <2> HIDE DEF r
  <2>3. call'[c] = r /\ \A d \in Calls : d # c => call'[d] = call[d]
    BY <2>2, Becomes
  <2>4. CallInv'
    BY <1>1, <1>2, <1>5, <2>1, <2>3, NotOrdered, OneCall
  <2> QED
    BY <2>1, <2>3, <2>4
<1> QED
  BY <1>3, <1>4, <1>5

\* A `setval` that returns is gone.
LEMMA FinishSetCalls ==
  ASSUME TypeOK, CallInv, NEW c \in Calls, FinishSet(c)
  PROVE  CallInv' /\ call'[c] = NoCall /\ \A d \in Calls : d # c => call'[d] = call[d]
<1>1. /\ call[c].step = "answered" /\ flying' = flying /\ nodeOf' = nodeOf /\ lock' = lock
      /\ call' = [call EXCEPT ![c] = NoCall]
  BY DEF FinishSet
<1>2. call'[c] = NoCall /\ \A d \in Calls : d # c => call'[d] = call[d]
  BY <1>1, Becomes
<1>3. call'[c].step = "idle" /\ ~Holding(c)'
  BY <1>2, NoCallType DEF Holding
<1> QED
  BY <1>1, <1>2, <1>3, NotOrdered, OneCall

\* A call that fails lets its lock go, and no write answers it.
LEMMA FailCalls ==
  ASSUME TypeOK, CallInv, NEW c \in Calls, Fail(c)
  PROVE  CallInv' /\ call'[c] = NoCall /\ \A d \in Calls : d # c => call'[d] = call[d]
<1>1. /\ nodeOf' = nodeOf /\ call' = [call EXCEPT ![c] = NoCall] /\ LeftBy({c})
      /\ lock' = IF lock[nodeOf[c]] = c THEN [lock EXCEPT ![nodeOf[c]] = Nothing] ELSE lock
  BY DEF Fail
<1>2. call'[c] = NoCall /\ \A d \in Calls : d # c => call'[d] = call[d]
  BY <1>1, Becomes
<1>3. call'[c].step = "idle" /\ ~Holding(c)'
  BY <1>2, NoCallType DEF Holding
<1>4. \A d \in Calls : d # c /\ Holding(d) => lock'[nodeOf[d]] = lock[nodeOf[d]]
  BY <1>1, OthersLocks
<1>5. \A j \in DOMAIN flying' :
         /\ j \in DOMAIN flying
         /\ (flying'[j].of = flying[j].of) \/ (flying'[j].of = Unknown)
         /\ flying'[j].of = c => call'[c].step = "ordered"
  BY <1>1, LeftByType, NothingAssumption
<1> QED
  BY <1>1, <1>2, <1>3, <1>4, <1>5, OneCall

\* So does every call of a node that restarts.
LEMMA RestartCalls ==
  ASSUME TypeOK, CallInv, NEW i \in Nodes, Restart(i)
  PROVE  CallInv' /\ \A c \in Calls : call'[c] = IF nodeOf[c] = i THEN NoCall ELSE call[c]
<1> DEFINE here == {c \in Calls : nodeOf[c] = i}
<1>1. /\ nodeOf' = nodeOf /\ LeftBy(here) /\ lock' = [lock EXCEPT ![i] = Nothing]
      /\ \A c \in Calls : call'[c] = IF nodeOf[c] = i THEN NoCall ELSE call[c]
  BY DEF Restart
<1>2. /\ DOMAIN flying' = DOMAIN flying
      /\ \A j \in DOMAIN flying : flying'[j].of = IF flying[j].of \in here THEN Unknown ELSE flying[j].of
  BY <1>1, LeftByType
<1>3. NoCall.step = "idle" /\ Unknown \notin Calls
  BY NoCallType, NothingAssumption
<1>4. \A c \in Calls : call'[c].step = "asked" /\ ~call'[c].set => call'[c].value >= 1
  BY <1>1, <1>3 DEF CallInv
<1>5. ASSUME NEW j \in DOMAIN flying', flying'[j].of \in Calls
      PROVE  flying'[j].of = flying[j].of /\ call'[flying'[j].of].step = "ordered"
  BY <1>1, <1>2, <1>3, <1>5 DEF CallInv
<1>6. ASSUME NEW j \in DOMAIN flying', NEW k \in DOMAIN flying', flying'[j].of \in Calls, flying'[j].of = flying'[k].of
      PROVE  j = k
  BY <1>2, <1>5, <1>6 DEF CallInv
<1>7. ASSUME NEW c \in Calls, Holding(c)'
      PROVE  lock'[nodeOf[c]] = c
  <2>1. nodeOf[c] # i /\ Holding(c)
    BY <1>1, <1>3, <1>7 DEF Holding
  <2> QED
    BY <1>1, <2>1 DEF CallInv, TypeOK
<1> QED
  BY <1>1, <1>4, <1>5, <1>6, <1>7 DEF CallInv

\* A write that is durable answers its call.
LEMMA DurableCalls ==
  ASSUME TypeOK, CallInv, Durable
  PROVE  /\ CallInv'
         /\ \A c \in Calls :
               \/ call'[c] = call[c]
               \/ /\ c = flying[1].of /\ call[c].step = "ordered" /\ call'[c].step = "answered"
                  /\ call'[c].answer = flying[1].answer /\ call'[c].set = call[c].set
                  /\ call'[c].name = call[c].name /\ call'[c].after = call[c].after
<1> DEFINE of == flying[1].of
           a == flying[1].answer
           r == [call[of] EXCEPT !.step = "answered", !.answer = a]
<1>1. /\ 1 \in DOMAIN flying /\ Head(flying) = flying[1]
      /\ \A j \in DOMAIN flying' : j + 1 \in DOMAIN flying /\ flying'[j] = flying[j + 1]
      /\ DOMAIN flying' = 1 .. (Len(flying) - 1) /\ Len(flying) \in Nat /\ DOMAIN flying = 1 .. Len(flying)
      /\ a \in Block
  BY DurableLine, NewestIs DEF Write
<1>2. call \in [Calls -> Call] /\ lock' = lock /\ nodeOf' = nodeOf
  BY DEF TypeOK, Durable
<1>3. call' = IF of \in Calls /\ call[of].step = "ordered"
              THEN [call EXCEPT ![of].step = "answered", ![of].answer = a] ELSE call
  BY <1>1 DEF Durable
<1> HIDE DEF of, a
<1>4. CASE ~(of \in Calls /\ call[of].step = "ordered")
  <2>1. call' = call
    BY <1>3, <1>4
  <2>2. ASSUME NEW j \in DOMAIN flying', NEW k \in DOMAIN flying', flying'[j].of \in Calls, flying'[j].of = flying'[k].of
        PROVE  j = k
    <3>1. j + 1 = k + 1
      BY <1>1, <2>2 DEF CallInv
    <3> QED
      BY <1>1, <3>1
  <2>3. \A j \in DOMAIN flying' : flying'[j].of \in Calls => call'[flying'[j].of].step = "ordered"
    BY <1>1, <2>1 DEF CallInv
  <2> QED
    BY <1>2, <2>1, <2>2, <2>3 DEF CallInv, Holding
<1>5. CASE of \in Calls /\ call[of].step = "ordered"
  <2>1. call' = [call EXCEPT ![of] = r]
    BY <1>2, <1>3, <1>5
  <2>2. r.step = "answered" /\ r.answer = a /\ r.set = call[of].set /\ r.name = call[of].name /\ r.after = call[of].after
    BY <1>1, <1>2, <1>5 DEF Call
  <2> HIDE DEF r
  <2>3. call'[of] = r /\ \A d \in Calls : d # of => call'[d] = call[d]
    BY <1>5, <2>1, Becomes
  <2>4. ASSUME NEW j \in DOMAIN flying', NEW k \in DOMAIN flying', flying'[j].of \in Calls, flying'[j].of = flying'[k].of
        PROVE  j = k
    <3>1. j + 1 = k + 1
      BY <1>1, <2>4 DEF CallInv
    <3> QED
      BY <1>1, <3>1
  <2>5. ASSUME NEW j \in DOMAIN flying', flying'[j].of \in Calls
        PROVE  call'[flying'[j].of].step = "ordered"
    <3>1. flying'[j].of # of
      <4>1. flying'[j] = flying[j + 1] /\ j + 1 \in DOMAIN flying /\ j + 1 # 1
        BY <1>1, <2>5
      <4> QED
        BY <1>1, <1>5, <4>1 DEF CallInv, of
    <3> QED
      BY <1>1, <2>3, <2>5, <3>1 DEF CallInv
  <2>6. ASSUME NEW c \in Calls, Holding(c)'
        PROVE  lock'[nodeOf'[c]] = c
    <3>1. Holding(c)
      BY <1>5, <2>2, <2>3, <2>6 DEF Holding
    <3> QED
      BY <1>2, <3>1 DEF CallInv
  <2>7. \A c \in Calls : call'[c].step = "asked" /\ ~call'[c].set => call'[c].value >= 1
    BY <2>2, <2>3 DEF CallInv
  <2>8. CallInv'
    BY <2>4, <2>5, <2>6, <2>7 DEF CallInv
  <2> QED
    BY <1>5, <2>2, <2>3, <2>8 DEF of, a
<1> QED
  BY <1>4, <1>5

\* An op's call waits for its write, and for no other.
LEMMA OrderingCalls ==
  ASSUME TypeOK, CallInv, NEW counters, NEW of \in Calls \cup {Nothing, Unknown}, NEW answer, Ordering(counters, of, answer)
  PROVE  /\ CallInv'
         /\ \A c \in Calls :
               \/ call'[c] = call[c]
               \/ /\ c = of /\ call'[c].step = "ordered"
                  /\ call'[c].answer = call[c].answer /\ call'[c].set = call[c].set
                  /\ call'[c].name = call[c].name /\ call'[c].after = call[c].after
<1> DEFINE r == [call[of] EXCEPT !.step = "ordered"]
<1>0. PICK last \in Nat : last = Len(flying) + 1
  BY NewestIs
<1>1. /\ \A j \in DOMAIN flying : flying'[j] = flying[j]
      /\ DOMAIN flying' = 1 .. last /\ flying'[last].of = of
      /\ DOMAIN flying = 1 .. (last - 1)
  <2>1. Len(flying) \in Nat /\ DOMAIN flying = 1 .. Len(flying)
    BY NewestIs
  <2>2. /\ \A j \in DOMAIN flying : flying'[j] = flying[j]
        /\ DOMAIN flying' = 1 .. last /\ flying'[last].of = of
    BY <1>0, OrderingLine
  <2> QED
    BY <1>0, <2>1, <2>2
<1>2. /\ lock' = lock /\ nodeOf' = nodeOf /\ call \in [Calls -> Call]
      /\ \/ of = Nothing /\ call' = call
         \/ of \in Calls /\ call[of].step = "asked" /\ call' = [call EXCEPT ![of] = r]
  BY DEF Ordering, TypeOK
<1>3. \A j \in DOMAIN flying' : j \in DOMAIN flying \/ j = last
  BY <1>1
<1>4. CASE of = Nothing /\ call' = call
  <2>1. of \notin Calls
    BY <1>4, NothingAssumption
  <2>2. ASSUME NEW j \in DOMAIN flying', flying'[j].of \in Calls
        PROVE  j \in DOMAIN flying
    BY <1>1, <1>3, <2>1, <2>2
  <2> QED
    BY <1>1, <1>2, <1>4, <2>2 DEF CallInv, Holding
<1>5. CASE of \in Calls /\ call[of].step = "asked" /\ call' = [call EXCEPT ![of] = r]
  <2>1. r.step = "ordered" /\ r.answer = call[of].answer /\ r.set = call[of].set /\ r.name = call[of].name /\ r.after = call[of].after
    BY <1>2, <1>5 DEF Call
  <2> HIDE DEF r
  <2>2. call'[of] = r /\ \A d \in Calls : d # of => call'[d] = call[d]
    BY <1>5, Becomes
  <2>3. \A j \in DOMAIN flying : flying[j].of # of
    BY <1>5 DEF CallInv
  <2>4. ASSUME NEW j \in DOMAIN flying', flying'[j].of \in Calls
        PROVE  call'[flying'[j].of].step = "ordered"
    BY <1>1, <1>3, <2>1, <2>2, <2>4 DEF CallInv
  <2>5. ASSUME NEW j \in DOMAIN flying', NEW k \in DOMAIN flying', flying'[j].of \in Calls, flying'[j].of = flying'[k].of
        PROVE  j = k
    BY <1>1, <1>3, <2>3, <2>5 DEF CallInv
  <2>6. ASSUME NEW c \in Calls, Holding(c)'
        PROVE  lock'[nodeOf'[c]] = c
    <3>1. Holding(c)
      BY <1>5, <2>1, <2>2, <2>6 DEF Holding
    <3> QED
      BY <1>2, <3>1 DEF CallInv
  <2>7. \A c \in Calls : call'[c].step = "asked" /\ ~call'[c].set => call'[c].value >= 1
    BY <2>1, <2>2 DEF CallInv
  <2>8. CallInv'
    BY <2>4, <2>5, <2>6, <2>7 DEF CallInv
  <2> QED
    BY <2>1, <2>2, <2>8
<1> QED
  BY <1>2, <1>4, <1>5

-----------------------------------------------------------------------------
(* Where the values are, over a node's steps                               *)

\* Values that only change their places leave the line, and what is behind the counters, as they are.
LEMMA SameLine ==
  ASSUME TypeOK, TypeOK', LineInv, HeldInv, PassInv, cat' = cat, held' = held, DOMAIN flying' = DOMAIN flying,
         \A j \in DOMAIN flying : flying'[j].to = flying[j].to,
         \A k, x, y, l, v : Has(k, x, y, l, v)' => \E k2, x2, y2 : Has(k2, x2, y2, l, v) /\ From(k2, x2) = From(k, x)
  PROVE  LineInv' /\ HeldInv' /\ PassInv'
<1>1. Len(flying) \in Nat /\ DOMAIN flying = 1 .. Len(flying) /\ Newest = Line(Len(flying))
  BY NewestIs
<1>2. flying' \in Seq(Write) /\ Len(flying') \in Nat /\ DOMAIN flying' = 1 .. Len(flying')
  BY LenProperties DEF TypeOK
<1>3. Len(flying') = Len(flying)
  BY <1>1, <1>2
<1>4. \A m \in 0 .. Len(flying) : Line(m)' = Line(m)
  BY <1>1 DEF Line
<1>5. Newest' = Newest
  <2>1. flying' = <<>> <=> flying = <<>>
    BY <1>2, <1>3, EmptySeq DEF TypeOK
  <2>2. flying # <<>> => Len(flying) \in DOMAIN flying
    BY <1>1, EmptySeq DEF TypeOK
  <2> QED
    BY <1>3, <2>1, <2>2 DEF Newest
<1>6. LineInv'
  BY <1>3, <1>4 DEF LineInv, Lives
<1>7. HeldInv'
  BY <1>3, <1>4, <1>5 DEF HeldInv
<1>8. PassInv'
  <2> SUFFICES ASSUME NEW k, NEW x, NEW y, NEW l, NEW v, Has(k, x, y, l, v)'
               PROVE  /\ l < Line(From(k, x))'.n
                      /\ \A m \in From(k, x) .. Len(flying') : Pass(Line(m)', l, v)
    BY DEF PassInv, From, Pass
  <2>1. PICK k2, x2, y2 : Has(k2, x2, y2, l, v) /\ From(k2, x2) = From(k, x)
    OBVIOUS
  <2>2. From(k, x) \in 0 .. Len(flying)
    BY <2>1, HasInt
  <2>3. l < Line(From(k, x)).n /\ \A m \in From(k, x) .. Len(flying) : Pass(Line(m), l, v)
    BY <2>1 DEF PassInv
  <2>4. \A m \in From(k, x) .. Len(flying) : m \in 0 .. Len(flying)
    BY <1>1, <2>2
  <2> QED
    BY <1>3, <1>4, <2>2, <2>3, <2>4
<1> QED
  BY <1>6, <1>7, <1>8

\* No block has no values.
LEMMA NoneIn ==
  ASSUME NEW l, NEW v
  PROVE  ~In(NoBlock, l, v) /\ Steps(NoBlock)
BY DEF In, Steps, NoBlock

\* A step that leaves values out, and brings none in.
LEMMA Fewer ==
  ASSUME TypeOK, TypeOK', PlacesInv, cat' = cat, held' = held, given' = given, DOMAIN flying' = DOMAIN flying,
         \A j \in DOMAIN flying : flying'[j].to = flying[j].to /\ flying'[j].answer = flying[j].answer,
         \A i \in Nodes, s \in Names : blocks'[i][s] \in {blocks[i][s], NoBlock},
         \A c \in Calls :
            /\ call'[c].answer \in {call[c].answer, NoBlock}
            /\ call'[c].step = "answered" /\ ~call'[c].set => call[c].step = "answered" /\ ~call[c].set
  PROVE  PlacesInv'
<1>1. ASSUME NEW k, NEW x, NEW y, NEW l, NEW v, Has(k, x, y, l, v)'
      PROVE  Has(k, x, y, l, v)
  <2>1. ~In(NoBlock, l, v)
    BY NoneIn
  <2>2. CASE k = "given"
    BY <1>1, <2>2 DEF Has
  <2>3. CASE k = "block"
    BY <1>1, <2>1, <2>3 DEF Has
  <2>4. CASE k = "answer"
    BY <1>1, <2>1, <2>4 DEF Has
  <2>5. CASE k = "flying"
    BY <1>1, <2>5 DEF Has
  <2> QED
    BY <1>1, <2>2, <2>3, <2>4, <2>5 DEF Has
<1>2. LineInv' /\ HeldInv' /\ PassInv'
  BY <1>1, SameLine DEF PlacesInv
<1>3. ApartInv'
  BY <1>1 DEF PlacesInv, ApartInv
<1>4. StepInv'
  BY NoneIn DEF PlacesInv, StepInv
<1> QED
  BY <1>2, <1>3, <1>4 DEF PlacesInv

\* A block is heard: its values go from the answer to the node.
LEMMA HearBlockPlaces ==
  ASSUME TypeOK, CallInv, PlacesInv, NEW c \in Calls, HearBlock(c)
  PROVE  PlacesInv'
<1> DEFINE n == nodeOf[c]
           t == call[c].name
<1>1. /\ call[c].step = "answered" /\ ~call[c].set
      /\ cat' = cat /\ held' = held /\ flying' = flying /\ given' = given
      /\ \A i \in Nodes, s \in Names : blocks'[i][s] = IF i = n /\ s = t THEN call[c].answer ELSE blocks[i][s]
  BY CallIs DEF HearBlock, TypeOK
<1>2. /\ call'[c].step = "locked" /\ call'[c].answer = call[c].answer
      /\ \A d \in Calls : d # c => call'[d] = call[d]
  BY HearBlockCalls
<1>3. ASSUME NEW k, NEW x, NEW y, NEW l, NEW v, Has(k, x, y, l, v)'
      PROVE  /\ ~(k = "answer" /\ x = c)
             /\ IF k = "block" /\ x = n /\ y = t THEN Has("answer", c, 0, l, v) ELSE Has(k, x, y, l, v)
  <2>1. CASE k = "given"
    BY <1>1, <1>3, <2>1 DEF Has
  <2>2. CASE k = "block"
    BY <1>1, <1>3, <2>2 DEF Has
  <2>3. CASE k = "answer"
    BY <1>2, <1>3, <2>3 DEF Has
  <2>4. CASE k = "flying"
    BY <1>1, <1>3, <2>4 DEF Has
  <2> QED
    BY <1>3, <2>1, <2>2, <2>3, <2>4 DEF Has
<1>4. TypeOK'
  BY HearBlockType
<1>5. LineInv' /\ HeldInv' /\ PassInv'
  <2>1. ASSUME NEW k, NEW x, NEW y, NEW l, NEW v, Has(k, x, y, l, v)'
        PROVE  \E k2, x2, y2 : Has(k2, x2, y2, l, v) /\ From(k2, x2) = From(k, x)
    BY <1>3, <2>1 DEF From
  <2> QED
    BY <1>1, <1>4, <2>1, SameLine DEF PlacesInv
<1>6. ApartInv'
  <2> SUFFICES ASSUME NEW k, NEW x, NEW y, NEW k2, NEW x2, NEW y2, NEW l, NEW v,
                      Has(k, x, y, l, v)', Has(k2, x2, y2, l, v)'
               PROVE  k = k2 /\ x = x2 /\ y = y2
    BY DEF ApartInv
  <2>1. \A a, b, d, e, f, g : Has(a, b, d, l, v) /\ Has(e, f, g, l, v) => a = e /\ b = f /\ d = g
    BY DEF PlacesInv, ApartInv
  <2> QED
    BY <1>3, <2>1
<1>7. StepInv'
  BY <1>1, <1>2 DEF PlacesInv, StepInv
<1> QED
  BY <1>5, <1>6, <1>7 DEF PlacesInv

\* Steps of a block that lead to the same value are the same.
LEMMA Distinct ==
  ASSUME NEW next \in Int, NEW step \in Int, step # 0, NEW p \in Int, NEW q \in Int, next + p * step = next + q * step
  PROVE  p = q
<1>1. PICK d \in Int : d = p - q
  OBVIOUS
<1>2. p * step \in Int /\ q * step \in Int /\ p * step = q * step
  OBVIOUS
<1>3. d * step = 0
  <2>1. d * step = p * step - q * step
    BY <1>1
  <2> QED
    BY <1>2, <2>1
<1>4. d = 0
  BY <1>3
<1> QED
  BY <1>1, <1>4

\* A block that has handed k values out: its j-th value was its k+j-th.
LEMMA Further ==
  ASSUME NEW next \in Int, NEW step \in Int, NEW k \in Int, NEW j \in Int
  PROVE  (next + k * step) + j * step = next + (k + j) * step
<1>1. (k + j) * step = k * step + j * step
  OBVIOUS
<1>2. k * step \in Int /\ j * step \in Int
  OBVIOUS
<1> QED
  BY <1>1, <1>2

\* Values are handed out: the first of the block's values are, and it keeps the others.
LEMMA GivePlaces ==
  ASSUME TypeOK, CallInv, PlacesInv, NEW c \in Calls, Give(c)
  PROVE  PlacesInv'
<1> DEFINE n == nodeOf[c]
           t == call[c].name
           b == Blocks(c)
           old == Len(given[n])
<1>1. /\ n \in Nodes /\ t \in Names /\ b = blocks[n][t] /\ b \in Block
      /\ b.left \in Nat /\ b.left > 0 /\ b.next \in Int /\ b.step \in Int /\ b.life \in Nat /\ b.step # 0
  <2>1. n \in Nodes /\ t \in Names /\ b = blocks[n][t] /\ b \in Block /\ b.left > 0
    BY CallIs DEF Blocks, Give
  <2> QED
    BY <2>1 DEF Block, PlacesInv, StepInv, Steps
<1>2. cat' = cat /\ held' = held /\ flying' = flying /\ TypeOK'
  BY GiveIs DEF Give
<1>3. PICK k0 \in Nat :
        /\ k0 <= b.left
        /\ \A i \in Nodes : i # n => given'[i] = given[i]
        /\ DOMAIN given'[n] = 1 .. (old + k0)
        /\ \A g \in DOMAIN given[n] : given'[n][g] = given[n][g]
        /\ \A j \in 1 .. k0 : given'[n][old + j] = Handed(c, k0, j)
        /\ \A i \in Nodes, s \in Names : blocks'[i][s] = IF i = n /\ s = t THEN Left(c, k0) ELSE blocks[i][s]
  BY GiveIs
<1>4. old \in Nat /\ DOMAIN given[n] = 1 .. old
  BY <1>1, LenProperties DEF TypeOK
<1>5. \A j \in 1 .. k0 : /\ given'[n][old + j].life = b.life
                        /\ given'[n][old + j].value = b.next + (j - 1) * b.step
  <2> SUFFICES ASSUME NEW j \in 1 .. k0
               PROVE  Handed(c, k0, j).life = b.life /\ Handed(c, k0, j).value = b.next + (j - 1) * b.step
    BY <1>3, ZenonT(60)
  <2> QED
    BY DEF Handed
<1> HIDE DEF b
<1>6. PICK r \in Block : /\ r = Left(c, k0)
                        /\ r.life = b.life /\ r.left = b.left - k0 /\ r.next = b.next + k0 * b.step /\ r.step = b.step
  <2>1. k0 * b.step \in Int /\ b.next + k0 * b.step \in Int /\ b.left - k0 \in Nat
    <3>1. PICK step \in Int : step = b.step
      BY <1>1
    <3>2. k0 * step \in Int
      OBVIOUS
    <3>3. k0 <= b.left /\ b.left \in Nat /\ b.next \in Int
      BY <1>1, <1>3
    <3> QED
      BY <3>1, <3>2, <3>3
  <2>2. PICK m \in Int : m = b.next + k0 * b.step
    BY <2>1
  <2>3. PICK left \in Nat : left = b.left - k0
    BY <2>1
  <2>4. Left(c, k0) = [b EXCEPT !.left = left, !.next = m]
    BY <2>2, <2>3 DEF Left, b
  <2>5. [b EXCEPT !.left = left, !.next = m] \in Block
    BY <1>1 DEF Block
  <2>6. LET q == [b EXCEPT !.left = left, !.next = m]
        IN  q.life = b.life /\ q.left = left /\ q.next = m /\ q.step = b.step
    BY <1>1 DEF Block
  <2> QED
    BY <2>2, <2>3, <2>4, <2>5, <2>6
<1>7. /\ call'[c].step # "answered" /\ \A d \in Calls : d # c => call'[d] = call[d]
      /\ call'[c].answer \in {call[c].answer, NoBlock}
  BY GiveCalls, NoCallType
<1> DEFINE Part(k, x, y, l, v) ==
             /\ l = b.life
             /\ \E p \in 0 .. (b.left - 1) :
                  /\ v = b.next + p * b.step
                  /\ \/ k = "given" /\ x = n /\ y = old + p + 1 /\ p < k0
                     \/ k = "block" /\ x = n /\ y = t /\ p >= k0
<1> HIDE DEF n, t, b, old
<1>8. ASSUME NEW k, NEW x, NEW y, NEW l, NEW v, Has(k, x, y, l, v)'
      PROVE  Part(k, x, y, l, v) \/ (Has(k, x, y, l, v) /\ ~(k = "block" /\ x = n /\ y = t))
  <2>1. CASE k = "given"
    <3>1. x \in Nodes /\ y \in DOMAIN given'[x] /\ given'[x][y].life = l /\ given'[x][y].value = v
      BY <1>8, <2>1 DEF Has
    <3>2. CASE x # n
      BY <1>3, <2>1, <3>1, <3>2 DEF Has
    <3>3. CASE x = n /\ y \in DOMAIN given[n]
      BY <1>3, <2>1, <3>1, <3>3 DEF Has
    <3>4. CASE x = n /\ y \notin DOMAIN given[n]
      <4>1. y \in Int /\ y > old /\ y <= old + k0
        BY <1>3, <1>4, <3>1, <3>4
      <4>2. PICK p \in Int : p = y - old - 1
        BY <1>4, <4>1
      <4>3. y = old + (p + 1) /\ p + 1 \in 1 .. k0 /\ p \in 0 .. (b.left - 1) /\ p < k0
        <5>1. k0 <= b.left
          BY <1>3
        <5>2. y = old + (p + 1) /\ p >= 0 /\ p + 1 <= k0
          BY <1>4, <4>1, <4>2
        <5> QED
          BY <1>1, <5>1, <5>2
      <4>4. given'[n][y].life = b.life /\ given'[n][y].value = b.next + ((p + 1) - 1) * b.step
        BY <1>5, <4>3
      <4>5. (p + 1) - 1 = p
        OBVIOUS
      <4>6. y = old + p + 1
        BY <1>4, <4>3
      <4> QED
        BY <2>1, <3>1, <3>4, <4>3, <4>4, <4>5, <4>6
    <3> QED
      BY <3>2, <3>3, <3>4
  <2>2. CASE k = "block"
    <3>1. x \in Nodes /\ y \in Names /\ In(blocks'[x][y], l, v)
      BY <1>8, <2>2 DEF Has
    <3>2. CASE ~(x = n /\ y = t)
      BY <1>3, <2>2, <3>1, <3>2 DEF Has
    <3>3. CASE x = n /\ y = t
      <4>1. In(r, l, v)
        BY <1>3, <1>6, <3>1, <3>3
      <4>2. PICK j \in 0 .. (r.left - 1) : v = r.next + j * r.step
        BY <4>1 DEF In
      <4>3. v = b.next + (k0 + j) * b.step
        BY <1>1, <1>6, <4>2, Further
      <4>4. k0 + j \in 0 .. (b.left - 1) /\ k0 + j >= k0
        <5>1. r.left = b.left - k0 /\ b.left \in Nat /\ k0 \in Nat /\ j \in 0 .. (r.left - 1)
          BY <1>1, <1>3, <1>6, <4>2
        <5> QED
          BY ONLY <5>1
      <4>5. l = b.life
        BY <1>6, <4>1 DEF In
      <4> QED
        BY <2>2, <3>3, <4>3, <4>4, <4>5
    <3> QED
      BY <3>2, <3>3
  <2>3. CASE k = "answer"
    BY <1>7, <1>8, <2>3 DEF Has
  <2>4. CASE k = "flying"
    BY <1>2, <1>8, <2>4 DEF Has
  <2> QED
    BY <1>8, <2>1, <2>2, <2>3, <2>4 DEF Has
<1>9. ASSUME NEW k, NEW x, NEW y, NEW l, NEW v, Part(k, x, y, l, v)
      PROVE  Has("block", n, t, l, v) /\ From(k, x) = 0 /\ From("block", n) = 0
  BY <1>1, <1>9 DEF Has, In, From
<1>10. LineInv' /\ HeldInv' /\ PassInv'
  <2>1. ASSUME NEW k, NEW x, NEW y, NEW l, NEW v, Has(k, x, y, l, v)'
        PROVE  \E k2, x2, y2 : Has(k2, x2, y2, l, v) /\ From(k2, x2) = From(k, x)
    <3> HIDE DEF Part
    <3> QED
      BY <1>8, <1>9, <2>1
  <2> QED
    BY <1>2, <2>1, SameLine DEF PlacesInv
<1>11. ApartInv'
  <2> SUFFICES ASSUME NEW k, NEW x, NEW y, NEW k2, NEW x2, NEW y2, NEW l, NEW v,
                      Has(k, x, y, l, v)', Has(k2, x2, y2, l, v)'
               PROVE  k = k2 /\ x = x2 /\ y = y2
    BY DEF ApartInv
  <2>1. \A a, d, e, f, g, h : Has(a, d, e, l, v) /\ Has(f, g, h, l, v) => a = f /\ d = g /\ e = h
    BY DEF PlacesInv, ApartInv
  <2>2. CASE Part(k, x, y, l, v) /\ Part(k2, x2, y2, l, v)
    <3>1. PICK p \in 0 .. (b.left - 1) :
            /\ v = b.next + p * b.step
            /\ \/ k = "given" /\ x = n /\ y = old + p + 1 /\ p < k0
               \/ k = "block" /\ x = n /\ y = t /\ p >= k0
      BY <2>2
    <3>2. PICK q \in 0 .. (b.left - 1) :
            /\ v = b.next + q * b.step
            /\ \/ k2 = "given" /\ x2 = n /\ y2 = old + q + 1 /\ q < k0
               \/ k2 = "block" /\ x2 = n /\ y2 = t /\ q >= k0
      BY <2>2
    <3>3. p = q
      <4>1. p \in Int /\ q \in Int /\ b.next + p * b.step = b.next + q * b.step
        BY <1>1, <3>1, <3>2
      <4> QED
        BY <1>1, <4>1, Distinct
    <3> QED
      BY <1>3, <3>1, <3>2, <3>3
  <2>3. CASE ~Part(k, x, y, l, v) \/ ~Part(k2, x2, y2, l, v)
    <3> HIDE DEF Part
    <3>1. /\ Part(k, x, y, l, v) => Has("block", n, t, l, v)
          /\ Part(k2, x2, y2, l, v) => Has("block", n, t, l, v)
      BY <1>9
    <3>2. /\ Part(k, x, y, l, v) \/ (Has(k, x, y, l, v) /\ ~(k = "block" /\ x = n /\ y = t))
          /\ Part(k2, x2, y2, l, v) \/ (Has(k2, x2, y2, l, v) /\ ~(k2 = "block" /\ x2 = n /\ y2 = t))
      BY <1>8
    <3> QED
      BY <2>1, <2>3, <3>1, <3>2
  <2> QED
    BY <2>2, <2>3
<1>12. StepInv'
  <2>1. Steps(r)
    BY <1>1, <1>6 DEF Steps
  <2>2. \A d \in Calls : Steps(call'[d].answer)
    BY <1>7, NoneIn DEF PlacesInv, StepInv
  <2>3. \A i \in Nodes, s \in Names : Steps(blocks'[i][s])
    BY <1>3, <1>6, <2>1 DEF PlacesInv, StepInv
  <2> QED
    BY <1>2, <2>2, <2>3 DEF PlacesInv, StepInv
<1> QED
  BY <1>10, <1>11, <1>12 DEF PlacesInv

\* A write is durable: its catalog is the committed one, and what it answers with goes to its call.
LEMMA DurablePlaces ==
  ASSUME TypeOK, CallInv, PlacesInv, Durable
  PROVE  PlacesInv'
<1>1. PICK last \in Nat : last = Len(flying)
  BY NewestIs
<1>2. /\ last >= 1 /\ Len(flying') = last - 1 /\ DOMAIN flying' = 1 .. (last - 1) /\ DOMAIN flying = 1 .. last
      /\ 1 \in DOMAIN flying /\ flying' \in Seq(Write)
      /\ \A j \in DOMAIN flying' : j + 1 \in DOMAIN flying /\ flying'[j] = flying[j + 1]
      /\ cat' = flying[1].to
  BY <1>1, DurableLine, NewestIs
<1>3. held' = held /\ blocks' = blocks /\ given' = given
  BY DEF Durable
<1>4. \A c \in Calls :
         \/ call'[c] = call[c]
         \/ c = flying[1].of /\ call'[c].answer = flying[1].answer
  BY DurableCalls
<1>5. ASSUME NEW m \in 0 .. (last - 1)
      PROVE  m + 1 \in 0 .. last /\ Line(m)' = Line(m + 1)
  BY <1>2, <1>5 DEF Line
<1>6. Newest' = Newest /\ Newest = Line(last) /\ \A m \in 0 .. last : Line(m).n \in Nat
  <2>1. Newest = Line(last) /\ \A m \in 0 .. last : Line(m).n \in Nat
    BY <1>1, NewestIs
  <2>2. flying' = <<>> <=> last - 1 = 0
    BY <1>2, EmptySeq
  <2>3. Newest' = Line(last - 1)'
    BY <1>2, <2>2 DEF Newest, Line
  <2>4. Line(last - 1)' = Line((last - 1) + 1)
    BY <1>2, <1>5
  <2> QED
    BY <2>1, <2>3, <2>4
<1>7. LineInv'
  <2>1. ASSUME NEW m \in 0 .. (last - 1)
        PROVE  Lives(Line(m)')
    BY <1>1, <1>5 DEF PlacesInv, LineInv
  <2>2. ASSUME NEW m \in 0 .. (last - 1), NEW o \in 0 .. (last - 1), m <= o
        PROVE  Line(m)'.n <= Line(o)'.n
    BY <1>1, <1>5, <2>2 DEF PlacesInv, LineInv
  <2> QED
    BY <1>2, <2>1, <2>2 DEF LineInv, Lives
<1>8. HeldInv'
  <2> SUFFICES ASSUME NEW s \in Names
               PROVE  IF held[s] = Unknown THEN \A m \in 0 .. (last - 1) : Line(m)'.seq[s] = cat'.seq[s]
                                           ELSE held[s] = Newest.seq[s]
    BY <1>2, <1>3, <1>6 DEF HeldInv
  <2>1. CASE held[s] = Unknown
    <3>1. \A m \in 0 .. last : Line(m).seq[s] = cat.seq[s]
      BY <1>1, <2>1 DEF PlacesInv, HeldInv
    <3>2. cat' = Line(0)' /\ 0 \in 0 .. (last - 1)
      BY <1>2 DEF Line
    <3> QED
      BY <1>5, <2>1, <3>1, <3>2
  <2>2. CASE held[s] # Unknown
    BY <2>2 DEF PlacesInv, HeldInv
  <2> QED
    BY <2>1, <2>2
<1> DEFINE Answers(k, x) == k = "answer" /\ x = flying[1].of
<1>9. ASSUME NEW k, NEW x, NEW y, NEW l, NEW v, Has(k, x, y, l, v)'
      PROVE  \/ k # "flying" /\ Has(k, x, y, l, v)
             \/ Answers(k, x) /\ y = 0 /\ Has("flying", 1, 0, l, v)
             \/ k = "flying" /\ x \in 1 .. (last - 1) /\ y = 0 /\ Has("flying", x + 1, 0, l, v)
  <2>1. CASE k = "given" \/ k = "block"
    BY <1>3, <1>9, <2>1 DEF Has
  <2>2. CASE k = "answer"
    <3>1. x \in Calls /\ y = 0 /\ call'[x].step = "answered" /\ ~call'[x].set /\ In(call'[x].answer, l, v)
      BY <1>9, <2>2 DEF Has
    <3>2. CASE call'[x] = call[x]
      BY <2>2, <3>1, <3>2 DEF Has
    <3>3. CASE x = flying[1].of /\ call'[x].answer = flying[1].answer
      BY <1>2, <2>2, <3>1, <3>3 DEF Has
    <3> QED
      BY <1>4, <3>1, <3>2, <3>3
  <2>3. CASE k = "flying"
    BY <1>2, <1>9, <2>3 DEF Has
  <2> QED
    BY <1>9, <2>1, <2>2, <2>3 DEF Has
<1>10. PassInv'
  <2> SUFFICES ASSUME NEW k, NEW x, NEW y, NEW l, NEW v, Has(k, x, y, l, v)'
               PROVE  /\ l < Line(From(k, x))'.n
                      /\ \A m \in From(k, x) .. Len(flying') : Pass(Line(m)', l, v)
    BY DEF PassInv, From, Pass
  <2>1. PICK f \in 0 .. last :
          /\ f <= From(k, x) + 1 /\ From(k, x) \in 0 .. (last - 1)
          /\ l \in Nat /\ l < Line(f).n /\ \A m \in f .. last : Pass(Line(m), l, v)
    <3>1. ASSUME NEW k2, NEW x2, NEW y2, Has(k2, x2, y2, l, v)
          PROVE  /\ l \in Nat /\ l < Line(From(k2, x2)).n /\ \A m \in From(k2, x2) .. last : Pass(Line(m), l, v)
                 /\ From(k2, x2) \in 0 .. last
      BY <1>1, <3>1, HasInt DEF PlacesInv, PassInv
    <3>2. CASE k # "flying" /\ Has(k, x, y, l, v)
      <4>1. From(k, x) = 0
        BY <3>2 DEF From
      <4> QED
        BY <1>2, <3>1, <3>2, <4>1
    <3>3. CASE Answers(k, x) /\ y = 0 /\ Has("flying", 1, 0, l, v)
      <4>1. From(k, x) = 0 /\ From("flying", 1) = 1
        BY <3>3 DEF From
      <4> QED
        BY <1>2, <3>1, <3>3, <4>1
    <3>4. CASE k = "flying" /\ x \in 1 .. (last - 1) /\ y = 0 /\ Has("flying", x + 1, 0, l, v)
      <4>1. From(k, x) = x /\ From("flying", x + 1) = x + 1
        BY <3>4 DEF From
      <4>2. x + 1 \in 0 .. last /\ x \in 0 .. (last - 1) /\ x + 1 <= x + 1
        BY <1>2, <3>4
      <4> QED
        BY <3>1, <3>4, <4>1, <4>2
    <3> QED
      BY <1>9, <3>2, <3>3, <3>4
  <2>2. Line(From(k, x))' = Line(From(k, x) + 1) /\ From(k, x) + 1 \in 0 .. last
    <3>1. PICK m \in 0 .. (last - 1) : m = From(k, x)
      BY <2>1
    <3>2. Line(m)' = Line(m + 1) /\ m + 1 \in 0 .. last
      BY <1>5
    <3>3. Line(From(k, x))' = Line(m)'
      BY <3>1 DEF Line, From
    <3> QED
      BY <3>1, <3>2, <3>3
  <2>3. Line(f).n <= Line(From(k, x) + 1).n
    BY <1>1, <2>1, <2>2 DEF PlacesInv, LineInv
  <2>4. l < Line(From(k, x))'.n
    BY <1>6, <2>1, <2>2, <2>3
  <2>5. ASSUME NEW m \in From(k, x) .. (last - 1)
        PROVE  Pass(Line(m)', l, v)
    <3>1. m \in 0 .. (last - 1) /\ m + 1 \in f .. last
      BY <1>2, <2>1, <2>5
    <3> QED
      BY <1>5, <2>1, <3>1
  <2> QED
    BY <1>2, <2>4, <2>5
<1>11. ApartInv'
  <2> SUFFICES ASSUME NEW k, NEW x, NEW y, NEW k2, NEW x2, NEW y2, NEW l, NEW v,
                      Has(k, x, y, l, v)', Has(k2, x2, y2, l, v)'
               PROVE  k = k2 /\ x = x2 /\ y = y2
    BY DEF ApartInv
  <2>1. \A a, d, e, f, g, h : Has(a, d, e, l, v) /\ Has(f, g, h, l, v) => a = f /\ d = g /\ e = h
    BY DEF PlacesInv, ApartInv
  <2>2. /\ \/ k # "flying" /\ Has(k, x, y, l, v)
           \/ Answers(k, x) /\ y = 0 /\ Has("flying", 1, 0, l, v)
           \/ k = "flying" /\ x \in 1 .. (last - 1) /\ y = 0 /\ Has("flying", x + 1, 0, l, v)
        /\ \/ k2 # "flying" /\ Has(k2, x2, y2, l, v)
           \/ Answers(k2, x2) /\ y2 = 0 /\ Has("flying", 1, 0, l, v)
           \/ k2 = "flying" /\ x2 \in 1 .. (last - 1) /\ y2 = 0 /\ Has("flying", x2 + 1, 0, l, v)
    BY <1>9
  <2> QED
    BY <1>2, <2>1, <2>2
<1>12. StepInv'
  <2>1. \A c \in Calls : Steps(call'[c].answer)
    BY <1>2, <1>4 DEF PlacesInv, StepInv
  <2>2. \A j \in DOMAIN flying' : Steps(flying'[j].answer)
    BY <1>2 DEF PlacesInv, StepInv
  <2> QED
    BY <1>3, <2>1, <2>2 DEF PlacesInv, StepInv
<1> QED
  BY <1>7, <1>8, <1>10, <1>11, <1>12 DEF PlacesInv

\* A takeover: the values on their way are lost.
LEMMA TakeOverPlaces ==
  ASSUME TypeOK, PlacesInv, NEW k0 \in 0 .. Len(flying), TakeOver(k0)
  PROVE  PlacesInv'
<1>1. /\ cat' = Line(k0) /\ flying' = <<>> /\ Len(flying') = 0 /\ DOMAIN flying' = {}
      /\ blocks' = blocks /\ given' = given /\ call' = call /\ held' = [s \in Names |-> Unknown]
  <2>1. cat' = Line(k0) /\ flying' = <<>>
    BY TakeOverType
  <2>2. Len(flying') = 0 /\ DOMAIN flying' = {}
    BY <2>1
  <2> QED
    BY <2>1, <2>2 DEF TakeOver
<1>2. Line(0)' = Line(k0) /\ \A m \in 0 .. Len(flying') : m = 0
  BY <1>1 DEF Line
<1>3. LineInv'
  <2>1. Lives(Line(k0)) /\ Line(k0).n \in Nat
    BY NewestIs DEF PlacesInv, LineInv
  <2> QED
    BY <1>2, <2>1 DEF LineInv, Lives
<1>4. HeldInv'
  BY <1>1, <1>2 DEF HeldInv
<1>5. ASSUME NEW k, NEW x, NEW y, NEW l, NEW v, Has(k, x, y, l, v)'
      PROVE  Has(k, x, y, l, v) /\ From(k, x) = 0
  BY <1>1, <1>5 DEF Has, From
<1>6. PassInv'
  <2> SUFFICES ASSUME NEW k, NEW x, NEW y, NEW l, NEW v, Has(k, x, y, l, v)'
               PROVE  /\ l < Line(From(k, x))'.n
                      /\ \A m \in From(k, x) .. Len(flying') : Pass(Line(m)', l, v)
    BY DEF PassInv, From, Pass
  <2>1. Has(k, x, y, l, v) /\ From(k, x) = 0 /\ l \in Nat
    BY <1>5, HasInt
  <2>2. l < Line(0).n /\ Pass(Line(k0), l, v)
    <3>1. Len(flying) \in Nat /\ k0 \in From(k, x) .. Len(flying)
      BY <2>1, NewestIs
    <3> QED
      BY <2>1, <3>1 DEF PlacesInv, PassInv
  <2>3. Line(0).n <= Line(k0).n /\ Line(0).n \in Nat /\ Line(k0).n \in Nat
    <3>1. 0 \in 0 .. Len(flying) /\ 0 <= k0
      BY NewestIs
    <3> QED
      BY <3>1, NewestIs DEF PlacesInv, LineInv
  <2>4. Line(From(k, x))' = Line(0)'
    BY <2>1 DEF Line, From
  <2> QED
    BY <1>2, <2>1, <2>2, <2>3, <2>4
<1>7. ApartInv'
  BY <1>5 DEF PlacesInv, ApartInv
<1>8. StepInv'
  BY <1>1 DEF PlacesInv, StepInv
<1> QED
  BY <1>3, <1>4, <1>6, <1>7, <1>8 DEF PlacesInv

-----------------------------------------------------------------------------
(* What a `setval` that returned is before, over a step                    *)

\* A call that doesn't go on, on a catalog that does.
LEMMA CallStays ==
  ASSUME TypeOK, NEW c \in Calls, CallTold(c), told' = told, nodeOf' = nodeOf, cat.n <= cat'.n, cat'.n \in Nat,
         call'[c] = call[c] \/ call'[c] = NoCall
  PROVE  CallTold(c)'
<1>1. /\ nodeOf[c] \in Nodes /\ told[nodeOf[c]] \in [Names -> Nat] /\ call[c].answer.version \in Nat /\ cat.n \in Nat
      /\ call[c].after \in Nat /\ call[c].name \in Names
  BY CallIs DEF Block, TypeOK, Catalog
<1>2. CASE call'[c] = call[c]
  BY <1>1, <1>2 DEF CallTold, ToldTo
<1>3. CASE call'[c] = NoCall
  <2>1. NoCall.after = 0 /\ NoCall.step = "idle" /\ NoCall.name \in Names
    BY NoCallType DEF Call
  <2>2. told[nodeOf[c]][NoCall.name] \in Nat
    BY <1>1, <2>1
  <2> QED
    BY <1>3, <2>1, <2>2 DEF CallTold, ToldTo
<1> QED
  BY <1>2, <1>3

\* Writes whose calls wait for them as before.
LEMMA WritesStay ==
  ASSUME ToldInv, told' = told, nodeOf' = nodeOf,
         \A j \in DOMAIN flying' :
            /\ j \in DOMAIN flying /\ flying'[j].to = flying[j].to /\ flying'[j].answer = flying[j].answer
            /\ flying'[j].of \in Calls => flying'[j].of = flying[j].of /\ call'[flying[j].of] = call[flying[j].of]
  PROVE  \A j \in DOMAIN flying' : WriteTold(j)'
BY DEF ToldInv, WriteTold, ToldTo

\* A step of one call that no write answers.
LEMMA OneCallTold ==
  ASSUME TypeOK, CallInv, ToldInv, NEW c \in Calls, cat' = cat, flying' = flying, told' = told, nodeOf' = nodeOf,
         call[c].step # "ordered", CallTold(c)', \A d \in Calls : d # c => call'[d] = call[d],
         \A i \in Nodes, s \in Names : blocks'[i][s].left > 0 => told[i][s] < blocks'[i][s].version
  PROVE  ToldInv'
<1>1. cat.n \in Nat
  BY DEF TypeOK, Catalog
<1>2. ASSUME NEW d \in Calls
      PROVE  CallTold(d)'
  BY <1>1, CallStays DEF ToldInv
<1>3. \A j \in DOMAIN flying' : WriteTold(j)'
  <2>1. \A j \in DOMAIN flying : flying[j].of \in Calls => call'[flying[j].of] = call[flying[j].of]
    BY DEF CallInv
  <2> QED
    BY <2>1, WritesStay
<1> QED
  BY <1>2, <1>3 DEF ToldInv

\* Blocks that stay, or are left.
LEMMA BlocksLeft ==
  ASSUME ToldInv, \A i \in Nodes, s \in Names : blocks'[i][s] \in {blocks[i][s], NoBlock}
  PROVE  \A i \in Nodes, s \in Names : blocks'[i][s].left > 0 => told[i][s] < blocks'[i][s].version
<1>1. ~(NoBlock.left > 0)
  BY DEF NoBlock
<1> QED
  BY <1>1 DEF ToldInv

\* A call that begins has seen what returned on its node ...
LEMMA StartNextTold ==
  ASSUME TypeOK, CallInv, ToldInv, NEW c \in Calls, NEW s \in Names, NEW want \in 1 .. Most, StartNext(c, s, want)
  PROVE  ToldInv'
<1> DEFINE r == [NoCall EXCEPT !.step = "found", !.name = s, !.want = want,
                               !.version = seen[nodeOf[c]][s].version, !.after = told[nodeOf[c]][s]]
<1>1. /\ call[c].step = "idle" /\ call' = [call EXCEPT ![c] = r]
      /\ cat' = cat /\ flying' = flying /\ told' = told /\ nodeOf' = nodeOf /\ blocks' = blocks
  BY DEF StartNext
<1>2. r.step = "found" /\ r.name = s /\ r.after = told[nodeOf[c]][s]
  BY DEF NoCall
<1> HIDE DEF r
<1>3. call'[c] = r /\ \A d \in Calls : d # c => call'[d] = call[d]
  BY <1>1, Becomes
<1>4. told[nodeOf[c]][s] \in Nat
  BY CallIs
<1>5. CallTold(c)'
  BY <1>1, <1>2, <1>3, <1>4 DEF CallTold, ToldTo
<1> QED
  BY <1>1, <1>3, <1>5, BlocksLeft, OneCallTold

\* ... a `setval` has seen nothing ...
LEMMA StartSetTold ==
  ASSUME TypeOK, CallInv, ToldInv, NEW c \in Calls, NEW s \in Names, NEW to \in Settings, StartSet(c, s, to)
  PROVE  ToldInv'
<1> DEFINE r == [NoCall EXCEPT !.step = "asked", !.set = TRUE, !.name = s, !.value = to.value, !.called = to.called]
<1>1. /\ call[c].step = "idle" /\ call' = [call EXCEPT ![c] = r]
      /\ cat' = cat /\ flying' = flying /\ told' = told /\ nodeOf' = nodeOf /\ blocks' = blocks
  BY DEF StartSet
<1>2. r.step = "asked" /\ r.name = s /\ r.after = 0
  BY DEF NoCall
<1> HIDE DEF r
<1>3. call'[c] = r /\ \A d \in Calls : d # c => call'[d] = call[d]
  BY <1>1, Becomes
<1>4. told[nodeOf[c]][s] \in Nat
  BY CallIs
<1>5. CallTold(c)'
  BY <1>1, <1>2, <1>3, <1>4 DEF CallTold, ToldTo
<1> QED
  BY <1>1, <1>3, <1>5, BlocksLeft, OneCallTold

\* ... a lock leaves a block or none ...
LEMMA LockTold ==
  ASSUME TypeOK, CallInv, ToldInv, NEW c \in Calls, Lock(c)
  PROVE  ToldInv'
<1>1. /\ call[c].step = "found" /\ cat' = cat /\ flying' = flying /\ told' = told /\ nodeOf' = nodeOf
      /\ \A i \in Nodes, s \in Names : blocks'[i][s] \in {blocks[i][s], NoBlock}
  BY CallIs DEF Lock, WithoutBlock, TypeOK
<1>2. /\ call'[c].step = "locked" /\ call'[c].name = call[c].name /\ call'[c].after = call[c].after
      /\ \A d \in Calls : d # c => call'[d] = call[d]
  BY LockCalls
<1>3. CallTold(c)'
  BY <1>1, <1>2 DEF ToldInv, CallTold, ToldTo
<1> QED
  BY <1>1, <1>2, <1>3, BlocksLeft, OneCallTold

\* ... a call that asks keeps what it has seen ...
LEMMA AskTold ==
  ASSUME TypeOK, CallInv, ToldInv, NEW c \in Calls, NEW size \in Sizes, Ask(c, size)
  PROVE  ToldInv'
<1>1. call[c].step = "locked" /\ cat' = cat /\ flying' = flying /\ told' = told /\ nodeOf' = nodeOf /\ blocks' = blocks
  BY DEF Ask
<1>2. /\ call'[c].step = "asked" /\ call'[c].name = call[c].name /\ call'[c].after = call[c].after
      /\ \A d \in Calls : d # c => call'[d] = call[d]
  BY AskCalls
<1>3. CallTold(c)'
  BY <1>1, <1>2 DEF ToldInv, CallTold, ToldTo
<1> QED
  BY <1>1, <1>2, <1>3, BlocksLeft, OneCallTold

\* ... and the block it hears of was taken after all of it.
LEMMA HearBlockTold ==
  ASSUME TypeOK, CallInv, ToldInv, NEW c \in Calls, HearBlock(c)
  PROVE  ToldInv'
<1>1. /\ call[c].step = "answered" /\ ~call[c].set /\ call[c].answer.version > 0
      /\ cat' = cat /\ flying' = flying /\ told' = told /\ nodeOf' = nodeOf
      /\ \A i \in Nodes, s \in Names :
            blocks'[i][s] = IF i = nodeOf[c] /\ s = call[c].name THEN call[c].answer ELSE blocks[i][s]
  BY CallIs DEF HearBlock, TypeOK
<1>2. /\ call'[c].step = "locked" /\ call'[c].name = call[c].name /\ call'[c].after = call[c].after
      /\ \A d \in Calls : d # c => call'[d] = call[d]
  BY HearBlockCalls
<1>3. CallTold(c)' /\ ToldTo(c) < call[c].answer.version
  BY <1>1, <1>2 DEF ToldInv, CallTold, ToldTo
<1>4. \A i \in Nodes, s \in Names : blocks'[i][s].left > 0 => told[i][s] < blocks'[i][s].version
  BY <1>1, <1>3 DEF ToldInv, ToldTo
<1> QED
  BY <1>1, <1>2, <1>3, <1>4, OneCallTold

\* A block that values are taken from stays as new as it was.
LEMMA GiveTold ==
  ASSUME TypeOK, CallInv, ToldInv, NEW c \in Calls, Give(c)
  PROVE  ToldInv'
<1>1. /\ call[c].step = "locked" /\ cat' = cat /\ flying' = flying /\ told' = told /\ nodeOf' = nodeOf
      /\ Blocks(c).left > 0 /\ Blocks(c) = blocks[nodeOf[c]][call[c].name] /\ Blocks(c) \in Block
  BY CallIs DEF Give, Blocks
<1>2. /\ call'[c].step # "answered"
      /\ call'[c] = NoCall \/ (call'[c].name = call[c].name /\ call'[c].after = call[c].after)
      /\ \A d \in Calls : d # c => call'[d] = call[d]
  BY GiveCalls
<1>3. CallTold(c)'
  <2>1. CASE call'[c] = NoCall
    <3>1. cat.n \in Nat
      BY DEF TypeOK, Catalog
    <3> QED
      BY <1>1, <2>1, <3>1, CallStays DEF ToldInv
  <2>2. CASE call'[c].name = call[c].name /\ call'[c].after = call[c].after
    BY <1>1, <1>2, <2>2 DEF ToldInv, CallTold, ToldTo
  <2> QED
    BY <1>2, <2>1, <2>2
<1>4. PICK k \in Nat : \A i \in Nodes, s \in Names :
          blocks'[i][s] = IF i = nodeOf[c] /\ s = call[c].name THEN Left(c, k) ELSE blocks[i][s]
  BY GiveIs
<1>5. Left(c, k).version = Blocks(c).version
  BY <1>1 DEF Left, Block
<1>6. told[nodeOf[c]][call[c].name] < Blocks(c).version
  BY <1>1, CallIs DEF ToldInv
<1>7. \A i \in Nodes, s \in Names : blocks'[i][s].left > 0 => told[i][s] < blocks'[i][s].version
  BY <1>4, <1>5, <1>6 DEF ToldInv
<1> QED
  BY <1>1, <1>2, <1>3, <1>7, OneCallTold

\* A `setval` that returns: no other call of its node holds a block of its sequence.
LEMMA FinishSetTold ==
  ASSUME TypeOK, CallInv, ToldInv, NEW c \in Calls, FinishSet(c)
  PROVE  ToldInv'
<1> DEFINE i == nodeOf[c]
           s == call[c].name
           v == call[c].answer.version
<1>1. /\ call[c].step = "answered" /\ call[c].set /\ lock[i] = Nothing
      /\ cat' = cat /\ flying' = flying /\ nodeOf' = nodeOf
      /\ \A n \in Nodes, t \in Names : blocks'[n][t] = IF n = i /\ t = s THEN NoBlock ELSE blocks[n][t]
  BY CallIs DEF FinishSet, WithoutBlock, TypeOK
<1>2. /\ i \in Nodes /\ s \in Names /\ v \in Nat /\ cat.n \in Nat /\ v < cat.n
      /\ \A n \in Nodes, t \in Names : told[n][t] \in Nat /\ told[n][t] < cat.n
  BY <1>1, CallIs, SMTT(60) DEF Block, TypeOK, Catalog, ToldInv, CallTold
<1>3. \A n \in Nodes, t \in Names :
         told'[n][t] = IF n = i /\ t = s THEN (IF told[i][s] < v THEN v ELSE told[i][s]) ELSE told[n][t]
  BY CallIs DEF FinishSet, TypeOK
<1>4. call'[c] = NoCall /\ \A d \in Calls : d # c => call'[d] = call[d]
  BY FinishSetCalls
<1> HIDE DEF i, s, v
<1>5. \A n \in Nodes, t \in Names : told'[n][t] \in Nat /\ told[n][t] <= told'[n][t] /\ told'[n][t] < cat.n
  BY <1>2, <1>3
<1>6. \A n \in Nodes, t \in Names : blocks'[n][t].left > 0 => told'[n][t] < blocks'[n][t].version
  <2>1. ~(NoBlock.left > 0)
    BY DEF NoBlock
  <2> QED
    BY <1>1, <1>3, <2>1 DEF ToldInv
<1>7. \A d \in Calls : Holding(d) => nodeOf[d] # i
  BY <1>1, NothingAssumption DEF CallInv
<1>8. ASSUME NEW d \in Calls
      PROVE  CallTold(d)'
  <2>0. /\ nodeOf[d] \in Nodes /\ call[d].name \in Names /\ call[d].after \in Nat
        /\ NoCall.name \in Names /\ NoCall.after = 0 /\ NoCall.step = "idle"
    BY CallIs, NoCallType DEF Call
  <2>1. CASE d = c
    BY <1>1, <1>4, <1>5, <2>0, <2>1 DEF CallTold, ToldTo
  <2>2. CASE d # c
    <3>1. call'[d] = call[d] /\ CallTold(d)
      BY <1>4, <2>2 DEF ToldInv
    <3>2. call[d].after <= told'[nodeOf[d]][call[d].name]
      <4>1. call[d].after <= told[nodeOf[d]][call[d].name]
        BY <3>1 DEF CallTold, ToldTo
      <4>2. told[nodeOf[d]][call[d].name] \in Nat /\ told'[nodeOf[d]][call[d].name] \in Nat
            /\ told[nodeOf[d]][call[d].name] <= told'[nodeOf[d]][call[d].name]
        BY <1>2, <1>5, <2>0
      <4> QED
        BY <2>0, <4>1, <4>2
    <3>3. ASSUME call[d].step = "answered", ~call[d].set
          PROVE  told'[nodeOf[d]][call[d].name] = told[nodeOf[d]][call[d].name]
      <4>1. nodeOf[d] # i
        BY <1>7, <3>3 DEF Holding
      <4> QED
        BY <1>3, <2>0, <4>1
    <3> QED
      BY <1>1, <3>1, <3>2, <3>3 DEF CallTold, ToldTo
  <2> QED
    BY <2>1, <2>2
<1>9. ASSUME NEW j \in DOMAIN flying'
      PROVE  WriteTold(j)'
  <2>1. WriteTold(j)
    BY <1>1, <1>9 DEF ToldInv
  <2>2. ASSUME flying[j].of \in Calls, ~call'[flying[j].of].set, flying[j].answer.version > 0
        PROVE  told'[nodeOf[flying[j].of]][call'[flying[j].of].name] < flying[j].answer.version
    <3>1. PICK d \in Calls : d = flying[j].of
      BY <2>2
    <3>2. call[d].step = "ordered"
      BY <1>1, <1>9, <3>1 DEF CallInv
    <3>3. d # c /\ call'[d] = call[d]
      BY <1>1, <1>4, <3>2
    <3>4. nodeOf[d] # i
      BY <1>7, <2>2, <3>1, <3>2, <3>3 DEF Holding
    <3>5. told'[nodeOf[d]][call[d].name] = told[nodeOf[d]][call[d].name]
      BY <1>3, <3>4, CallIs
    <3> QED
      BY <2>1, <2>2, <3>1, <3>3, <3>5 DEF WriteTold, ToldTo
  <2> QED
    BY <1>1, <2>1, <2>2 DEF WriteTold, ToldTo
<1> QED
  BY <1>1, <1>5, <1>6, <1>8, <1>9 DEF ToldInv

\* A call that fails is answered no more.
LEMMA FailTold ==
  ASSUME TypeOK, CallInv, ToldInv, NEW c \in Calls, Fail(c)
  PROVE  ToldInv'
<1>1. cat' = cat /\ told' = told /\ nodeOf' = nodeOf /\ blocks' = blocks /\ LeftBy({c})
  BY DEF Fail
<1>2. call'[c] = NoCall /\ \A d \in Calls : d # c => call'[d] = call[d]
  BY FailCalls
<1>3. /\ DOMAIN flying' = DOMAIN flying
      /\ \A j \in DOMAIN flying : /\ flying'[j].to = flying[j].to /\ flying'[j].answer = flying[j].answer
                                /\ flying'[j].of = IF flying[j].of \in {c} THEN Unknown ELSE flying[j].of
  BY <1>1, LeftByType
<1>4. \A d \in Calls : CallTold(d)'
  <2>1. cat.n \in Nat
    BY DEF TypeOK, Catalog
  <2> QED
    BY <1>1, <1>2, <2>1, CallStays DEF ToldInv
<1>5. \A j \in DOMAIN flying' : WriteTold(j)'
  <2>1. Unknown \notin Calls
    BY NothingAssumption
  <2> QED
    BY <1>1, <1>2, <1>3, <2>1, WritesStay
<1> QED
  BY <1>1, <1>4, <1>5 DEF ToldInv

\* A node that restarts has no blocks.
LEMMA RestartTold ==
  ASSUME TypeOK, CallInv, ToldInv, NEW i \in Nodes, Restart(i)
  PROVE  ToldInv'
<1> DEFINE here == {c \in Calls : nodeOf[c] = i}
<1>1. cat' = cat /\ told' = told /\ nodeOf' = nodeOf /\ LeftBy(here)
  BY DEF Restart
<1>2. \A c \in Calls : call'[c] = IF nodeOf[c] = i THEN NoCall ELSE call[c]
  BY RestartCalls
<1>3. /\ DOMAIN flying' = DOMAIN flying
      /\ \A j \in DOMAIN flying : /\ flying'[j].to = flying[j].to /\ flying'[j].answer = flying[j].answer
                                /\ flying'[j].of = IF flying[j].of \in here THEN Unknown ELSE flying[j].of
  BY <1>1, LeftByType
<1>4. \A d \in Calls : CallTold(d)'
  <2>1. cat.n \in Nat
    BY DEF TypeOK, Catalog
  <2> QED
    BY <1>1, <1>2, <2>1, CallStays DEF ToldInv
<1>5. \A j \in DOMAIN flying' : WriteTold(j)'
  <2>1. Unknown \notin Calls
    BY NothingAssumption
  <2> QED
    BY <1>1, <1>2, <1>3, <2>1, WritesStay
<1>6. \A n \in Nodes, s \in Names : blocks'[n][s] \in {blocks[n][s], NoBlock}
  BY DEF Restart, TypeOK
<1> QED
  BY <1>1, <1>4, <1>5, <1>6, BlocksLeft DEF ToldInv

\* A catalog that goes on leaves what was told before it.
LEMMA DurableTold ==
  ASSUME TypeOK, CallInv, PlacesInv, ToldInv, Durable
  PROVE  ToldInv'
<1>1. /\ told' = told /\ nodeOf' = nodeOf /\ blocks' = blocks
      /\ 1 \in DOMAIN flying /\ cat' = flying[1].to
      /\ \A j \in DOMAIN flying' : j + 1 \in DOMAIN flying /\ flying'[j] = flying[j + 1]
  BY DurableLine DEF Durable
<1>2. cat.n <= cat'.n /\ cat.n \in Nat /\ cat'.n \in Nat
  <2>1. /\ 0 \in 0 .. Len(flying) /\ 1 \in 0 .. Len(flying) /\ Line(0) = cat /\ Line(1) = cat'
        /\ Line(0).n \in Nat /\ Line(1).n \in Nat
    BY <1>1, NewestIs DEF Line
  <2> QED
    BY <2>1 DEF PlacesInv, LineInv
<1>3. \A n \in Nodes, s \in Names : told[n][s] \in Nat
  BY DEF TypeOK
<1>4. \A c \in Calls :
         \/ call'[c] = call[c]
         \/ /\ c = flying[1].of /\ call[c].step = "ordered" /\ call'[c].step = "answered"
            /\ call'[c].answer = flying[1].answer /\ call'[c].set = call[c].set
            /\ call'[c].name = call[c].name /\ call'[c].after = call[c].after
  BY DurableCalls
<1>5. ASSUME NEW c \in Calls
      PROVE  CallTold(c)'
  <2>1. CASE call'[c] = call[c]
    BY <1>1, <1>2, <2>1, CallStays DEF ToldInv
  <2>2. CASE /\ c = flying[1].of /\ call[c].step = "ordered" /\ call'[c].step = "answered"
             /\ call'[c].answer = flying[1].answer /\ call'[c].set = call[c].set
             /\ call'[c].name = call[c].name /\ call'[c].after = call[c].after
    <3>1. CallTold(c) /\ WriteTold(1)
      BY <1>1 DEF ToldInv
    <3> QED
      BY <1>1, <2>2, <3>1 DEF CallTold, WriteTold, ToldTo
  <2> QED
    BY <1>4, <2>1, <2>2
<1>6. ASSUME NEW j \in DOMAIN flying'
      PROVE  WriteTold(j)'
  <2>1. PICK m \in DOMAIN flying : m = j + 1
    BY <1>1
  <2>2. WriteTold(m) /\ flying'[j] = flying[m]
    BY <1>1, <2>1 DEF ToldInv
  <2>3. flying[m].of \in Calls => /\ call'[flying[m].of].set = call[flying[m].of].set
                                  /\ call'[flying[m].of].name = call[flying[m].of].name
    BY <1>4
  <2> QED
    BY <1>1, <2>2, <2>3 DEF WriteTold, ToldTo
<1> QED
  BY <1>1, <1>2, <1>3, <1>5, <1>6 DEF ToldInv

\* A takeover's catalog is the committed one or a newer one.
LEMMA TakeOverTold ==
  ASSUME TypeOK, PlacesInv, ToldInv, NEW k \in 0 .. Len(flying), TakeOver(k)
  PROVE  ToldInv'
<1>1. /\ told' = told /\ nodeOf' = nodeOf /\ blocks' = blocks /\ call' = call
      /\ cat' = Line(k) /\ flying' = <<>>
  BY TakeOverType DEF TakeOver
<1>2. cat.n <= cat'.n /\ cat.n \in Nat /\ cat'.n \in Nat
  <2>1. 0 \in 0 .. Len(flying) /\ 0 <= k /\ Line(0) = cat /\ Line(0).n \in Nat /\ Line(k).n \in Nat
    BY NewestIs
  <2> QED
    BY <1>1, <2>1 DEF PlacesInv, LineInv
<1>3. \A n \in Nodes, s \in Names : told[n][s] \in Nat
  BY DEF TypeOK
<1>4. \A c \in Calls : CallTold(c)'
  BY <1>1, <1>2, CallStays DEF ToldInv
<1>5. DOMAIN flying' = {}
  BY <1>1
<1> QED
  BY <1>1, <1>2, <1>3, <1>4, <1>5 DEF ToldInv

\* A block is taken after every `setval` that returned.
LEMMA OrderingTold ==
  ASSUME TypeOK, CallInv, PlacesInv, ToldInv,
         NEW counters, NEW of \in Calls \cup {Nothing, Unknown}, NEW answer, Ordering(counters, of, answer)
  PROVE  ToldInv'
<1>0. PICK last \in Nat : last = Len(flying) + 1
  BY NewestIs
<1>1. /\ \A j \in DOMAIN flying : flying'[j] = flying[j]
      /\ DOMAIN flying' = 1 .. last
      /\ flying'[last].of = of /\ flying'[last].answer = answer
      /\ Newest' = flying'[last].to /\ Newest'.n = Newest.n + 1
  BY <1>0, OrderingLine, ZenonT(60)
<1>2. /\ told' = told /\ nodeOf' = nodeOf /\ blocks' = blocks /\ cat' = cat
      /\ answer.version \in {0, Newest.n}
  BY DEF Ordering
<1>3. cat.n <= Newest.n /\ Newest.n \in Nat /\ cat.n \in Nat /\ DOMAIN flying = 1 .. Len(flying) /\ Len(flying) \in Nat
  <2>1. /\ 0 \in 0 .. Len(flying) /\ Len(flying) \in 0 .. Len(flying) /\ 0 <= Len(flying)
        /\ Line(0) = cat /\ Newest = Line(Len(flying)) /\ Line(0).n \in Nat /\ Newest.n \in Nat
    BY NewestIs
  <2> QED
    BY <2>1, NewestIs DEF PlacesInv, LineInv
<1>4. \A c \in Calls :
         \/ call'[c] = call[c]
         \/ /\ c = of /\ call'[c].step = "ordered"
            /\ call'[c].answer = call[c].answer /\ call'[c].set = call[c].set
            /\ call'[c].name = call[c].name /\ call'[c].after = call[c].after
  BY OrderingCalls
<1>5. \A n \in Nodes, s \in Names : told[n][s] \in Nat /\ told[n][s] < cat.n
  BY DEF TypeOK, ToldInv
<1>6. ASSUME NEW c \in Calls
      PROVE  CallTold(c)'
  <2>1. CASE call'[c] = call[c]
    BY <1>2, <1>3, <2>1, CallStays DEF ToldInv
  <2>2. CASE /\ c = of /\ call'[c].step = "ordered"
             /\ call'[c].answer = call[c].answer /\ call'[c].set = call[c].set
             /\ call'[c].name = call[c].name /\ call'[c].after = call[c].after
    BY <1>2, <2>2 DEF CallTold, ToldTo, ToldInv
  <2> QED
    BY <1>4, <2>1, <2>2
<1>7. ASSUME NEW j \in DOMAIN flying'
      PROVE  WriteTold(j)'
  <2>1. CASE j = last
    <3>1. flying'[j].answer.version < flying'[j].to.n
      BY <1>1, <1>2, <1>3, <2>1
    <3>2. ASSUME flying'[j].of \in Calls, flying'[j].answer.version > 0
          PROVE  told[nodeOf[flying'[j].of]][call'[flying'[j].of].name] < flying'[j].answer.version
      <4>1. PICK c \in Calls : c = flying'[j].of
        BY <3>2
      <4>2. nodeOf[c] \in Nodes /\ call'[c].name \in Names
        BY <1>4, CallIs
      <4>3. flying'[j].answer.version = Newest.n
        BY <1>1, <1>2, <2>1, <3>2
      <4>4. told[nodeOf[c]][call'[c].name] < Newest.n
        <5>1. told[nodeOf[c]][call'[c].name] \in Nat /\ told[nodeOf[c]][call'[c].name] < cat.n
          BY <1>5, <4>2
        <5> QED
          BY <1>3, <5>1
      <4> QED
        BY <4>1, <4>3, <4>4
    <3> QED
      BY <1>2, <3>1, <3>2 DEF WriteTold, ToldTo
  <2>2. CASE j # last
    <3>1. j \in DOMAIN flying /\ flying'[j] = flying[j] /\ WriteTold(j)
      BY <1>0, <1>1, <1>3, <1>7, <2>2 DEF ToldInv
    <3>2. flying[j].of \in Calls => /\ call'[flying[j].of].set = call[flying[j].of].set
                                    /\ call'[flying[j].of].name = call[flying[j].of].name
      BY <1>4
    <3> QED
      BY <1>2, <3>1, <3>2 DEF WriteTold, ToldTo
  <2> QED
    BY <2>1, <2>2
<1> QED
  BY <1>2, <1>5, <1>6, <1>7 DEF ToldInv

-----------------------------------------------------------------------------
(* The values handed out                                                   *)

\* A block that a call gives from was taken after the `setval` it had seen returned.
LEMMA GiveSeen ==
  ASSUME TypeOK, ToldInv, SetIsSeen, NEW c \in Calls, Give(c)
  PROVE  SetIsSeen'
<1> DEFINE n == nodeOf[c]
<1>1. PICK k \in Nat :
         /\ \A i \in Nodes : i # n => given'[i] = given[i]
         /\ DOMAIN given'[n] = 1 .. (Len(given[n]) + k)
         /\ \A g \in DOMAIN given[n] : given'[n][g] = given[n][g]
         /\ \A j \in 1 .. k : given'[n][Len(given[n]) + j] = Handed(c, k, j)
  BY GiveIs
<1>2. n \in Nodes /\ given[n] \in Seq(Given) /\ Len(given[n]) \in Nat /\ DOMAIN given[n] = 1 .. Len(given[n])
  BY CallIs, LenProperties DEF TypeOK
<1>3. /\ Blocks(c).left > 0 /\ Blocks(c) = blocks[n][call[c].name] /\ Blocks(c) \in Block
      /\ told[n][call[c].name] \in Nat /\ call[c].after \in Nat
  BY CallIs DEF Give, Blocks
<1>4. Blocks(c).version > call[c].after
  <2>1. call[c].after <= told[n][call[c].name]
    BY DEF ToldInv, CallTold, ToldTo
  <2>2. told[n][call[c].name] < Blocks(c).version
    BY <1>2, <1>3, CallIs DEF ToldInv
  <2>3. Blocks(c).version \in Nat
    BY <1>3 DEF Block
  <2> QED
    BY <1>3, <2>1, <2>2, <2>3
<1> HIDE DEF n
<1>5. ASSUME NEW i \in Nodes, NEW g \in DOMAIN given'[i]
      PROVE  given'[i][g].version > given'[i][g].after \/ given'[i][g].after = 0
  <2>1. CASE i # n \/ g \in DOMAIN given[n]
    BY <1>1, <1>5, <2>1 DEF SetIsSeen
  <2>2. CASE i = n /\ g \notin DOMAIN given[n]
    <3>1. PICK j \in 1 .. k : g = Len(given[n]) + j
      <4>1. g \in 1 .. (Len(given[n]) + k) /\ g \notin 1 .. Len(given[n])
        BY <1>1, <1>2, <1>5, <2>2
      <4>2. g - Len(given[n]) \in 1 .. k /\ g = Len(given[n]) + (g - Len(given[n]))
        BY <1>2, <4>1, SMTT(60)
      <4> QED
        BY <4>2
    <3>2. given'[i][g] = Handed(c, k, j)
      BY <1>1, <2>2, <3>1
    <3> QED
      BY <1>4, <3>2 DEF Handed
  <2> QED
    BY <2>1, <2>2
<1> QED
  BY <1>5 DEF SetIsSeen

-----------------------------------------------------------------------------
(* A step of the program                                                   *)

Inv == TypeOK /\ CallInv /\ PlacesInv /\ ToldInv /\ SetIsSeen

\* The invariant holds at first ...
LEMMA InitInv ==
  ASSUME Init
  PROVE  Inv
<1> USE DEF Init
<1>1. TypeOK
  <2>1. 1 \in Nat /\ 0 \in Nat /\ 0 \in 0 .. MaxTakeovers
    BY BoundsAssumption
  <2>2. cat \in Catalog
    BY <2>1 DEF Catalog
  <2>3. flying \in Seq(Write) /\ \A i \in Nodes : <<>> \in Seq(Given)
    OBVIOUS
  <2>4. seen \in [Nodes -> [Names -> Counter \cup {Nothing}]]
    OBVIOUS
  <2> QED
    BY <2>1, <2>2, <2>3, <2>4, NoCallType DEF TypeOK
<1>2. DOMAIN flying = {} /\ Len(flying) = 0 /\ \A m \in 0 .. Len(flying) : m = 0 /\ Line(m) = cat
  BY DEF Line
<1>3. /\ NoCall.step = "idle" /\ NoCall.after = 0 /\ ~(NoBlock.left > 0) /\ Steps(NoBlock)
      /\ NoCall.answer = NoBlock /\ \A l, v : ~In(NoBlock, l, v)
  <2>1. ~(NoBlock.left > 0)
    BY DEF NoBlock
  <2>2. NoCall.step = "idle" /\ NoCall.after = 0 /\ NoCall.answer = NoBlock
    BY NoCallType
  <2> QED
    BY <2>1, <2>2, NoneIn
<1>4. CallInv
  BY <1>2, <1>3 DEF CallInv, Holding
<1>5. \A k, x, y, l, v : ~Has(k, x, y, l, v)
  BY <1>2, <1>3 DEF Has
<1>6. LineInv
  BY <1>2 DEF LineInv, Lives
<1>7. HeldInv
  BY <1>2 DEF HeldInv
<1>8. StepInv
  BY <1>2, <1>3 DEF StepInv
<1>9. PlacesInv
  BY <1>5, <1>6, <1>7, <1>8 DEF PlacesInv, PassInv, ApartInv
<1>10. ToldInv
  <2>1. NoCall.name \in Names
    BY NoCallType DEF Call
  <2>2. \A c \in Calls : CallTold(c)
    BY <1>3, <2>1 DEF CallTold, ToldTo
  <2> QED
    BY <1>2, <1>3, <2>2 DEF ToldInv
<1>11. SetIsSeen
  BY DEF SetIsSeen
<1> QED
  BY <1>1, <1>4, <1>9, <1>10, <1>11 DEF Inv

\* A commit's op, whoever orders it.
LEMMA OrderingStep ==
  ASSUME Inv, NEW counters, NEW of \in Calls \cup {Nothing, Unknown}, NEW answer, Ordering(counters, of, answer)
  PROVE  Inv'
<1>1. TypeOK' /\ CallInv' /\ PlacesInv' /\ ToldInv'
  BY OrderingType, OrderingCalls, OrderingPlaces, OrderingTold DEF Inv
<1>2. SetIsSeen'
  BY DEF Inv, SetIsSeen, Ordering
<1> QED
  BY <1>1, <1>2 DEF Inv

\* A call's own step, but for those that move values.
LEMMA CallPlaces ==
  ASSUME TypeOK, TypeOK', PlacesInv, NEW c \in Calls, cat' = cat, held' = held, given' = given,
         DOMAIN flying' = DOMAIN flying,
         \A j \in DOMAIN flying : flying'[j].to = flying[j].to /\ flying'[j].answer = flying[j].answer,
         \A i \in Nodes, s \in Names : blocks'[i][s] \in {blocks[i][s], NoBlock},
         \A d \in Calls : d # c => call'[d] = call[d],
         call'[c].answer \in {call[c].answer, NoBlock}, call'[c].step # "answered"
  PROVE  PlacesInv'
<1>1. \A d \in Calls :
         /\ call'[d].answer \in {call[d].answer, NoBlock}
         /\ call'[d].step = "answered" /\ ~call'[d].set => call[d].step = "answered" /\ ~call[d].set
  OBVIOUS
<1> QED
  BY <1>1, Fewer

\* A call's own step.
LEMMA CallStep ==
  ASSUME Inv, NEW c \in Calls,
         \/ \E s \in Names : \/ \E want \in 1 .. Most : StartNext(c, s, want)
                             \/ \E to \in Settings : StartSet(c, s, to)
         \/ Lock(c) \/ HearBlock(c) \/ Give(c) \/ FinishSet(c) \/ Fail(c)
         \/ \E size \in Sizes : Ask(c, size)
  PROVE  Inv'
<1>0. TypeOK /\ CallInv /\ PlacesInv /\ ToldInv /\ SetIsSeen
  BY DEF Inv
<1>n. NoCall.step = "idle" /\ NoCall.answer = NoBlock
  BY NoCallType
<1>1. ASSUME NEW s \in Names, NEW want \in 1 .. Most, StartNext(c, s, want)
      PROVE  Inv'
  <2>1. TypeOK' /\ CallInv' /\ ToldInv'
    BY <1>0, <1>1, StartNextType, StartCalls, StartNextTold
  <2>2. call'[c].step # "answered" /\ call'[c].answer = NoBlock /\ \A d \in Calls : d # c => call'[d] = call[d]
    BY <1>0, <1>1, StartCalls
  <2>3. cat' = cat /\ held' = held /\ given' = given /\ flying' = flying /\ blocks' = blocks
    BY <1>1 DEF StartNext
  <2>4. PlacesInv'
    BY <1>0, <2>1, <2>2, <2>3, CallPlaces
  <2>5. SetIsSeen'
    BY <1>0, <2>3 DEF SetIsSeen
  <2> QED
    BY <2>1, <2>4, <2>5 DEF Inv
<1>2. ASSUME NEW s \in Names, NEW to \in Settings, StartSet(c, s, to)
      PROVE  Inv'
  <2>1. TypeOK' /\ CallInv' /\ ToldInv'
    BY <1>0, <1>2, StartSetType, StartCalls, StartSetTold
  <2>2. call'[c].step # "answered" /\ call'[c].answer = NoBlock /\ \A d \in Calls : d # c => call'[d] = call[d]
    BY <1>0, <1>2, StartCalls
  <2>3. cat' = cat /\ held' = held /\ given' = given /\ flying' = flying /\ blocks' = blocks
    BY <1>2 DEF StartSet
  <2>4. PlacesInv'
    BY <1>0, <2>1, <2>2, <2>3, CallPlaces
  <2>5. SetIsSeen'
    BY <1>0, <2>3 DEF SetIsSeen
  <2> QED
    BY <2>1, <2>4, <2>5 DEF Inv
<1>3. ASSUME Lock(c)
      PROVE  Inv'
  <2>1. TypeOK' /\ CallInv' /\ ToldInv'
    BY <1>0, <1>3, LockType, LockCalls, LockTold
  <2>2. /\ call'[c].step = "locked" /\ call'[c].answer = call[c].answer
        /\ \A d \in Calls : d # c => call'[d] = call[d]
    BY <1>0, <1>3, LockCalls
  <2>3. /\ cat' = cat /\ held' = held /\ given' = given /\ flying' = flying
        /\ \A i \in Nodes, s \in Names : blocks'[i][s] \in {blocks[i][s], NoBlock}
    BY <1>0, <1>3, CallIs DEF Lock, WithoutBlock, TypeOK
  <2>4. PlacesInv'
    BY <1>0, <2>1, <2>2, <2>3, CallPlaces
  <2>5. SetIsSeen'
    BY <1>0, <2>3 DEF SetIsSeen
  <2> QED
    BY <2>1, <2>4, <2>5 DEF Inv
<1>4. ASSUME NEW size \in Sizes, Ask(c, size)
      PROVE  Inv'
  <2>1. TypeOK' /\ CallInv' /\ ToldInv'
    BY <1>0, <1>4, AskType, AskCalls, AskTold
  <2>2. /\ call'[c].step = "asked" /\ call'[c].answer = call[c].answer
        /\ \A d \in Calls : d # c => call'[d] = call[d]
    BY <1>0, <1>4, AskCalls
  <2>3. cat' = cat /\ held' = held /\ given' = given /\ flying' = flying /\ blocks' = blocks
    BY <1>4 DEF Ask
  <2>4. PlacesInv'
    BY <1>0, <2>1, <2>2, <2>3, CallPlaces
  <2>5. SetIsSeen'
    BY <1>0, <2>3 DEF SetIsSeen
  <2> QED
    BY <2>1, <2>4, <2>5 DEF Inv
<1>5. ASSUME HearBlock(c)
      PROVE  Inv'
  <2>1. TypeOK' /\ CallInv' /\ ToldInv' /\ PlacesInv'
    BY <1>0, <1>5, HearBlockType, HearBlockCalls, HearBlockTold, HearBlockPlaces
  <2>2. SetIsSeen'
    BY <1>0, <1>5 DEF SetIsSeen, HearBlock
  <2> QED
    BY <2>1, <2>2 DEF Inv
<1>6. ASSUME Give(c)
      PROVE  Inv'
  <2>1. TypeOK' /\ CallInv'
    BY <1>0, <1>6, GiveIs, GiveCalls
  <2>2. ToldInv' /\ PlacesInv' /\ SetIsSeen'
    BY <1>0, <1>6, GiveTold, GivePlaces, GiveSeen
  <2> QED
    BY <2>1, <2>2 DEF Inv
<1>7. ASSUME FinishSet(c)
      PROVE  Inv'
  <2>1. TypeOK' /\ CallInv' /\ ToldInv'
    BY <1>0, <1>7, FinishSetType, FinishSetCalls, FinishSetTold
  <2>2. call'[c] = NoCall /\ \A d \in Calls : d # c => call'[d] = call[d]
    BY <1>0, <1>7, FinishSetCalls
  <2>3. /\ cat' = cat /\ held' = held /\ given' = given /\ flying' = flying
        /\ \A i \in Nodes, s \in Names : blocks'[i][s] \in {blocks[i][s], NoBlock}
    BY <1>0, <1>7, CallIs DEF FinishSet, WithoutBlock, TypeOK
  <2>4. PlacesInv'
    BY <1>0, <1>n, <2>1, <2>2, <2>3, CallPlaces
  <2>5. SetIsSeen'
    BY <1>0, <2>3 DEF SetIsSeen
  <2> QED
    BY <2>1, <2>4, <2>5 DEF Inv
<1>8. ASSUME Fail(c)
      PROVE  Inv'
  <2>1. TypeOK' /\ CallInv' /\ ToldInv'
    BY <1>0, <1>8, FailType, FailCalls, FailTold
  <2>2. call'[c] = NoCall /\ \A d \in Calls : d # c => call'[d] = call[d]
    BY <1>0, <1>8, FailCalls
  <2>3. cat' = cat /\ held' = held /\ given' = given /\ blocks' = blocks /\ LeftBy({c})
    BY <1>8 DEF Fail
  <2>4. /\ DOMAIN flying' = DOMAIN flying
        /\ \A j \in DOMAIN flying : flying'[j].to = flying[j].to /\ flying'[j].answer = flying[j].answer
    BY <1>0, <2>3, LeftByType
  <2>5. PlacesInv'
    BY <1>0, <1>n, <2>1, <2>2, <2>3, <2>4, CallPlaces
  <2>6. SetIsSeen'
    BY <1>0, <2>3 DEF SetIsSeen
  <2> QED
    BY <2>1, <2>5, <2>6 DEF Inv
<1> QED
  BY <1>1, <1>2, <1>3, <1>4, <1>5, <1>6, <1>7, <1>8

\* A node's step.
LEMMA NodeStep ==
  ASSUME Inv, NEW i \in Nodes, See(i) \/ Restart(i)
  PROVE  Inv'
<1>0. TypeOK /\ CallInv /\ PlacesInv /\ ToldInv /\ SetIsSeen
  BY DEF Inv
<1>1. ASSUME See(i)
      PROVE  Inv'
  <2>1. /\ nodeOf' = nodeOf /\ cat' = cat /\ flying' = flying /\ held' = held /\ blocks' = blocks /\ lock' = lock
        /\ call' = call /\ given' = given /\ told' = told
    BY <1>1 DEF See
  <2>2. TypeOK'
    BY <1>0, <1>1, SeeType
  <2>3. CallInv'
    BY <1>0, <2>1 DEF CallInv, Holding
  <2>4. PlacesInv'
    BY <1>0, <2>1, <2>2, Fewer
  <2>5. ToldInv'
    BY <1>0, <2>1 DEF ToldInv, CallTold, WriteTold, ToldTo
  <2>6. SetIsSeen'
    BY <1>0, <2>1 DEF SetIsSeen
  <2> QED
    BY <2>2, <2>3, <2>4, <2>5, <2>6 DEF Inv
<1>2. ASSUME Restart(i)
      PROVE  Inv'
  <2>1. TypeOK' /\ CallInv' /\ ToldInv'
    BY <1>0, <1>2, RestartType, RestartCalls, RestartTold
  <2>2. \A c \in Calls : call'[c] = call[c] \/ call'[c] = NoCall
    BY <1>0, <1>2, RestartCalls
  <2>3. /\ cat' = cat /\ held' = held /\ given' = given /\ LeftBy({c \in Calls : nodeOf[c] = i})
        /\ \A n \in Nodes, s \in Names : blocks'[n][s] \in {blocks[n][s], NoBlock}
    BY <1>0, <1>2 DEF Restart, TypeOK
  <2>4. /\ DOMAIN flying' = DOMAIN flying
        /\ \A j \in DOMAIN flying : flying'[j].to = flying[j].to /\ flying'[j].answer = flying[j].answer
    BY <1>0, <2>3, LeftByType
  <2>5. \A c \in Calls :
           /\ call'[c].answer \in {call[c].answer, NoBlock}
           /\ call'[c].step = "answered" /\ ~call'[c].set => call[c].step = "answered" /\ ~call[c].set
    BY <2>2, NoCallType
  <2>6. PlacesInv'
    BY <1>0, <2>1, <2>3, <2>4, <2>5, Fewer
  <2>7. SetIsSeen'
    BY <1>0, <2>3 DEF SetIsSeen
  <2> QED
    BY <2>1, <2>6, <2>7 DEF Inv
<1> QED
  BY <1>1, <1>2

\* A write that becomes durable, and a takeover.
LEMMA CommitStep ==
  ASSUME Inv, Durable \/ \E k \in 0 .. Len(flying) : TakeOver(k)
  PROVE  Inv'
<1>0. TypeOK /\ CallInv /\ PlacesInv /\ ToldInv /\ SetIsSeen
  BY DEF Inv
<1>1. ASSUME Durable
      PROVE  Inv'
  <2>1. TypeOK' /\ CallInv' /\ PlacesInv' /\ ToldInv'
    BY <1>0, <1>1, DurableType, DurableCalls, DurablePlaces, DurableTold
  <2>2. SetIsSeen'
    BY <1>0, <1>1 DEF SetIsSeen, Durable
  <2> QED
    BY <2>1, <2>2 DEF Inv
<1>2. ASSUME NEW k \in 0 .. Len(flying), TakeOver(k)
      PROVE  Inv'
  <2>1. TypeOK' /\ PlacesInv' /\ ToldInv' /\ flying' = <<>>
    BY <1>0, <1>2, TakeOverType, TakeOverPlaces, TakeOverTold
  <2>2. CallInv'
    <3>1. DOMAIN flying' = {} /\ call' = call /\ lock' = lock /\ nodeOf' = nodeOf
      BY <1>2, <2>1 DEF TakeOver
    <3> QED
      BY <1>0, <3>1 DEF CallInv, Holding
  <2>3. SetIsSeen'
    BY <1>0, <1>2 DEF SetIsSeen, TakeOver
  <2> QED
    BY <2>1, <2>2, <2>3 DEF Inv
<1> QED
  BY <1>1, <1>2

\* ... and over every step.
LEMMA NextInv ==
  ASSUME Inv, [Next]_vars
  PROVE  Inv'
<1>0. TypeOK /\ HeldInv /\ CallInv
  BY DEF Inv, PlacesInv
<1>1. CASE \E c \in Calls :
              \/ \E s \in Names : \/ \E want \in 1 .. Most : StartNext(c, s, want)
                                  \/ \E to \in Settings : StartSet(c, s, to)
              \/ Lock(c) \/ HearBlock(c) \/ Give(c) \/ FinishSet(c) \/ Fail(c)
              \/ \E size \in Sizes : Ask(c, size)
  BY <1>1, CallStep
<1>2. ASSUME NEW c \in Calls, OrderTake(c) \/ OrderSet(c)
      PROVE  Inv'
  <2>1. \E counters, answer : Ordering(counters, c, answer)
    BY <1>0, <1>2, TakeOrders, SetOrders
  <2> QED
    BY <2>1, OrderingStep
<1>3. CASE Statements
  <2>1. \E counters : Ordering(counters, Nothing, NoBlock)
    BY <1>0, <1>3, StatementsOrder
  <2> QED
    BY <2>1, OrderingStep
<1>4. CASE Durable \/ \E k \in 0 .. Len(flying) : TakeOver(k)
  BY <1>4, CommitStep
<1>5. CASE \E i \in Nodes : See(i) \/ Restart(i)
  BY <1>5, NodeStep
<1>6. CASE UNCHANGED vars
  <2>1. /\ nodeOf' = nodeOf /\ cat' = cat /\ flying' = flying /\ held' = held /\ seen' = seen /\ blocks' = blocks
        /\ lock' = lock /\ call' = call /\ given' = given /\ told' = told /\ takeovers' = takeovers
    BY <1>6 DEF vars
  <2>2. TypeOK'
    BY <1>0, <2>1 DEF TypeOK
  <2>3. CallInv'
    BY <1>0, <2>1 DEF CallInv, Holding
  <2>4. PlacesInv'
    BY <2>1, <2>2, Fewer DEF Inv
  <2>5. ToldInv'
    BY <2>1 DEF Inv, ToldInv, CallTold, WriteTold, ToldTo
  <2>6. SetIsSeen'
    BY <2>1 DEF Inv, SetIsSeen
  <2> QED
    BY <2>2, <2>3, <2>4, <2>5, <2>6 DEF Inv
<1> QED
  BY <1>1, <1>2, <1>3, <1>4, <1>5, <1>6 DEF Next, Statements

\* Two values that are one are at one place.
LEMMA ApartTwice ==
  ASSUME Inv
  PROVE  NeverTwice
<1> SUFFICES ASSUME NEW i \in Nodes, NEW j \in Nodes, NEW g \in DOMAIN given[i], NEW h \in DOMAIN given[j],
                    given[i][g].life = given[j][h].life, given[i][g].value = given[j][h].value
             PROVE  i = j /\ g = h
  BY DEF NeverTwice
<1> DEFINE l == given[i][g].life
           v == given[i][g].value
<1>1. Has("given", i, g, l, v) /\ Has("given", j, h, l, v)
  BY DEF Has
<1> QED
  BY <1>1 DEF Inv, PlacesInv, ApartInv

-----------------------------------------------------------------------------
(* What holds always                                                       *)

\* So it holds always: the inductive invariant, of types, calls, places of values, and what `setval`s were told.
THEOREM Inductive == Spec => []Inv
<1>1. Init => Inv
  BY InitInv
<1>2. Inv /\ [Next]_vars => Inv'
  BY NextInv
<1> QED
  BY <1>1, <1>2, PTL DEF Spec

\* Type correctness, for any calls, nodes, names, shapes, sizes and bounds.
THEOREM TypeCorrect == Spec => []TypeOK
<1>1. Inv => TypeOK
  BY DEF Inv
<1> QED
  BY <1>1, Inductive, PTL

\* A value of a sequence's life is handed out once, by whichever node: over takeovers that lose the writes
\* on their way and what the sequencer held of them, restarts, renames and calls that fail (seq.rs `take`,
\* objects.rs:103).
THEOREM NeverGivenTwice == Spec => []NeverTwice
<1>1. Inv => NeverTwice
  BY ApartTwice
<1> QED
  BY <1>1, Inductive, PTL

\* What a node hands out to a call that began after a `setval` returned there was taken after that `setval`
\* (seq.rs `set`, which drops the node's own block before it returns).
THEOREM SetIsSeenAfter == Spec => []SetIsSeen
<1>1. Inv => SetIsSeen
  BY DEF Inv
<1> QED
  BY <1>1, Inductive, PTL

==============================================================================
