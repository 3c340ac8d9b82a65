--------------------------- MODULE RowLocks_proofs ---------------------------
(***************************************************************************)
(* What holds of row locks for any owners, keys, tables, lease and number   *)
(* of requests: the Table's indexes agree, an owner holds what it was told  *)
(* it holds while its lease lasts, the queues are first come first served,  *)
(* waits form no loop, and a writer inside the gate has no append between.  *)
(*                                                                         *)
(* The Table first: every operation of it keeps it Well, and moves it only  *)
(* as Moves, InTurn and Shrinks say.  Each step of a request, an owner, the *)
(* gate, a sweep and the clock is then one of these operations (the *Does   *)
(* lemmas), and keeps the inductive invariant IInv (the *Keeps lemmas).     *)
(*                                                                         *)
(* Two results assume more than the model's constants do, and need it.      *)
(* NeverALoop: no lease runs out though its owner is at work or waits       *)
(* (~Stalls); `ahead` counts no lapsed holder, so one that a late renewal   *)
(* revives before its key was settled closes a loop no `ask` looked at.     *)
(* NeverInBetween: autocommitted writes run next to the Table; one on a     *)
(* follower may hear the grant of a request it has asked again since.       *)
(***************************************************************************)
EXTENDS RowLocks, FiniteSetTheorems, SequenceTheorems, WellFoundedInduction, TLAPS

\* A place stands in a queue once.
Distinct(q) == \A i, j \in 1 .. Len(q) : q[i] = q[j] => i = j

\* The owners at the front of a queue, up to the first place of `o`.
Front(q, o) == {OwnerOf(q[i]) : i \in {j \in 1 .. Len(q) : \A m \in 1 .. j : OwnerOf(q[m]) # o}}

LEMMA OwnerIn == \A c \in Calls : OwnerOf(c) \in Owners
BY DEF Calls, OwnerOf

\* Where a place stands in a queue.
LEMMA PlaceIs ==
    ASSUME NEW q \in Seq(Calls), NEW c, Stands(q, c)
    PROVE  Place(q, c) \in 1 .. Len(q) /\ q[Place(q, c)] = c
BY DEF Place, Stands

\* Whom a place stands behind: the live holder of its key, and the queue before it.
LEMMA AheadIn ==
    ASSUME NEW t, NEW u, NEW k, NEW o, Front(u.queue[k], o) \subseteq Front(t.queue[k], o),
           \A p \in Owners : p = u.holder[k] /\ p # o /\ Live(u, p) => p = t.holder[k] /\ Live(t, p)
    PROVE  Ahead(u, k, o) \subseteq Ahead(t, k, o)
<1>1. \A v : Ahead(v, k, o) = {p \in Owners : p = v.holder[k] /\ p # o /\ Live(v, p)} \cup Front(v.queue[k], o)
  BY DEF Ahead, Front
<1> QED BY <1>1

LEMMA AheadSame ==
    ASSUME NEW t, NEW u, NEW k, NEW o, Front(u.queue[k], o) = Front(t.queue[k], o),
           u.holder[k] = t.holder[k], \A p \in Owners : u.leases[p] = t.leases[p]
    PROVE  Ahead(u, k, o) = Ahead(t, k, o)
<1>1. \A p \in Owners : Live(u, p) <=> Live(t, p)  BY DEF Live
<1>2. Ahead(u, k, o) \subseteq Ahead(t, k, o)  BY <1>1, AheadIn
<1>3. Ahead(t, k, o) \subseteq Ahead(u, k, o)  BY <1>1, AheadIn
<1> QED BY <1>2, <1>3

\* A queue without its i-th place.
LEMMA CutIs ==
    ASSUME NEW q \in Seq(Calls), NEW i \in 1 .. Len(q)
    PROVE  LET r == SubSeq(q, 1, i - 1) \o SubSeq(q, i + 1, Len(q)) IN
           /\ r \in Seq(Calls)
           /\ Len(r) = Len(q) - 1
           /\ \A j \in 1 .. Len(q) - 1 : r[j] = IF j < i THEN q[j] ELSE q[j + 1]
<1>1. /\ SubSeq(q, 1, i - 1) \in Seq(Calls)
      /\ Len(SubSeq(q, 1, i - 1)) = i - 1
      /\ \A j \in 1 .. i - 1 : SubSeq(q, 1, i - 1)[j] = q[j]
  OBVIOUS
<1>2. /\ SubSeq(q, i + 1, Len(q)) \in Seq(Calls)
      /\ Len(SubSeq(q, i + 1, Len(q))) = Len(q) - i
      /\ \A j \in 1 .. Len(q) - i : SubSeq(q, i + 1, Len(q))[j] = q[i + j]
  OBVIOUS
<1> DEFINE a == SubSeq(q, 1, i - 1)
           b == SubSeq(q, i + 1, Len(q))
<1>3. /\ a \in Seq(Calls) /\ Len(a) = i - 1 /\ \A j \in 1 .. i - 1 : a[j] = q[j]
      /\ b \in Seq(Calls) /\ Len(b) = Len(q) - i /\ \A j \in 1 .. Len(q) - i : b[j] = q[i + j]
  BY <1>1, <1>2
<1> HIDE DEF a, b
<1>4. /\ a \o b \in Seq(Calls)
      /\ Len(a \o b) = Len(q) - 1
      /\ \A j \in 1 .. Len(q) - 1 : (a \o b)[j] = IF j < i THEN q[j] ELSE q[j + 1]
  <2>1. a \o b \in Seq(Calls) /\ Len(a \o b) = Len(a) + Len(b)  BY <1>3, ConcatProperties
  <2>2. \A j \in 1 .. Len(a) + Len(b) : (a \o b)[j] = IF j <= Len(a) THEN a[j] ELSE b[j - Len(a)]
    BY <1>3, ConcatProperties
  <2>3. Len(q) \in Nat  OBVIOUS
  <2>4. Len(a \o b) = Len(q) - 1  BY <2>1, <2>3, <1>3
  <2>5. ASSUME NEW j \in 1 .. Len(q) - 1 PROVE (a \o b)[j] = IF j < i THEN q[j] ELSE q[j + 1]
    <3>1. (a \o b)[j] = IF j <= i - 1 THEN a[j] ELSE b[j - (i - 1)]  BY <2>2, <2>3, <1>3
    <3>2. CASE j < i
      <4>1. j \in 1 .. i - 1  BY <3>2, <2>3
      <4> QED BY <4>1, <3>1, <3>2, <1>3
    <3>3. CASE j >= i
      <4>1. j - (i - 1) \in 1 .. Len(q) - i /\ i + (j - (i - 1)) = j + 1  BY <3>3, <2>3
      <4>2. b[j - (i - 1)] = q[j + 1]  BY <4>1, <1>3
      <4> QED BY <4>2, <3>1, <3>3, <2>3
    <3>4. j < i \/ j >= i  OBVIOUS
    <3> QED BY ONLY <3>2, <3>3, <3>4
  <2> QED BY <2>1, <2>4, <2>5
<1> QED BY <1>4 DEF a, b

\* A place that leaves a queue in which places are told apart: the others stay, in their order.
LEMMA WithoutIs ==
    ASSUME NEW q \in Seq(Calls), Distinct(q), NEW c
    PROVE  /\ Without(q, c) \in Seq(Calls)
           /\ Distinct(Without(q, c))
           /\ \A d : Stands(Without(q, c), d) <=> Stands(q, d) /\ d # c
           /\ \A d, e : Behind(q, d, e) /\ d # c => Behind(Without(q, c), d, e)
           /\ \A o \in Owners : o # OwnerOf(c) => Front(Without(q, c), o) \subseteq Front(q, o)
<1>1. CASE ~Stands(q, c)
  BY <1>1 DEF Without
<1>2. CASE Stands(q, c)
  <2> PICK i \in 1 .. Len(q) : q[i] = c /\ i = Place(q, c)  BY <1>2, PlaceIs
  <2> DEFINE r == Without(q, c)
  <2>1. r = SubSeq(q, 1, i - 1) \o SubSeq(q, i + 1, Len(q))  BY <1>2 DEF Without
  <2>2. /\ r \in Seq(Calls)
        /\ Len(r) = Len(q) - 1
        /\ \A j \in 1 .. Len(q) - 1 : r[j] = IF j < i THEN q[j] ELSE q[j + 1]
    <3> HIDE DEF r
    <3> QED BY <2>1, CutIs
  <2> HIDE DEF r
  <2>i. ASSUME NEW m \in 1 .. Len(r) PROVE \E a \in 1 .. Len(q) : q[a] = r[m] /\ a = IF m < i THEN m ELSE m + 1
    BY <2>2
  <2>3. ASSUME NEW m \in 1 .. Len(r), NEW n \in 1 .. Len(r), r[m] = r[n] PROVE m = n
    <3> PICK a \in 1 .. Len(q) : q[a] = r[m] /\ a = IF m < i THEN m ELSE m + 1  BY <2>i
    <3> PICK b \in 1 .. Len(q) : q[b] = r[n] /\ b = IF n < i THEN n ELSE n + 1  BY <2>i
    <3>1. a = b  BY <2>3 DEF Distinct
    <3> QED BY <3>1, <2>2
  <2>4. \A d : Stands(r, d) <=> Stands(q, d) /\ d # c
    <3> SUFFICES ASSUME NEW d PROVE Stands(r, d) <=> Stands(q, d) /\ d # c  OBVIOUS
    <3>1. ASSUME Stands(r, d) PROVE Stands(q, d) /\ d # c
      BY <3>1, <2>2 DEF Stands, Distinct
    <3>2. ASSUME Stands(q, d), d # c PROVE Stands(r, d)
      <4> PICK j \in 1 .. Len(q) : q[j] = d  BY <3>2 DEF Stands
      <4>1. CASE j < i
        <5>1. j \in 1 .. Len(q) - 1 /\ r[j] = d  BY <4>1, <2>2
        <5> QED BY <5>1, <2>2 DEF Stands
      <4>2. CASE j > i
        <5>1. j - 1 \in 1 .. Len(q) - 1 /\ r[j - 1] = d  BY <4>2, <2>2
        <5> QED BY <5>1, <2>2 DEF Stands
      <4> QED BY <3>2, <4>1, <4>2
    <3> QED BY <3>1, <3>2
  <2>5. ASSUME NEW d, NEW e, Behind(q, d, e), d # c PROVE Behind(r, d, e)
    <3>1. Stands(r, d)  BY <2>4, <2>5 DEF Behind
    <3>2. ASSUME NEW m \in 1 .. Len(r), NEW n \in 1 .. Len(r), r[m] = d, r[n] = e PROVE m <= n
      <4> PICK a \in 1 .. Len(q) : q[a] = d /\ a = IF m < i THEN m ELSE m + 1  BY <2>i, <3>2
      <4> PICK b \in 1 .. Len(q) : q[b] = e /\ b = IF n < i THEN n ELSE n + 1  BY <2>i, <3>2
      <4>1. a <= b  BY <2>5 DEF Behind
      <4> QED BY <4>1, <2>2
    <3> QED BY <3>1, <3>2 DEF Behind
  <2>6. \A o \in Owners : o # OwnerOf(c) => Front(r, o) \subseteq Front(q, o)
    <3> SUFFICES ASSUME NEW o \in Owners, o # OwnerOf(c), NEW j \in 1 .. Len(r), \A m \in 1 .. j : OwnerOf(r[m]) # o
                 PROVE  OwnerOf(r[j]) \in Front(q, o)
      BY DEF Front
    <3>1. CASE j < i
      <4>1. j \in 1 .. Len(q) /\ q[j] = r[j]  BY <3>1, <2>2, SMTT(60)
      <4>2. \A m \in 1 .. j : q[m] = r[m]  BY <3>1, <2>2, SMTT(60)
      <4> QED BY <4>1, <4>2 DEF Front
    <3>2. CASE j >= i
      <4>1. j + 1 \in 1 .. Len(q) /\ q[j + 1] = r[j]  BY <3>2, <2>2
      <4>2. ASSUME NEW m \in 1 .. j + 1 PROVE OwnerOf(q[m]) # o
        <5>1. CASE m < i
          <6>1. m \in 1 .. j /\ q[m] = r[m]  BY <5>1, <3>2, <2>2
          <6> QED BY <6>1
        <5>2. CASE m = i  BY <5>2
        <5>3. CASE m > i
          <6>1. m - 1 \in 1 .. j /\ q[m] = r[m - 1]  BY <5>3, <3>2, <2>2, SMTT(60)
          <6> QED BY <6>1
        <5> QED BY <5>1, <5>2, <5>3
      <4> QED BY <4>1, <4>2 DEF Front
    <3> QED BY <3>1, <3>2, <2>2
  <2>7. Distinct(r)  BY <2>3 DEF Distinct
  <2> QED BY <2>2, <2>4, <2>5, <2>6, <2>7 DEF r
<1> QED BY <1>1, <1>2

\* The first place leaves the queue.
LEMMA TailIs ==
    ASSUME NEW q \in Seq(Calls), Distinct(q), q # <<>>
    PROVE  /\ Tail(q) \in Seq(Calls)
           /\ Head(q) \in Calls
           /\ Distinct(Tail(q))
           /\ Stands(q, Head(q))
           /\ \A d : Stands(Tail(q), d) <=> Stands(q, d) /\ d # Head(q)
           /\ \A d, e : Behind(q, d, e) /\ d # Head(q) => Behind(Tail(q), d, e)
           /\ \A d : Behind(q, d, Head(q)) => d = Head(q)
           /\ \A o \in Owners : o # OwnerOf(Head(q)) =>
                  Front(Tail(q), o) \subseteq Front(q, o) /\ OwnerOf(Head(q)) \in Front(q, o)
<1> DEFINE r == Tail(q)
<1>1. /\ r \in Seq(Calls)
      /\ Len(q) > 0 /\ Len(r) = Len(q) - 1
      /\ \A j \in 1 .. Len(r) : r[j] = q[j + 1]
      /\ Head(q) = q[1]
      /\ Head(q) \in Calls
  OBVIOUS
<1> HIDE DEF r
<1>2. Distinct(r)  BY <1>1 DEF Distinct
<1>3. Stands(q, Head(q))  BY <1>1 DEF Stands
<1>4. \A d : Stands(r, d) <=> Stands(q, d) /\ d # Head(q)
  <2> SUFFICES ASSUME NEW d PROVE Stands(r, d) <=> Stands(q, d) /\ d # Head(q)  OBVIOUS
  <2>1. ASSUME Stands(r, d) PROVE Stands(q, d) /\ d # Head(q)
    BY <2>1, <1>1 DEF Stands, Distinct
  <2>2. ASSUME Stands(q, d), d # Head(q) PROVE Stands(r, d)
    <3> PICK j \in 1 .. Len(q) : q[j] = d  BY <2>2 DEF Stands
    <3>1. j - 1 \in 1 .. Len(r) /\ r[j - 1] = d  BY <2>2, <1>1
    <3> QED BY <3>1 DEF Stands
  <2> QED BY <2>1, <2>2
<1>5. \A d, e : Behind(q, d, e) /\ d # Head(q) => Behind(r, d, e)
  BY <1>1, <1>4 DEF Behind
<1>6. \A d : Behind(q, d, Head(q)) => d = Head(q)
  BY <1>1 DEF Behind, Stands
<1>7. ASSUME NEW o \in Owners, o # OwnerOf(Head(q))
      PROVE  Front(r, o) \subseteq Front(q, o) /\ OwnerOf(Head(q)) \in Front(q, o)
  <2>1. OwnerOf(Head(q)) \in Front(q, o)
    <3>1. 1 \in 1 .. Len(q) /\ \A m \in 1 .. 1 : OwnerOf(q[m]) # o  BY <1>1, <1>7
    <3> QED BY <3>1, <1>1 DEF Front
  <2>2. ASSUME NEW j \in 1 .. Len(r), \A m \in 1 .. j : OwnerOf(r[m]) # o
        PROVE  OwnerOf(r[j]) \in Front(q, o)
    <3>1. j + 1 \in 1 .. Len(q) /\ q[j + 1] = r[j]  BY <1>1
    <3>2. ASSUME NEW m \in 1 .. j + 1 PROVE OwnerOf(q[m]) # o
      <4>1. CASE m = 1  BY <4>1, <1>1, <1>7
      <4>2. CASE m # 1
        <5>1. m - 1 \in 1 .. j /\ q[m] = r[m - 1]  BY <4>2, <1>1
        <5> QED BY <5>1, <2>2
      <4> QED BY <4>1, <4>2
    <3> QED BY <3>1, <3>2 DEF Front
  <2> QED BY <2>1, <2>2 DEF Front
<1> QED BY <1>1, <1>2, <1>3, <1>4, <1>5, <1>6, <1>7 DEF r

\* A place comes to the end of the queue.
LEMMA AppendIs ==
    ASSUME NEW q \in Seq(Calls), Distinct(q), NEW c \in Calls, ~Stands(q, c)
    PROVE  /\ Append(q, c) \in Seq(Calls)
           /\ Append(q, c) # <<>>
           /\ Distinct(Append(q, c))
           /\ \A d : Stands(Append(q, c), d) <=> Stands(q, d) \/ d = c
           /\ \A d, e : Behind(q, d, e) => Behind(Append(q, c), d, e)
           /\ Front(Append(q, c), OwnerOf(c)) = Front(q, OwnerOf(c))
           /\ \A o \in Owners : (\E d : Stands(q, d) /\ OwnerOf(d) = o) => Front(Append(q, c), o) = Front(q, o)
<1> DEFINE r == Append(q, c)
<1>1. /\ r \in Seq(Calls)
      /\ Len(r) = Len(q) + 1
      /\ \A j \in 1 .. Len(q) : r[j] = q[j]
      /\ r[Len(q) + 1] = c
      /\ r # <<>>
      /\ Len(q) \in Nat
  OBVIOUS
<1> HIDE DEF r
<1>2. Distinct(r)  BY <1>1 DEF Distinct, Stands
<1>3. \A d : Stands(r, d) <=> Stands(q, d) \/ d = c
  <2> SUFFICES ASSUME NEW d PROVE Stands(r, d) <=> Stands(q, d) \/ d = c  OBVIOUS
  <2>1. ASSUME Stands(r, d) PROVE Stands(q, d) \/ d = c
    BY <2>1, <1>1 DEF Stands
  <2>2. ASSUME Stands(q, d) PROVE Stands(r, d)
    BY <2>2, <1>1 DEF Stands
  <2>3. Stands(r, c)
    <3>1. Len(q) + 1 \in 1 .. Len(r)  BY <1>1
    <3> QED BY <3>1, <1>1 DEF Stands
  <2> QED BY <2>1, <2>2, <2>3
<1>4. ASSUME NEW d, NEW e, Behind(q, d, e) PROVE Behind(r, d, e)
  <2>1. Stands(r, d)  BY <1>3, <1>4 DEF Behind
  <2>2. d # c  BY <1>4 DEF Behind
  <2>3. ASSUME NEW i \in 1 .. Len(r), NEW j \in 1 .. Len(r), r[i] = d, r[j] = e PROVE i <= j
    <3>1. i \in 1 .. Len(q)  BY <2>2, <2>3, <1>1
    <3> QED BY <2>3, <3>1, <1>1, <1>4 DEF Behind
  <2> QED BY <2>1, <2>3 DEF Behind
<1>5. ASSUME NEW o \in Owners, NEW n \in 1 .. Len(r), OwnerOf(r[n]) = o, n <= Len(q) \/ n = Len(q) + 1
      PROVE  Front(r, o) = {OwnerOf(q[i]) : i \in {j \in 1 .. n - 1 : \A m \in 1 .. j : OwnerOf(q[m]) # o}}
  <2>1. ASSUME NEW j \in 1 .. Len(r), \A m \in 1 .. j : OwnerOf(r[m]) # o
        PROVE  j \in 1 .. n - 1 /\ r[j] = q[j] /\ \A m \in 1 .. j : OwnerOf(q[m]) # o
    <3>1. j < n  BY <2>1, <1>5
    <3> QED BY <3>1, <2>1, <1>1
  <2>2. ASSUME NEW j \in 1 .. n - 1, \A m \in 1 .. j : OwnerOf(q[m]) # o
        PROVE  j \in 1 .. Len(r) /\ r[j] = q[j] /\ \A m \in 1 .. j : OwnerOf(r[m]) # o
    BY <2>2, <1>1
  <2> QED BY <2>1, <2>2 DEF Front
<1>6. Front(r, OwnerOf(c)) = Front(q, OwnerOf(c))
  <2>1. Len(q) + 1 \in 1 .. Len(r)  BY <1>1
  <2>2. Len(q) + 1 - 1 = Len(q)  BY <1>1
  <2> PICK n \in 1 .. Len(r) : n = Len(q) + 1  BY <2>1
  <2>a. OwnerOf(r[n]) = OwnerOf(c)  BY <1>1
  <2>b. n - 1 = Len(q)  BY <2>2
  <2> PICK o \in Owners : o = OwnerOf(c)  BY OwnerIn
  <2>3. Front(r, o) = {OwnerOf(q[i]) : i \in {j \in 1 .. n - 1 : \A m \in 1 .. j : OwnerOf(q[m]) # o}}
    <3>1. n <= Len(q) \/ n = Len(q) + 1  BY <2>a
    <3> HIDE DEF Front
    <3> QED BY <1>5, <2>a, <3>1
  <2>4. Front(r, o) = Front(q, o)  BY <2>b, <2>3 DEF Front
  <2> QED BY <2>4
<1>7. ASSUME NEW o \in Owners, NEW d, Stands(q, d), OwnerOf(d) = o PROVE Front(r, o) = Front(q, o)
  <2> PICK n \in 1 .. Len(q) : q[n] = d  BY <1>7 DEF Stands
  <2>1. n \in 1 .. Len(r) /\ OwnerOf(r[n]) = o  BY <1>1, <1>7
  <2>2. Front(r, o) = {OwnerOf(q[i]) : i \in {j \in 1 .. n - 1 : \A m \in 1 .. j : OwnerOf(q[m]) # o}}
    BY <1>5, <2>1
  <2>3. {j \in 1 .. Len(q) : \A m \in 1 .. j : OwnerOf(q[m]) # o} = {j \in 1 .. n - 1 : \A m \in 1 .. j : OwnerOf(q[m]) # o}
    <3>1. ASSUME NEW j \in 1 .. Len(q), \A m \in 1 .. j : OwnerOf(q[m]) # o PROVE j \in 1 .. n - 1
      BY <3>1, <1>7
    <3> QED BY <3>1
  <2> QED BY <2>2, <2>3 DEF Front
<1> QED BY <1>1, <1>2, <1>3, <1>4, <1>6, <1>7 DEF r

-----------------------------------------------------------------------------
(* The Table                                                               *)

\* A Table, but for the length of its queues.
Table0 == [holder : [Keys -> Owners \cup {Nobody}], queue : [Keys -> Seq(Calls)],
           held : [Owners -> SUBSET Keys], leases : [Owners -> Left], ended : [Owners -> Left],
           waiting : [Owners -> (Keys \X Calls) \cup {Nobody}], won : SUBSET Calls,
           flying : [Tables -> SUBSET Owners], closed : [Tables -> 0 .. 1], swept : Left]

\* Its indexes agree, places are told apart, and nobody stands in line for a key it holds.
Indexed(t) ==
    /\ \A o \in Owners, k \in Keys : k \in t.held[o] <=> t.holder[k] = o
    /\ \A o \in Owners, k \in Keys : \A c \in Calls :
           t.waiting[o] = <<k, c>> <=> OwnerOf(c) = o /\ Stands(t.queue[k], c)
    /\ \A k \in Keys : Distinct(t.queue[k])
    /\ \A k \in Keys : \A c \in Calls : Stands(t.queue[k], c) => t.holder[k] # OwnerOf(c)

Well(t) == t \in Table0 /\ Indexed(t)

\* Nobody stands in line for a key nobody holds.
Given(t, k) == t.queue[k] # <<>> => t.holder[k] # Nobody

LEMMA LeaseIs == Lease \in Nat /\ Lease > 0 /\ Lease \in Left /\ 0 \in Left
BY LeaseAssumption DEF Left

LEMMA NobodyIs == Nobody \notin Owners /\ \A k \in Keys : \A c \in Calls : Nobody # <<k, c>>
BY NobodyAssumption

LEMMA StandsIn == ASSUME NEW q \in Seq(Calls), NEW c, Stands(q, c) PROVE c \in Calls
BY DEF Stands

LEMMA EmptyIs == ASSUME NEW q \in Seq(Calls) PROVE q = <<>> <=> \A c : ~Stands(q, c)
<1>1. q # <<>> => Stands(q, q[1])
  <2> HAVE q # <<>>
  <2>1. 1 \in 1 .. Len(q)  OBVIOUS
  <2> QED BY <2>1 DEF Stands
<1>2. ASSUME NEW c, Stands(q, c) PROVE q # <<>>
  <2>1. Len(q) >= 1  BY <1>2 DEF Stands
  <2> QED BY <2>1
<1> QED BY <1>1, <1>2

\* The keys of `ks` that go to the first in line.
Won(t, ks) == {k \in ks : t.holder[k] = Nobody /\ t.queue[k] # <<>>}
First(t, k) == Head(t.queue[k])

LEMMA FirstIs ==
    ASSUME NEW t, Well(t), NEW ks \in SUBSET Keys, NEW k \in Won(t, ks)
    PROVE  /\ k \in Keys
           /\ First(t, k) \in Calls
           /\ OwnerOf(First(t, k)) \in Owners
           /\ t.waiting[OwnerOf(First(t, k))] = <<k, First(t, k)>>
<1>1. k \in Keys /\ t.queue[k] \in Seq(Calls) /\ Distinct(t.queue[k]) /\ t.queue[k] # <<>>
  BY DEF Won, Well, Indexed, Table0
<1>2. First(t, k) \in Calls /\ Stands(t.queue[k], First(t, k))
  BY <1>1, TailIs DEF First
<1>3. OwnerOf(First(t, k)) \in Owners  BY <1>2, OwnerIn
<1> QED BY <1>1, <1>2, <1>3 DEF Well, Indexed

\* What a grant to the first in line changes (locks.rs, Table::settle).
LEMMA GiveFields ==
    ASSUME NEW t, Well(t), NEW ks \in SUBSET Keys
    PROVE  LET u == Give(t, ks) IN
           /\ u \in Table0
           /\ \A k \in Keys : u.holder[k] = IF k \in Won(t, ks) THEN OwnerOf(First(t, k)) ELSE t.holder[k]
           /\ \A k \in Keys : u.queue[k] = IF k \in Won(t, ks) THEN Tail(t.queue[k]) ELSE t.queue[k]
           /\ \A o \in Owners : u.held[o] = t.held[o] \cup {k \in Won(t, ks) : OwnerOf(First(t, k)) = o}
           /\ \A o \in Owners : u.leases[o] = IF \E k \in Won(t, ks) : OwnerOf(First(t, k)) = o THEN Lease ELSE t.leases[o]
           /\ \A o \in Owners : u.waiting[o] = IF \E k \in Won(t, ks) : t.waiting[o] = <<k, First(t, k)>>
                                              THEN Nobody ELSE t.waiting[o]
           /\ u.won = t.won \cup {First(t, k) : k \in Won(t, ks)}
           /\ u.ended = t.ended /\ u.flying = t.flying /\ u.closed = t.closed /\ u.swept = t.swept
<1> DEFINE W == Won(t, ks)
<1>0. W \subseteq Keys /\ W = {k \in ks : t.holder[k] = Nobody /\ t.queue[k] # <<>>}  BY DEF Won
<1>a. \A k \in W : First(t, k) \in Calls /\ OwnerOf(First(t, k)) \in Owners  BY FirstIs
<1>b. \A k \in W : Tail(t.queue[k]) \in Seq(Calls)
  BY <1>0, TailIs DEF Well, Indexed, Table0
<1> DEFINE first == [k \in W |-> Head(t.queue[k])]
           gets(o) == {k \in W : OwnerOf(first[k]) = o}
           H == [k \in Keys |-> IF k \in W THEN OwnerOf(first[k]) ELSE t.holder[k]]
           Q == [k \in Keys |-> IF k \in W THEN Tail(t.queue[k]) ELSE t.queue[k]]
           D == [o \in Owners |-> t.held[o] \cup gets(o)]
           L == [o \in Owners |-> IF gets(o) # {} THEN Lease ELSE t.leases[o]]
           A == [o \in Owners |-> IF \E k \in W : t.waiting[o] = <<k, first[k]>> THEN Nobody ELSE t.waiting[o]]
           N == t.won \cup {first[k] : k \in W}
<1>1. Give(t, ks) = [t EXCEPT !.holder = H, !.queue = Q, !.held = D, !.leases = L, !.waiting = A, !.won = N]
  BY DEF Give, Won
<1>c. \A k \in W : first[k] = First(t, k)  BY DEF First
<1>2. H \in [Keys -> Owners \cup {Nobody}]
  BY <1>a, <1>c DEF Well, Table0
<1>3. Q \in [Keys -> Seq(Calls)]
  BY <1>b DEF Well, Table0
<1>4. D \in [Owners -> SUBSET Keys]
  BY <1>0 DEF Well, Table0
<1>5. L \in [Owners -> Left]
  BY LeaseIs DEF Well, Table0
<1>6. A \in [Owners -> (Keys \X Calls) \cup {Nobody}]
  BY DEF Well, Table0
<1>7. N \in SUBSET Calls
  BY <1>a, <1>c DEF Well, Table0
<1>d. /\ \A k \in Keys : H[k] = IF k \in W THEN OwnerOf(First(t, k)) ELSE t.holder[k]
      /\ \A k \in Keys : Q[k] = IF k \in W THEN Tail(t.queue[k]) ELSE t.queue[k]
      /\ \A o \in Owners : D[o] = t.held[o] \cup {k \in W : OwnerOf(First(t, k)) = o}
      /\ \A o \in Owners : L[o] = IF \E k \in W : OwnerOf(First(t, k)) = o THEN Lease ELSE t.leases[o]
      /\ \A o \in Owners : A[o] = IF \E k \in W : t.waiting[o] = <<k, First(t, k)>> THEN Nobody ELSE t.waiting[o]
      /\ N = t.won \cup {First(t, k) : k \in W}
  BY <1>c
<1> HIDE DEF W, H, Q, D, L, A, N, first, gets
<1>8. Give(t, ks) \in Table0
  BY <1>1, <1>2, <1>3, <1>4, <1>5, <1>6, <1>7, ZenonT(60) DEF Well, Table0
<1>9. LET u == Give(t, ks) IN
      /\ u.holder = H /\ u.queue = Q /\ u.held = D /\ u.leases = L /\ u.waiting = A /\ u.won = N
      /\ u.ended = t.ended /\ u.flying = t.flying /\ u.closed = t.closed /\ u.swept = t.swept
  BY <1>1 DEF Well, Table0
<1> QED BY <1>8, <1>9, <1>d DEF W

\* ... it keeps the indexes, and leaves nobody in line for a free key;
LEMMA GiveWell ==
    ASSUME NEW t, Well(t), NEW ks \in SUBSET Keys
    PROVE  /\ Well(Give(t, ks))
           /\ \A k \in Keys : k \in ks \/ Given(t, k) => Given(Give(t, ks), k)
<1> DEFINE W == Won(t, ks)
           u == Give(t, ks)
<1>1. /\ u \in Table0
      /\ \A k \in Keys : u.holder[k] = IF k \in W THEN OwnerOf(First(t, k)) ELSE t.holder[k]
      /\ \A k \in Keys : u.queue[k] = IF k \in W THEN Tail(t.queue[k]) ELSE t.queue[k]
      /\ \A o \in Owners : u.held[o] = t.held[o] \cup {k \in W : OwnerOf(First(t, k)) = o}
      /\ \A o \in Owners : u.waiting[o] = IF \E k \in W : t.waiting[o] = <<k, First(t, k)>> THEN Nobody ELSE t.waiting[o]
  BY GiveFields
<1>2. \A k \in W : /\ k \in Keys /\ k \in ks /\ First(t, k) \in Calls /\ OwnerOf(First(t, k)) \in Owners
                   /\ t.waiting[OwnerOf(First(t, k))] = <<k, First(t, k)>>
                   /\ t.holder[k] = Nobody /\ t.queue[k] # <<>>
  BY FirstIs DEF Won
<1>3. \A k \in W : /\ Distinct(Tail(t.queue[k]))
                   /\ \A d : Stands(Tail(t.queue[k]), d) <=> Stands(t.queue[k], d) /\ d # First(t, k)
  BY <1>2, TailIs DEF First, Well, Indexed, Table0
<1>w. \A k \in ks : t.holder[k] = Nobody /\ t.queue[k] # <<>> => k \in W  BY DEF Won
<1> HIDE DEF u, W
<1>4. \A o \in Owners, k \in Keys : k \in u.held[o] <=> u.holder[k] = o
  <2> SUFFICES ASSUME NEW o \in Owners, NEW k \in Keys PROVE k \in u.held[o] <=> u.holder[k] = o  OBVIOUS
  <2>1. k \in t.held[o] <=> t.holder[k] = o  BY DEF Well, Indexed
  <2>2. CASE k \in W
    <3>1. k \notin t.held[o]  BY <2>1, <2>2, <1>2, NobodyIs
    <3> QED BY <3>1, <2>2, <1>1
  <2>3. CASE k \notin W  BY <2>1, <2>3, <1>1
  <2> QED BY <2>2, <2>3
<1>5. \A o \in Owners, k \in Keys : \A c \in Calls :
          u.waiting[o] = <<k, c>> <=> OwnerOf(c) = o /\ Stands(u.queue[k], c)
  <2> SUFFICES ASSUME NEW o \in Owners, NEW k \in Keys, NEW c \in Calls
               PROVE  u.waiting[o] = <<k, c>> <=> OwnerOf(c) = o /\ Stands(u.queue[k], c)
    OBVIOUS
  <2>1. t.waiting[o] = <<k, c>> <=> OwnerOf(c) = o /\ Stands(t.queue[k], c)  BY DEF Well, Indexed
  <2>2. u.waiting[o] = <<k, c>> <=> t.waiting[o] = <<k, c>> /\ ~ (k \in W /\ c = First(t, k))
    <3>1. u.waiting[o] = IF \E j \in W : t.waiting[o] = <<j, First(t, j)>> THEN Nobody ELSE t.waiting[o]  BY <1>1
    <3>2. ASSUME NEW j \in W, t.waiting[o] = <<j, First(t, j)>>
          PROVE  t.waiting[o] = <<k, c>> <=> k = j /\ c = First(t, j)
      BY <3>2
    <3>3. CASE \E j \in W : t.waiting[o] = <<j, First(t, j)>>
      <4> PICK j \in W : t.waiting[o] = <<j, First(t, j)>>  BY <3>3
      <4>1. u.waiting[o] = Nobody  BY <3>1
      <4>2. t.waiting[o] = <<k, c>> <=> k = j /\ c = First(t, j)  BY <3>2
      <4>3. u.waiting[o] # <<k, c>>  BY <4>1, NobodyIs
      <4> QED BY <4>2, <4>3
    <3>4. CASE ~ \E j \in W : t.waiting[o] = <<j, First(t, j)>>
      <4>1. u.waiting[o] = t.waiting[o]  BY <3>1, <3>4
      <4> QED BY <4>1, <3>4
    <3> QED BY <3>3, <3>4
  <2>3. Stands(u.queue[k], c) <=> Stands(t.queue[k], c) /\ ~ (k \in W /\ c = First(t, k))
    BY <1>1, <1>3
  <2> QED BY <2>1, <2>2, <2>3
<1>6. \A k \in Keys : Distinct(u.queue[k])
  BY <1>1, <1>3 DEF Well, Indexed
<1>7. \A k \in Keys : \A c \in Calls : Stands(u.queue[k], c) => u.holder[k] # OwnerOf(c)
  <2> SUFFICES ASSUME NEW k \in Keys, NEW c \in Calls, Stands(u.queue[k], c), u.holder[k] = OwnerOf(c) PROVE FALSE
    OBVIOUS
  <2>1. CASE k \in W
    <3>1. Stands(t.queue[k], c) /\ c # First(t, k) /\ OwnerOf(c) = OwnerOf(First(t, k))
      BY <2>1, <1>1, <1>3
    <3>2. t.waiting[OwnerOf(c)] = <<k, c>>  BY <3>1, OwnerIn DEF Well, Indexed
    <3> QED BY <3>1, <3>2, <2>1, <1>2
  <2>2. CASE k \notin W  BY <2>2, <1>1 DEF Well, Indexed
  <2> QED BY <2>1, <2>2
<1>8. ASSUME NEW k \in Keys, k \in ks \/ Given(t, k) PROVE Given(u, k)
  <2>1. CASE k \in W  BY <2>1, <1>1, <1>2, NobodyIs DEF Given
  <2>2. CASE k \notin W  BY <2>2, <1>1, <1>8, <1>w DEF Given
  <2> QED BY <2>1, <2>2
<1> QED BY <1>1, <1>4, <1>5, <1>6, <1>7, <1>8 DEF Well, Indexed, u

\* What a turn of the mutex may do to a table, short of letting an owner's keys go or asking for
\* one: leases are renewed, places leave the queues, and what is held under a lease stays.
Moves(t, u) ==
    /\ u.ended = t.ended /\ u.flying = t.flying /\ u.closed = t.closed /\ u.swept = t.swept
    /\ \A o \in Owners :
           /\ u.leases[o] \in {t.leases[o], Lease}
           /\ \/ u.held[o] \subseteq t.held[o]
              \/ u.leases[o] = Lease /\ t.waiting[o] # Nobody /\ u.waiting[o] = Nobody
    /\ \A o \in Owners : u.waiting[o] \in {t.waiting[o], Nobody}
    /\ \A o \in Owners : Live(t, o) => t.held[o] \subseteq u.held[o]
    /\ \A k \in Keys : \A c \in Calls : Stands(u.queue[k], c) => Stands(t.queue[k], c)
    /\ \A c \in u.won : c \in t.won \/ \E k \in Keys :
           /\ Stands(t.queue[k], c) /\ ~Stands(u.queue[k], c)
           /\ k \in u.held[OwnerOf(c)] /\ Live(u, OwnerOf(c))

\* First come, first served.
InTurn(t, u) ==
    \A k \in Keys : \A c, d \in Calls :
        c # d /\ Behind(t.queue[k], c, d) /\ Stands(u.queue[k], c) =>
            Behind(u.queue[k], c, d) /\ (Stands(t.queue[k], d) /\ d \in u.won => d \in t.won)

\* Nobody waits for anyone it didn't wait for, unless for one who waits for nobody.
Shrinks(t, u) ==
    \A o \in Owners : WaitsFor(u, o) \subseteq WaitsFor(t, o) \cup {p \in Owners : u.waiting[p] = Nobody}

\* ... it moves the Table only as a turn of the mutex may;
LEMMA GiveMoves ==
    ASSUME NEW t, Well(t), NEW ks \in SUBSET Keys
    PROVE  Moves(t, Give(t, ks)) /\ InTurn(t, Give(t, ks))
<1> DEFINE W == Won(t, ks)
           u == Give(t, ks)
<1>1. /\ u \in Table0
      /\ \A k \in Keys : u.queue[k] = IF k \in W THEN Tail(t.queue[k]) ELSE t.queue[k]
      /\ \A o \in Owners : u.held[o] = t.held[o] \cup {k \in W : OwnerOf(First(t, k)) = o}
      /\ \A o \in Owners : u.leases[o] = IF \E k \in W : OwnerOf(First(t, k)) = o THEN Lease ELSE t.leases[o]
      /\ \A o \in Owners : u.waiting[o] = IF \E k \in W : t.waiting[o] = <<k, First(t, k)>> THEN Nobody ELSE t.waiting[o]
      /\ u.won = t.won \cup {First(t, k) : k \in W}
      /\ u.ended = t.ended /\ u.flying = t.flying /\ u.closed = t.closed /\ u.swept = t.swept
  BY GiveFields
<1>2. \A k \in W : /\ k \in Keys /\ First(t, k) \in Calls /\ OwnerOf(First(t, k)) \in Owners
                   /\ t.waiting[OwnerOf(First(t, k))] = <<k, First(t, k)>>
  BY FirstIs
<1>3. \A k \in W : /\ Stands(t.queue[k], First(t, k))
                   /\ \A d : Stands(Tail(t.queue[k]), d) <=> Stands(t.queue[k], d) /\ d # First(t, k)
                   /\ \A d, e : Behind(t.queue[k], d, e) /\ d # First(t, k) => Behind(Tail(t.queue[k]), d, e)
                   /\ \A d : Behind(t.queue[k], d, First(t, k)) => d = First(t, k)
  BY TailIs DEF First, Won, Well, Indexed, Table0
<1> HIDE DEF u, W
<1>4. ASSUME NEW o \in Owners
      PROVE  /\ u.leases[o] \in {t.leases[o], Lease}
             /\ \/ u.held[o] \subseteq t.held[o]
                \/ u.leases[o] = Lease /\ t.waiting[o] # Nobody /\ u.waiting[o] = Nobody
  <2>1. CASE \E k \in W : OwnerOf(First(t, k)) = o
    <3> PICK k \in W : OwnerOf(First(t, k)) = o  BY <2>1
    <3>1. t.waiting[o] = <<k, First(t, k)>>  BY <1>2
    <3> QED BY <3>1, <2>1, <1>1, <1>2, NobodyIs
  <2>2. CASE ~ \E k \in W : OwnerOf(First(t, k)) = o
    <3>1. u.leases[o] = t.leases[o]  BY <2>2, <1>1
    <3>2. u.held[o] = t.held[o]
      <4>1. {k \in W : OwnerOf(First(t, k)) = o} = {}  BY <2>2
      <4>2. u.held[o] = t.held[o] \cup {k \in W : OwnerOf(First(t, k)) = o}  BY <1>1
      <4> QED BY <4>1, <4>2
    <3> QED BY <3>1, <3>2
  <2> QED BY <2>1, <2>2
<1>5. \A k \in Keys : \A c : Stands(u.queue[k], c) <=> Stands(t.queue[k], c) /\ ~ (k \in W /\ c = First(t, k))
  BY <1>1, <1>3
<1>6. ASSUME NEW c \in u.won, c \notin t.won
      PROVE  \E k \in Keys : /\ Stands(t.queue[k], c) /\ ~Stands(u.queue[k], c)
                             /\ k \in u.held[OwnerOf(c)] /\ Live(u, OwnerOf(c))
  <2> PICK k \in W : c = First(t, k)  BY <1>6, <1>1
  <2>1. u.leases[OwnerOf(c)] = Lease  BY <1>1, <1>2
  <2>2. k \in Keys /\ Stands(t.queue[k], c) /\ ~Stands(u.queue[k], c)  BY <1>2, <1>3, <1>5
  <2>3. k \in u.held[OwnerOf(c)]  BY <1>1, <1>2
  <2> QED BY <2>1, <2>2, <2>3, LeaseIs DEF Live
<1>7. Moves(t, u)
  <2>1. \A o \in Owners : u.waiting[o] \in {t.waiting[o], Nobody}  BY <1>1
  <2>2. \A o \in Owners : t.held[o] \subseteq u.held[o]  BY <1>1
  <2> QED BY <1>1, <1>4, <1>5, <1>6, <2>1, <2>2 DEF Moves
<1>8. InTurn(t, u)
  <2> SUFFICES ASSUME NEW k \in Keys, NEW c \in Calls, NEW d \in Calls,
                      c # d, Behind(t.queue[k], c, d), Stands(u.queue[k], c)
               PROVE  Behind(u.queue[k], c, d) /\ (Stands(t.queue[k], d) /\ d \in u.won => d \in t.won)
    BY DEF InTurn
  <2>1. Behind(u.queue[k], c, d)
    <3>1. CASE k \in W  BY <3>1, <1>1, <1>3, <1>5
    <3>2. CASE k \notin W  BY <3>2, <1>1
    <3> QED BY <3>1, <3>2
  <2>2. ASSUME Stands(t.queue[k], d), d \in u.won, d \notin t.won PROVE FALSE
    <3> PICK j \in W : d = First(t, j)  BY <2>2, <1>1
    <3>1. t.waiting[OwnerOf(d)] = <<j, d>>  BY <1>2
    <3>2. t.waiting[OwnerOf(d)] = <<k, d>>  BY <2>2, OwnerIn DEF Well, Indexed
    <3>3. j = k  BY <3>1, <3>2
    <3> QED BY <3>3, <1>3
  <2> QED BY <2>1, <2>2
<1> QED BY <1>7, <1>8 DEF u

\* ... and nobody waits for anyone it did not wait for.
LEMMA GiveShrinks ==
    ASSUME NEW t, Well(t), NEW ks \in SUBSET Keys
    PROVE  Shrinks(t, Give(t, ks))
<1> DEFINE W == Won(t, ks)
           u == Give(t, ks)
<1>1. /\ u \in Table0
      /\ \A k \in Keys : u.holder[k] = IF k \in W THEN OwnerOf(First(t, k)) ELSE t.holder[k]
      /\ \A k \in Keys : u.queue[k] = IF k \in W THEN Tail(t.queue[k]) ELSE t.queue[k]
      /\ \A o \in Owners : u.leases[o] = IF \E k \in W : OwnerOf(First(t, k)) = o THEN Lease ELSE t.leases[o]
      /\ \A o \in Owners : u.waiting[o] = IF \E k \in W : t.waiting[o] = <<k, First(t, k)>> THEN Nobody ELSE t.waiting[o]
  BY GiveFields
<1>2. \A k \in W : /\ k \in Keys /\ First(t, k) \in Calls /\ OwnerOf(First(t, k)) \in Owners
                   /\ t.waiting[OwnerOf(First(t, k))] = <<k, First(t, k)>>
                   /\ u.waiting[OwnerOf(First(t, k))] = Nobody
  BY FirstIs, <1>1
<1>3. \A k \in W : \A o \in Owners : o # OwnerOf(First(t, k)) =>
          Front(Tail(t.queue[k]), o) \subseteq Front(t.queue[k], o) /\ OwnerOf(First(t, k)) \in Front(t.queue[k], o)
  BY TailIs DEF First, Won, Well, Indexed, Table0
<1> HIDE DEF u, W
<1>4. ASSUME NEW o \in Owners, NEW p \in WaitsFor(u, o), u.waiting[p] # Nobody
      PROVE  p \in WaitsFor(t, o)
  <2>1. u.waiting[o] # Nobody /\ p \in Ahead(u, u.waiting[o][1], o)  BY <1>4 DEF WaitsFor
  <2>2. u.waiting[o] = t.waiting[o]  BY <2>1, <1>1
  <2> DEFINE k == t.waiting[o][1]
  <2>3. k \in Keys  BY <2>1, <2>2 DEF Well, Table0
  <2>4. p \in Ahead(u, k, o) /\ WaitsFor(t, o) = Ahead(t, k, o)  BY <2>1, <2>2 DEF WaitsFor
  <2> HIDE DEF k
  <2>5. \/ p \in Owners /\ p = u.holder[k] /\ p # o /\ Live(u, p)
        \/ p \in Front(u.queue[k], o)
    BY <2>4 DEF Ahead, Front
  <2>6. CASE p \in Owners /\ p = u.holder[k] /\ p # o /\ Live(u, p)
    <3>1. k \notin W  BY <2>3, <2>6, <1>1, <1>2, <1>4
    <3>2. p = t.holder[k]  BY <3>1, <2>3, <2>6, <1>1
    <3>3. ~ \E j \in W : OwnerOf(First(t, j)) = p  BY <1>2, <1>4
    <3>4. Live(t, p)  BY <3>3, <2>6, <1>1 DEF Live
    <3> QED BY <3>2, <3>4, <2>4, <2>6 DEF Ahead
  <2>7. CASE p \in Front(u.queue[k], o)
    <3>1. p \in Front(t.queue[k], o)
      <4>1. CASE k \in W
        <5>1. o # OwnerOf(First(t, k))  BY <4>1, <1>2, <2>1
        <5> QED BY <5>1, <4>1, <1>1, <1>3, <2>3, <2>7
      <4>2. CASE k \notin W  BY <4>2, <1>1, <2>3, <2>7
      <4> QED BY <4>1, <4>2
    <3> QED BY <3>1, <2>4 DEF Ahead, Front
  <2> QED BY <2>5, <2>6, <2>7
<1>5. \A o \in Owners : WaitsFor(u, o) \subseteq Owners
  <2>1. \A k \in Keys : \A o \in Owners : Ahead(u, k, o) \subseteq Owners
    BY <1>1, OwnerIn DEF Ahead, Table0
  <2> QED BY <2>1, <1>1 DEF WaitsFor, Table0
<1> QED BY <1>4, <1>5 DEF Shrinks, u

LEMMA MovesTwice ==
    ASSUME NEW t, NEW u, NEW v, Well(t), Well(u), Moves(t, u), Moves(u, v)
    PROVE  Moves(t, v)
<1>1. v.ended = t.ended /\ v.flying = t.flying /\ v.closed = t.closed /\ v.swept = t.swept  BY DEF Moves
<1>2. ASSUME NEW o \in Owners
      PROVE  /\ v.leases[o] \in {t.leases[o], Lease}
             /\ \/ v.held[o] \subseteq t.held[o]
                \/ v.leases[o] = Lease /\ t.waiting[o] # Nobody /\ v.waiting[o] = Nobody
  BY DEF Moves
<1>3. \A o \in Owners : v.waiting[o] \in {t.waiting[o], Nobody}  BY DEF Moves
<1>l. ASSUME NEW o \in Owners, Live(t, o) PROVE Live(u, o) /\ t.held[o] \subseteq u.held[o]
  BY <1>l, LeaseIs DEF Moves, Live
<1>k. ASSUME NEW o \in Owners, Live(u, o) PROVE Live(v, o) /\ u.held[o] \subseteq v.held[o]
  BY <1>k, LeaseIs DEF Moves, Live
<1>4. \A o \in Owners : Live(t, o) => t.held[o] \subseteq v.held[o]  BY <1>l, <1>k
<1>5. \A k \in Keys : \A c \in Calls : Stands(v.queue[k], c) => Stands(t.queue[k], c)  BY DEF Moves
<1>6. ASSUME NEW c \in v.won, c \notin t.won
      PROVE  \E k \in Keys : /\ Stands(t.queue[k], c) /\ ~Stands(v.queue[k], c)
                             /\ k \in v.held[OwnerOf(c)] /\ Live(v, OwnerOf(c))
  <2>1. CASE c \in u.won
    <3> PICK k \in Keys : /\ Stands(t.queue[k], c) /\ ~Stands(u.queue[k], c)
                          /\ k \in u.held[OwnerOf(c)] /\ Live(u, OwnerOf(c))
      BY <2>1, <1>6 DEF Moves
    <3>1. c \in Calls  BY <2>1 DEF Well, Table0
    <3>2. ~Stands(v.queue[k], c)  BY <3>1 DEF Moves
    <3>3. Live(v, OwnerOf(c)) /\ k \in v.held[OwnerOf(c)]  BY <3>1, OwnerIn, <1>k
    <3> QED BY <3>2, <3>3
  <2>2. CASE c \notin u.won
    <3> PICK k \in Keys : /\ Stands(u.queue[k], c) /\ ~Stands(v.queue[k], c)
                          /\ k \in v.held[OwnerOf(c)] /\ Live(v, OwnerOf(c))
      BY <2>2, <1>6 DEF Moves
    <3>1. c \in Calls  BY StandsIn DEF Well, Table0
    <3>2. Stands(t.queue[k], c)  BY <3>1 DEF Moves
    <3> QED BY <3>2
  <2> QED BY <2>1, <2>2
<1> QED BY <1>1, <1>2, <1>3, <1>4, <1>5, <1>6 DEF Moves

LEMMA InTurnTwice ==
    ASSUME NEW t, NEW u, NEW v, Well(t), Well(u), Moves(t, u), Moves(u, v), InTurn(t, u), InTurn(u, v)
    PROVE  InTurn(t, v)
<1> SUFFICES ASSUME NEW k \in Keys, NEW c \in Calls, NEW d \in Calls,
                    c # d, Behind(t.queue[k], c, d), Stands(v.queue[k], c)
             PROVE  Behind(v.queue[k], c, d) /\ (Stands(t.queue[k], d) /\ d \in v.won => d \in t.won)
  BY DEF InTurn
<1>1. Stands(u.queue[k], c)  BY DEF Moves
<1>2. Behind(u.queue[k], c, d) /\ (Stands(t.queue[k], d) /\ d \in u.won => d \in t.won)  BY <1>1 DEF InTurn
<1>3. Behind(v.queue[k], c, d) /\ (Stands(u.queue[k], d) /\ d \in v.won => d \in u.won)  BY <1>2 DEF InTurn
<1>4. ASSUME Stands(t.queue[k], d), d \in v.won, d \notin u.won PROVE FALSE
  <2> PICK j \in Keys : Stands(u.queue[j], d)  BY <1>4 DEF Moves
  <2>1. Stands(t.queue[j], d)  BY DEF Moves
  <2>2. t.waiting[OwnerOf(d)] = <<j, d>> /\ t.waiting[OwnerOf(d)] = <<k, d>>
    BY <2>1, <1>4, OwnerIn DEF Well, Indexed
  <2>3. j = k  BY <2>2
  <2> QED BY <2>3, <1>3, <1>4
<1> QED BY <1>2, <1>3, <1>4

LEMMA ShrinksTwice ==
    ASSUME NEW t, NEW u, NEW v, Shrinks(t, u), Shrinks(u, v), Moves(u, v)
    PROVE  Shrinks(t, v)
<1>1. \A p \in Owners : u.waiting[p] = Nobody => v.waiting[p] = Nobody  BY DEF Moves
<1> QED BY <1>1 DEF Shrinks

LEMMA StaysPut == \A t : Moves(t, t) /\ InTurn(t, t) /\ Shrinks(t, t)
BY DEF Moves, InTurn, Shrinks

\* What is left once a holder whose lease ran out gives its key up (Table::settle).
LEMMA EvictFields ==
    ASSUME NEW t, Well(t), NEW k \in Keys, Lapsed(t, k)
    PROVE  LET u == Evict(t, k) IN
           /\ u \in Table0
           /\ t.holder[k] \in Owners /\ ~Live(t, t.holder[k])
           /\ \A j \in Keys : u.holder[j] = IF j = k THEN Nobody ELSE t.holder[j]
           /\ \A o \in Owners : u.held[o] = IF o = t.holder[k] THEN t.held[o] \ {k} ELSE t.held[o]
           /\ u.queue = t.queue /\ u.leases = t.leases /\ u.waiting = t.waiting /\ u.won = t.won
           /\ u.ended = t.ended /\ u.flying = t.flying /\ u.closed = t.closed /\ u.swept = t.swept
<1>1. t.holder[k] \in Owners /\ ~Live(t, t.holder[k])  BY DEF Lapsed, Well, Table0
<1> DEFINE H == [t.holder EXCEPT ![k] = Nobody]
           D == [t.held EXCEPT ![t.holder[k]] = @ \ {k}]
<1>2. Evict(t, k) = [t EXCEPT !.holder = H, !.held = D]
  BY DEF Evict, Well, Table0
<1>3. /\ H \in [Keys -> Owners \cup {Nobody}]
      /\ D \in [Owners -> SUBSET Keys]
      /\ \A j \in Keys : H[j] = IF j = k THEN Nobody ELSE t.holder[j]
      /\ \A o \in Owners : D[o] = IF o = t.holder[k] THEN t.held[o] \ {k} ELSE t.held[o]
  BY <1>1 DEF Well, Table0
<1> HIDE DEF H, D
<1> QED BY <1>1, <1>2, <1>3, ZenonT(60) DEF Well, Table0

\* ... with the indexes in step, and every wait as it was or shorter.
LEMMA EvictWell ==
    ASSUME NEW t, Well(t), NEW k \in Keys
    PROVE  /\ Well(Evict(t, k)) /\ Moves(t, Evict(t, k)) /\ InTurn(t, Evict(t, k)) /\ Shrinks(t, Evict(t, k))
           /\ \A j \in Keys : j # k /\ Given(t, j) => Given(Evict(t, k), j)
<1>1. CASE ~Lapsed(t, k)  BY <1>1, StaysPut DEF Evict
<1>2. CASE Lapsed(t, k)
  <2> DEFINE u == Evict(t, k)
  <2>1. /\ u \in Table0
        /\ t.holder[k] \in Owners /\ ~Live(t, t.holder[k])
        /\ \A j \in Keys : u.holder[j] = IF j = k THEN Nobody ELSE t.holder[j]
        /\ \A o \in Owners : u.held[o] = IF o = t.holder[k] THEN t.held[o] \ {k} ELSE t.held[o]
        /\ u.queue = t.queue /\ u.leases = t.leases /\ u.waiting = t.waiting /\ u.won = t.won
        /\ u.ended = t.ended /\ u.flying = t.flying /\ u.closed = t.closed /\ u.swept = t.swept
    BY <1>2, EvictFields
  <2> HIDE DEF u
  <2>2. \A o \in Owners, j \in Keys : j \in u.held[o] <=> u.holder[j] = o
    <3> SUFFICES ASSUME NEW o \in Owners, NEW j \in Keys PROVE j \in u.held[o] <=> u.holder[j] = o  OBVIOUS
    <3>1. j \in t.held[o] <=> t.holder[j] = o  BY DEF Well, Indexed
    <3>2. CASE j = k
      <4>1. u.holder[j] = Nobody /\ o # Nobody  BY <3>2, <2>1, NobodyIs
      <4>2. j \notin u.held[o]  BY <3>1, <3>2, <2>1
      <4> QED BY <4>1, <4>2
    <3>3. CASE j # k
      <4>1. u.holder[j] = t.holder[j]  BY <3>3, <2>1
      <4>2. j \in u.held[o] <=> j \in t.held[o]  BY <3>3, <2>1
      <4> QED BY <3>1, <4>1, <4>2
    <3> QED BY <3>2, <3>3
  <2>3. \A j \in Keys : \A c \in Calls : Stands(u.queue[j], c) => u.holder[j] # OwnerOf(c)
    BY <2>1, NobodyIs, OwnerIn DEF Well, Indexed
  <2>4. Well(u)  BY <2>1, <2>2, <2>3 DEF Well, Indexed
  <2>5. \A o \in Owners : Live(t, o) => t.held[o] \subseteq u.held[o]  BY <2>1
  <2>6. \A o \in Owners : u.held[o] \subseteq t.held[o]  BY <2>1
  <2>7. Moves(t, u)  BY <2>1, <2>5, <2>6 DEF Moves
  <2>8. InTurn(t, u)  BY <2>1 DEF InTurn
  <2>9. ASSUME NEW o \in Owners PROVE WaitsFor(u, o) \subseteq WaitsFor(t, o)
    <3>1. CASE t.waiting[o] = Nobody  BY <3>1, <2>1 DEF WaitsFor
    <3>2. CASE t.waiting[o] # Nobody
      <4> PICK j \in Keys : j = t.waiting[o][1]  BY <3>2 DEF Well, Table0
      <4>1. WaitsFor(u, o) = Ahead(u, j, o) /\ WaitsFor(t, o) = Ahead(t, j, o)  BY <3>2, <2>1 DEF WaitsFor
      <4>2. \A p \in Owners : p = u.holder[j] /\ p # o /\ Live(u, p) => p = t.holder[j] /\ Live(t, p)
        BY <2>1, NobodyIs DEF Live
      <4>3. u.queue[j] = t.queue[j]  BY <2>1
      <4> QED BY <4>1, <4>2, <4>3, AheadIn
    <3> QED BY <3>1, <3>2
  <2>10. Shrinks(t, u)  BY <2>9 DEF Shrinks
  <2>11. \A j \in Keys : j # k /\ Given(t, j) => Given(u, j)  BY <2>1 DEF Given
  <2> QED BY <2>4, <2>7, <2>8, <2>10, <2>11 DEF u
<1> QED BY <1>1, <1>2

\* Settling a key: the lapsed holder goes, the first in line gets it.
LEMMA SettleWell ==
    ASSUME NEW t, Well(t), NEW k \in Keys
    PROVE  /\ Well(Settle(t, k)) /\ Moves(t, Settle(t, k)) /\ InTurn(t, Settle(t, k)) /\ Shrinks(t, Settle(t, k))
           /\ \A j \in Keys : j = k \/ Given(t, j) => Given(Settle(t, k), j)
<1> DEFINE u == Evict(t, k)
           v == Give(u, {k})
<1>1. Well(u) /\ Moves(t, u) /\ InTurn(t, u) /\ Shrinks(t, u) /\ \A j \in Keys : j # k /\ Given(t, j) => Given(u, j)
  BY EvictWell
<1>2. Settle(t, k) = v  BY DEF Settle
<1> HIDE DEF u
<1>3. Well(v) /\ Moves(u, v) /\ InTurn(u, v) /\ Shrinks(u, v) /\ \A j \in Keys : j = k \/ Given(u, j) => Given(v, j)
  BY <1>1, GiveWell, GiveMoves, GiveShrinks
<1> HIDE DEF v
<1>4. Moves(t, v) /\ InTurn(t, v) /\ Shrinks(t, v)
  BY <1>1, <1>3, MovesTwice, InTurnTwice, ShrinksTwice
<1> QED BY <1>1, <1>2, <1>3, <1>4

\* A place leaves its queue.
Dropped(t, u, k, c) ==
    /\ u.queue = [t.queue EXCEPT ![k] = Without(@, c)]
    /\ \A o \in Owners : u.waiting[o] = IF t.waiting[o] = <<k, c>> THEN Nobody ELSE t.waiting[o]
    /\ u.won \subseteq t.won
    /\ u.holder = t.holder /\ u.held = t.held /\ u.leases = t.leases /\ u.ended = t.ended
    /\ u.flying = t.flying /\ u.closed = t.closed /\ u.swept = t.swept

LEMMA DropWell ==
    ASSUME NEW t, Well(t), NEW k \in Keys, NEW c \in Calls, NEW u \in Table0, Dropped(t, u, k, c)
    PROVE  /\ Well(u) /\ Moves(t, u) /\ InTurn(t, u) /\ Shrinks(t, u)
           /\ ~Stands(u.queue[k], c)
           /\ \A j \in Keys : Given(t, j) => Given(u, j)
<1> USE DEF Dropped
<1>1. /\ \A j \in Keys : t.queue[j] \in Seq(Calls) /\ Distinct(t.queue[j])
      /\ \A j \in Keys : u.queue[j] = IF j = k THEN Without(t.queue[k], c) ELSE t.queue[j]
  BY DEF Well, Indexed, Table0
<1>2. /\ Distinct(u.queue[k])
      /\ \A d : Stands(u.queue[k], d) <=> Stands(t.queue[k], d) /\ d # c
      /\ \A d, e : Behind(t.queue[k], d, e) /\ d # c => Behind(u.queue[k], d, e)
      /\ \A o \in Owners : o # OwnerOf(c) => Front(u.queue[k], o) \subseteq Front(t.queue[k], o)
  BY <1>1, WithoutIs
<1>3. ASSUME NEW o \in Owners, NEW j \in Keys, NEW d \in Calls
      PROVE  u.waiting[o] = <<j, d>> <=> OwnerOf(d) = o /\ Stands(u.queue[j], d)
  <2>1. t.waiting[o] = <<j, d>> <=> OwnerOf(d) = o /\ Stands(t.queue[j], d)  BY DEF Well, Indexed
  <2>2. Stands(u.queue[j], d) <=> Stands(t.queue[j], d) /\ ~ (j = k /\ d = c)  BY <1>1, <1>2
  <2>3. CASE t.waiting[o] = <<k, c>>
    <3>1. u.waiting[o] # <<j, d>>  BY <2>3, NobodyIs, ZenonT(60)
    <3>2. t.waiting[o] = <<j, d>> => j = k /\ d = c  BY <2>3
    <3> QED BY <3>1, <3>2, <2>1, <2>2
  <2>4. CASE t.waiting[o] # <<k, c>>
    <3>1. u.waiting[o] = t.waiting[o]  BY <2>4
    <3> QED BY <3>1, <2>1, <2>2, <2>4
  <2> QED BY <2>3, <2>4
<1>4. Well(u)
  <2>1. \A j \in Keys : Distinct(u.queue[j])  BY <1>1, <1>2
  <2>2. \A j \in Keys : \A d \in Calls : Stands(u.queue[j], d) => u.holder[j] # OwnerOf(d)
    BY <1>1, <1>2 DEF Well, Indexed
  <2> QED BY <1>3, <2>1, <2>2 DEF Well, Indexed
<1>5. \A j \in Keys : \A d : Stands(u.queue[j], d) => Stands(t.queue[j], d)  BY <1>1, <1>2
<1>6. Moves(t, u)
  <2>1. \A o \in Owners : u.waiting[o] \in {t.waiting[o], Nobody}  OBVIOUS
  <2> QED BY <1>5, <2>1 DEF Moves
<1>7. InTurn(t, u)
  <2> SUFFICES ASSUME NEW j \in Keys, NEW d \in Calls, NEW e \in Calls,
                      d # e, Behind(t.queue[j], d, e), Stands(u.queue[j], d)
               PROVE  Behind(u.queue[j], d, e)
    BY DEF InTurn
  <2> QED BY <1>1, <1>2
<1>8. ASSUME NEW o \in Owners PROVE WaitsFor(u, o) \subseteq WaitsFor(t, o)
  <2>1. CASE u.waiting[o] = Nobody  BY <2>1 DEF WaitsFor
  <2>2. CASE u.waiting[o] # Nobody
    <3>1. u.waiting[o] = t.waiting[o] /\ t.waiting[o] # <<k, c>>  BY <2>2
    <3> PICK j \in Keys, d \in Calls : t.waiting[o] = <<j, d>>  BY <2>2, <3>1 DEF Well, Table0
    <3>2. WaitsFor(u, o) = Ahead(u, j, o) /\ WaitsFor(t, o) = Ahead(t, j, o)
      BY <2>2, <3>1 DEF WaitsFor
    <3>3. Front(u.queue[j], o) \subseteq Front(t.queue[j], o)
      <4>1. CASE j # k  BY <4>1, <1>1
      <4>2. CASE j = k /\ o # OwnerOf(c)  BY <4>2, <1>2
      <4>3. CASE j = k /\ o = OwnerOf(c)
        <5>1. ~Stands(t.queue[k], c)  BY <4>3, <3>1 DEF Well, Indexed
        <5>2. u.queue[k] = t.queue[k]  BY <5>1, <1>1 DEF Without
        <5> QED BY <5>2, <4>3
      <4> QED BY <4>1, <4>2, <4>3
    <3>4. \A p \in Owners : p = u.holder[j] /\ p # o /\ Live(u, p) => p = t.holder[j] /\ Live(t, p)  BY DEF Live
    <3> QED BY ONLY <3>2, <3>3, <3>4, AheadIn
  <2> QED BY <2>1, <2>2
<1>9. Shrinks(t, u)  BY <1>8 DEF Shrinks
<1>10. ASSUME NEW j \in Keys, Given(t, j) PROVE Given(u, j)
  <2>1. u.queue[j] \in Seq(Calls) /\ t.queue[j] \in Seq(Calls)  BY DEF Well, Table0
  <2>2. u.queue[j] # <<>> => t.queue[j] # <<>>  BY <2>1, <1>5, EmptyIs
  <2> QED BY <2>2, <1>10 DEF Given
<1> QED BY <1>2, <1>4, <1>6, <1>7, <1>9, <1>10

LEMMA WithoutIn == ASSUME NEW t, Well(t), NEW k \in Keys, NEW c PROVE [t.queue EXCEPT ![k] = Without(@, c)] \in [Keys -> Seq(Calls)]
<1>1. t.queue \in [Keys -> Seq(Calls)] /\ Distinct(t.queue[k])  BY DEF Well, Indexed, Table0
<1>2. Without(t.queue[k], c) \in Seq(Calls)  BY <1>1, WithoutIs
<1> QED BY <1>1, <1>2

\* A place that is cancelled (Table::cancel): what it was granted goes on to the next.
LEMMA CancelWell ==
    ASSUME NEW t, Well(t), NEW k \in Keys, NEW c \in Calls
    PROVE  LET u == Cancel(t, k, c) IN
           /\ Well(u) /\ Moves(t, u) /\ InTurn(t, u) /\ Shrinks(t, u)
           /\ \A j \in Keys : Given(t, j) => Given(u, j)
           /\ (\A j \in Keys : Stands(t.queue[j], c) => j = k) =>
                  c \notin u.won /\ \A j \in Keys : ~Stands(u.queue[j], c)
<1> DEFINE Q == [t.queue EXCEPT ![k] = Without(@, c)]
           A == [o \in Owners |-> IF t.waiting[o] = <<k, c>> THEN Nobody ELSE t.waiting[o]]
           d == [t EXCEPT !.queue = Q, !.waiting = A, !.won = @ \ {c}]
           u == Settle(d, k)
<1>1. Cancel(t, k, c) = u
  <2>1. [t EXCEPT !.queue[k] = Without(@, c),
                  !.waiting = [o \in Owners |-> IF @[o] = <<k, c>> THEN Nobody ELSE @[o]],
                  !.won = @ \ {c}] = d
    BY DEF Well, Table0
  <2> QED BY <2>1 DEF Cancel
<1>2. Q \in [Keys -> Seq(Calls)]  BY WithoutIn
<1>3. A \in [Owners -> (Keys \X Calls) \cup {Nobody}]  BY DEF Well, Table0
<1>4. \A o \in Owners : A[o] = IF t.waiting[o] = <<k, c>> THEN Nobody ELSE t.waiting[o]  OBVIOUS
<1>5. Q = [t.queue EXCEPT ![k] = Without(@, c)]  OBVIOUS
<1> HIDE DEF Q, A
<1>6. /\ d \in Table0 /\ d.queue = Q /\ d.waiting = A /\ d.won = t.won \ {c}
      /\ d.holder = t.holder /\ d.held = t.held /\ d.leases = t.leases /\ d.ended = t.ended
      /\ d.flying = t.flying /\ d.closed = t.closed /\ d.swept = t.swept
  BY <1>2, <1>3 DEF Well, Table0
<1> HIDE DEF d
<1>7. /\ Well(d) /\ Moves(t, d) /\ InTurn(t, d) /\ Shrinks(t, d)
      /\ ~Stands(d.queue[k], c)
      /\ \A j \in Keys : Given(t, j) => Given(d, j)
  <2>1. d.queue = [t.queue EXCEPT ![k] = Without(@, c)]  BY <1>5, <1>6
  <2>2. \A o \in Owners : d.waiting[o] = IF t.waiting[o] = <<k, c>> THEN Nobody ELSE t.waiting[o]  BY <1>4, <1>6
  <2>3. d.won \subseteq t.won  BY <1>6
  <2>4. d \in Table0  BY <1>6
  <2>5. Dropped(t, d, k, c)  BY <2>1, <2>2, <2>3, <1>6 DEF Dropped
  <2> QED BY <2>4, <2>5, DropWell
<1>8. /\ Well(u) /\ Moves(d, u) /\ InTurn(d, u) /\ Shrinks(d, u)
      /\ \A j \in Keys : Given(d, j) => Given(u, j)
  BY <1>7, SettleWell
<1> HIDE DEF u
<1>9. Moves(t, u) /\ InTurn(t, u) /\ Shrinks(t, u)
  BY <1>7, <1>8, MovesTwice, InTurnTwice, ShrinksTwice
<1>10. ASSUME \A j \in Keys : Stands(t.queue[j], c) => j = k
       PROVE  c \notin u.won /\ \A j \in Keys : ~Stands(u.queue[j], c)
  <2>1. \A j \in Keys : ~Stands(d.queue[j], c)  BY <1>7, <1>10 DEF Moves
  <2>2. \A j \in Keys : ~Stands(u.queue[j], c)  BY <2>1, <1>8 DEF Moves
  <2>3. c \notin d.won  BY <1>6
  <2>4. c \notin u.won  BY <2>1, <2>3, <1>8 DEF Moves
  <2> QED BY <2>2, <2>4
<1> QED BY <1>1, <1>7, <1>8, <1>9, <1>10

\* An owner that stops waiting (Table::unwait).
LEMMA UnwaitWell ==
    ASSUME NEW t, Well(t), NEW o \in Owners
    PROVE  LET u == Unwait(t, o) IN
           /\ Well(u) /\ Moves(t, u) /\ InTurn(t, u) /\ Shrinks(t, u)
           /\ \A j \in Keys : Given(t, j) => Given(u, j)
           /\ u.waiting[o] = Nobody /\ u.held[o] \subseteq t.held[o]
<1>1. CASE t.waiting[o] = Nobody  BY <1>1, StaysPut DEF Unwait
<1>2. CASE t.waiting[o] # Nobody
  <2> PICK k \in Keys, c \in Calls : t.waiting[o] = <<k, c>>  BY <1>2 DEF Well, Table0
  <2> DEFINE Q == [t.queue EXCEPT ![k] = Without(@, c)]
             A == [t.waiting EXCEPT ![o] = Nobody]
             d == [t EXCEPT !.queue = Q, !.waiting = A]
             u == Settle(d, k)
  <2>1. Unwait(t, o) = u
    <3>1. t.waiting[o][1] = k /\ t.waiting[o][2] = c  OBVIOUS
    <3>2. [t EXCEPT !.queue[k] = Without(@, c), !.waiting[o] = Nobody] = d
      BY DEF Well, Table0
    <3> QED BY <1>2, <3>1, <3>2 DEF Unwait
  <2>2. Q \in [Keys -> Seq(Calls)]  BY WithoutIn
  <2>3. A \in [Owners -> (Keys \X Calls) \cup {Nobody}]  BY DEF Well, Table0
  <2>4. \A p \in Owners : A[p] = IF t.waiting[p] = <<k, c>> THEN Nobody ELSE t.waiting[p]
    <3>1. OwnerOf(c) = o /\ \A p \in Owners : t.waiting[p] = <<k, c>> => p = o
      BY DEF Well, Indexed
    <3> QED BY <3>1 DEF Well, Table0
  <2>5. Q = [t.queue EXCEPT ![k] = Without(@, c)] /\ A[o] = Nobody  BY DEF Well, Table0
  <2> HIDE DEF Q, A
  <2>6. /\ d \in Table0 /\ d.queue = Q /\ d.waiting = A /\ d.won = t.won
        /\ d.holder = t.holder /\ d.held = t.held /\ d.leases = t.leases /\ d.ended = t.ended
        /\ d.flying = t.flying /\ d.closed = t.closed /\ d.swept = t.swept
    BY <2>2, <2>3 DEF Well, Table0
  <2> HIDE DEF d
  <2>7. /\ Well(d) /\ Moves(t, d) /\ InTurn(t, d) /\ Shrinks(t, d)
        /\ \A j \in Keys : Given(t, j) => Given(d, j)
    <3>1. d.queue = [t.queue EXCEPT ![k] = Without(@, c)]  BY <2>5, <2>6
    <3>2. \A p \in Owners : d.waiting[p] = IF t.waiting[p] = <<k, c>> THEN Nobody ELSE t.waiting[p]  BY <2>4, <2>6
    <3>3. d.won \subseteq t.won  BY <2>6
    <3>4. d \in Table0  BY <2>6
    <3>5. Dropped(t, d, k, c)  BY <3>1, <3>2, <3>3, <2>6 DEF Dropped
    <3> QED BY <3>4, <3>5, DropWell
  <2>8. /\ Well(u) /\ Moves(d, u) /\ InTurn(d, u) /\ Shrinks(d, u)
        /\ \A j \in Keys : Given(d, j) => Given(u, j)
    BY <2>7, SettleWell
  <2> HIDE DEF u
  <2>9. Moves(t, u) /\ InTurn(t, u) /\ Shrinks(t, u)
    BY <2>7, <2>8, MovesTwice, InTurnTwice, ShrinksTwice
  <2>10. d.waiting[o] = Nobody  BY <2>5, <2>6
  <2>11. u.waiting[o] = Nobody /\ u.held[o] \subseteq t.held[o]  BY <2>6, <2>8, <2>10 DEF Moves
  <2> QED BY <2>1, <2>7, <2>8, <2>9, <2>11
<1> QED BY <1>1, <1>2

\* Fields a step leaves alone.
LEMMA RenewIs ==
    ASSUME NEW t, Well(t), NEW o \in Owners
    PROVE  LET u == Renew(t, o) IN
           /\ Well(u) /\ Moves(t, u) /\ InTurn(t, u)
           /\ \A j \in Keys : Given(t, j) => Given(u, j)
           /\ u.waiting = t.waiting /\ u.held = t.held /\ u.holder = t.holder /\ u.queue = t.queue /\ u.won = t.won
           /\ ~IsEnded(t, o) => u.leases[o] = Lease
           /\ t.waiting[o] = Nobody \/ Live(t, o) => Shrinks(t, u)
<1>1. CASE IsEnded(t, o)  BY <1>1, StaysPut DEF Renew
<1>2. CASE ~IsEnded(t, o)
  <2> DEFINE L == [t.leases EXCEPT ![o] = Lease]
             u == [t EXCEPT !.leases = L]
  <2>1. Renew(t, o) = u  BY <1>2 DEF Renew, Well, Table0
  <2>2. /\ L \in [Owners -> Left] /\ L[o] = Lease
        /\ \A p \in Owners : L[p] \in {t.leases[p], Lease} /\ (p # o => L[p] = t.leases[p])
    BY LeaseIs DEF Well, Table0
  <2> HIDE DEF L
  <2>3. /\ u \in Table0 /\ u.leases = L
        /\ u.waiting = t.waiting /\ u.held = t.held /\ u.holder = t.holder /\ u.queue = t.queue /\ u.won = t.won
        /\ u.ended = t.ended /\ u.flying = t.flying /\ u.closed = t.closed /\ u.swept = t.swept
    BY <2>2 DEF Well, Table0
  <2> HIDE DEF u
  <2>4. Well(u)  BY <2>3 DEF Well, Indexed
  <2>5. Moves(t, u)  BY <2>2, <2>3 DEF Moves
  <2>6. InTurn(t, u)  BY <2>3 DEF InTurn
  <2>7. u.leases[o] = Lease  BY <2>2, <2>3
  <2>8. ASSUME t.waiting[o] = Nobody \/ Live(t, o) PROVE Shrinks(t, u)
    <3> SUFFICES ASSUME NEW p \in Owners, NEW q \in WaitsFor(u, p)
                 PROVE  q \in WaitsFor(t, p) \/ (q \in Owners /\ u.waiting[q] = Nobody)
      BY DEF Shrinks
    <3>1. u.waiting[p] # Nobody /\ u.waiting[p] = t.waiting[p]  BY <2>3 DEF WaitsFor
    <3> PICK k \in Keys : k = t.waiting[p][1]  BY <3>1 DEF Well, Table0
    <3>2. WaitsFor(u, p) = Ahead(u, k, p) /\ WaitsFor(t, p) = Ahead(t, k, p)  BY <3>1 DEF WaitsFor
    <3>3. CASE q \in Owners /\ q = u.holder[k] /\ q # p /\ Live(u, q)
      <4>1. CASE q = o /\ t.waiting[o] = Nobody  BY <3>3, <4>1, <2>3
      <4>2. CASE q = o /\ Live(t, o)
        <5>1. q \in Ahead(t, k, p)  BY <3>3, <4>2, <2>3 DEF Ahead
        <5> QED BY <5>1, <3>2
      <4>3. CASE q # o
        <5>1. Live(t, q)  BY <3>3, <4>3, <2>2, <2>3 DEF Live
        <5>2. q \in Ahead(t, k, p)  BY <3>3, <5>1, <2>3 DEF Ahead
        <5> QED BY <5>2, <3>2
      <4> QED BY <4>1, <4>2, <4>3, <2>8
    <3>4. CASE q \in Front(u.queue[k], p)
      <4>1. q \in Ahead(t, k, p)  BY <3>4, <2>3 DEF Ahead, Front
      <4> QED BY <4>1, <3>2
    <3>5. q \in Ahead(u, k, p)  BY <3>2
    <3> QED BY <3>3, <3>4, <3>5 DEF Ahead, Front
  <2>9. \A j \in Keys : Given(t, j) => Given(u, j)  BY <2>3 DEF Given
  <2> QED BY <2>1, <2>3, <2>4, <2>5, <2>6, <2>7, <2>8, <2>9
<1> QED BY <1>1, <1>2

\* A grant of a free key to the one that asks (Table::grant).
LEMMA GrantIs ==
    ASSUME NEW t, Well(t), NEW o \in Owners, NEW k \in Keys, t.holder[k] = Nobody, Given(t, k)
    PROVE  LET u == Grant(t, o, k) IN
           /\ Well(u)
           /\ \A j \in Keys : u.holder[j] = IF j = k THEN o ELSE t.holder[j]
           /\ \A p \in Owners : u.leases[p] = IF p = o THEN Lease ELSE t.leases[p]
           /\ \A p \in Owners : u.held[p] = IF p = o THEN t.held[o] \cup {k} ELSE t.held[p]
           /\ u.queue = t.queue /\ u.waiting = t.waiting /\ u.won = t.won
           /\ u.ended = t.ended /\ u.flying = t.flying /\ u.closed = t.closed /\ u.swept = t.swept
           /\ \A j \in Keys : Given(t, j) => Given(u, j)
           /\ \A p \in Owners : t.waiting[p] # Nobody => t.waiting[p][1] # k
<1> DEFINE H == [t.holder EXCEPT ![k] = o]
           L == [t.leases EXCEPT ![o] = Lease]
           D == [t.held EXCEPT ![o] = @ \cup {k}]
           u == [t EXCEPT !.holder = H, !.held = D, !.leases = L]
<1>1. Grant(t, o, k) = u  BY DEF Grant, Well, Table0
<1>2. /\ H \in [Keys -> Owners \cup {Nobody}] /\ L \in [Owners -> Left] /\ D \in [Owners -> SUBSET Keys]
      /\ \A j \in Keys : H[j] = IF j = k THEN o ELSE t.holder[j]
      /\ \A p \in Owners : D[p] = IF p = o THEN t.held[o] \cup {k} ELSE t.held[p]
      /\ \A p \in Owners : L[p] = IF p = o THEN Lease ELSE t.leases[p]
  BY LeaseIs DEF Well, Table0
<1> HIDE DEF H, L, D
<1>4. /\ u \in Table0 /\ u.holder = H /\ u.leases = L /\ u.held = D
      /\ u.queue = t.queue /\ u.waiting = t.waiting /\ u.won = t.won
      /\ u.ended = t.ended /\ u.flying = t.flying /\ u.closed = t.closed /\ u.swept = t.swept
  BY <1>2 DEF Well, Table0
<1> HIDE DEF u
<1>5. \A c : ~Stands(t.queue[k], c)
  <2>1. t.queue[k] = <<>>  BY DEF Given
  <2>2. t.queue[k] \in Seq(Calls)  BY DEF Well, Table0
  <2> QED BY <2>1, <2>2, EmptyIs
<1>6. ASSUME NEW p \in Owners, NEW j \in Keys PROVE j \in u.held[p] <=> u.holder[j] = p
  <2>1. j \in t.held[p] <=> t.holder[j] = p  BY DEF Well, Indexed
  <2>2. CASE j = k
    <3>1. j \notin t.held[p]  BY <2>1, <2>2, NobodyIs
    <3> QED BY <3>1, <2>2, <1>2, <1>4
  <2>3. CASE j # k  BY <2>1, <2>3, <1>2, <1>4
  <2> QED BY <2>2, <2>3
<1>7. \A j \in Keys : \A c \in Calls : Stands(u.queue[j], c) => u.holder[j] # OwnerOf(c)
  BY <1>2, <1>4, <1>5 DEF Well, Indexed
<1>8. Well(u)  BY <1>4, <1>6, <1>7 DEF Well, Indexed
<1>9. \A j \in Keys : Given(t, j) => Given(u, j)
  BY <1>2, <1>4, NobodyIs DEF Given
<1>10. ASSUME NEW p \in Owners, t.waiting[p] # Nobody PROVE t.waiting[p][1] # k
  <2> PICK j \in Keys, c \in Calls : t.waiting[p] = <<j, c>>  BY <1>10 DEF Well, Table0
  <2>1. Stands(t.queue[j], c)  BY DEF Well, Indexed
  <2> QED BY <2>1, <1>5
<1> QED BY <1>1, <1>2, <1>4, <1>8, <1>9, <1>10

\* A place at the end of the queue of a held key (Table::ask).
LEMMA QueueIs ==
    ASSUME NEW t, Well(t), NEW c \in Calls, NEW k \in Keys,
           t.waiting[OwnerOf(c)] = Nobody, t.holder[k] \notin {OwnerOf(c), Nobody}
    PROVE  LET u == Queue(t, c, k) IN
           /\ Well(u)
           /\ u.waiting = [t.waiting EXCEPT ![OwnerOf(c)] = <<k, c>>]
           /\ u.holder = t.holder /\ u.held = t.held /\ u.leases = t.leases /\ u.won = t.won
           /\ u.ended = t.ended /\ u.flying = t.flying /\ u.closed = t.closed /\ u.swept = t.swept
           /\ \A j \in Keys : Given(t, j) => Given(u, j)
           /\ \A j \in Keys : \A d : Stands(u.queue[j], d) <=> Stands(t.queue[j], d) \/ (j = k /\ d = c)
           /\ \A j \in Keys : \A d, e : Behind(t.queue[j], d, e) => Behind(u.queue[j], d, e)
           /\ \A p \in Owners : p # OwnerOf(c) => WaitsFor(u, p) = WaitsFor(t, p)
           /\ WaitsFor(u, OwnerOf(c)) = Ahead(t, k, OwnerOf(c))
<1> PICK o \in Owners : o = OwnerOf(c)  BY OwnerIn
<1> DEFINE Q == [t.queue EXCEPT ![k] = Append(@, c)]
           A == [t.waiting EXCEPT ![o] = <<k, c>>]
           u == [t EXCEPT !.queue = Q, !.waiting = A]
<1>1. Queue(t, c, k) = u  BY DEF Queue, Well, Table0
<1>2. ASSUME NEW j \in Keys, Stands(t.queue[j], c) PROVE FALSE
  <2>1. t.waiting[o] = <<j, c>>  BY <1>2 DEF Well, Indexed
  <2> QED BY <2>1, NobodyIs
<1>3. /\ \A j \in Keys : t.queue[j] \in Seq(Calls) /\ Distinct(t.queue[j])
      /\ \A j \in Keys : Q[j] = IF j = k THEN Append(t.queue[k], c) ELSE t.queue[j]
      /\ A \in [Owners -> (Keys \X Calls) \cup {Nobody}]
      /\ \A p \in Owners : A[p] = IF p = o THEN <<k, c>> ELSE t.waiting[p]
      /\ A = [t.waiting EXCEPT ![o] = <<k, c>>]
  BY DEF Well, Indexed, Table0
<1>4. Q \in [Keys -> Seq(Calls)]  BY DEF Well, Table0
<1> HIDE DEF Q, A
<1>5. /\ Distinct(Q[k]) /\ Q[k] # <<>>
      /\ \A d : Stands(Q[k], d) <=> Stands(t.queue[k], d) \/ d = c
      /\ \A d, e : Behind(t.queue[k], d, e) => Behind(Q[k], d, e)
      /\ Front(Q[k], o) = Front(t.queue[k], o)
      /\ \A p \in Owners : (\E d : Stands(t.queue[k], d) /\ OwnerOf(d) = p) => Front(Q[k], p) = Front(t.queue[k], p)
  <2> PICK q \in Seq(Calls) : q = t.queue[k]  BY <1>3
  <2>1. Distinct(q) /\ ~Stands(q, c)  BY <1>2, <1>3
  <2>2. /\ Append(q, c) # <<>>
        /\ Distinct(Append(q, c))
        /\ \A d : Stands(Append(q, c), d) <=> Stands(q, d) \/ d = c
        /\ \A d, e : Behind(q, d, e) => Behind(Append(q, c), d, e)
        /\ Front(Append(q, c), OwnerOf(c)) = Front(q, OwnerOf(c))
        /\ \A p \in Owners : (\E d : Stands(q, d) /\ OwnerOf(d) = p) => Front(Append(q, c), p) = Front(q, p)
    BY <2>1, AppendIs
  <2>3. Q[k] = Append(q, c)  BY <1>3
  <2> QED BY <2>2, <2>3
<1>6. /\ u \in Table0 /\ u.queue = Q /\ u.waiting = A
      /\ u.holder = t.holder /\ u.held = t.held /\ u.leases = t.leases /\ u.won = t.won
      /\ u.ended = t.ended /\ u.flying = t.flying /\ u.closed = t.closed /\ u.swept = t.swept
  BY <1>3, <1>4 DEF Well, Table0
<1> HIDE DEF u
<1>7. \A j \in Keys : \A d : Stands(u.queue[j], d) <=> Stands(t.queue[j], d) \/ (j = k /\ d = c)
  BY <1>3, <1>5, <1>6
<1>8. ASSUME NEW p \in Owners, NEW j \in Keys, NEW d \in Calls
      PROVE  u.waiting[p] = <<j, d>> <=> OwnerOf(d) = p /\ Stands(u.queue[j], d)
  <2>1. t.waiting[p] = <<j, d>> <=> OwnerOf(d) = p /\ Stands(t.queue[j], d)  BY DEF Well, Indexed
  <2>2. Stands(u.queue[j], d) <=> Stands(t.queue[j], d) \/ (j = k /\ d = c)  BY <1>7
  <2>3. CASE p = o
    <3>1. u.waiting[p] = <<k, c>>  BY <2>3, <1>3, <1>6
    <3>2. ~ (OwnerOf(d) = p /\ Stands(t.queue[j], d))  BY <2>1, <2>3, NobodyIs
    <3>3. u.waiting[p] = <<j, d>> <=> j = k /\ d = c  BY <3>1
    <3> QED BY <3>2, <3>3, <2>2, <2>3
  <2>4. CASE p # o
    <3>1. u.waiting[p] = t.waiting[p]  BY <2>4, <1>3, <1>6
    <3> QED BY <3>1, <2>1, <2>2, <2>4
  <2> QED BY <2>3, <2>4
<1>9. \A j \in Keys : Distinct(u.queue[j])  BY <1>3, <1>5, <1>6
<1>10. \A j \in Keys : \A d \in Calls : Stands(u.queue[j], d) => u.holder[j] # OwnerOf(d)
  BY <1>6, <1>7 DEF Well, Indexed
<1>11. Well(u)  BY <1>6, <1>8, <1>9, <1>10 DEF Well, Indexed
<1>12. \A j \in Keys : Given(t, j) => Given(u, j)  BY <1>3, <1>6 DEF Given
<1>13. \A j \in Keys : \A d, e : Behind(t.queue[j], d, e) => Behind(u.queue[j], d, e)  BY <1>3, <1>5, <1>6
<1>14. ASSUME NEW p \in Owners, p # o PROVE WaitsFor(u, p) = WaitsFor(t, p)
  <2>1. u.waiting[p] = t.waiting[p]  BY <1>14, <1>3, <1>6
  <2>2. CASE t.waiting[p] = Nobody  BY <2>1, <2>2 DEF WaitsFor
  <2>3. CASE t.waiting[p] # Nobody
    <3> PICK j \in Keys, d \in Calls : t.waiting[p] = <<j, d>>  BY <2>3 DEF Well, Table0
    <3>1. WaitsFor(u, p) = Ahead(u, j, p) /\ WaitsFor(t, p) = Ahead(t, j, p)  BY <2>1, <2>3 DEF WaitsFor
    <3>2. OwnerOf(d) = p /\ Stands(t.queue[j], d)  BY DEF Well, Indexed
    <3>3. Front(u.queue[j], p) = Front(t.queue[j], p)
      <4>1. CASE j = k  BY <4>1, <3>2, <1>5, <1>6
      <4>2. CASE j # k  BY <4>2, <1>3, <1>6
      <4> QED BY <4>1, <4>2
    <3> QED BY <3>1, <3>3, <1>6, AheadSame
  <2> QED BY <2>2, <2>3
<1>15. WaitsFor(u, o) = Ahead(t, k, o)
  <2>1. u.waiting[o] = <<k, c>> /\ u.waiting[o] # Nobody  BY <1>3, <1>6, NobodyIs
  <2>2. WaitsFor(u, o) = Ahead(u, k, o)  BY <2>1 DEF WaitsFor
  <2>3. Front(u.queue[k], o) = Front(t.queue[k], o)  BY <1>5, <1>6
  <2>4. u.holder[k] = t.holder[k] /\ \A p \in Owners : u.leases[p] = t.leases[p]  BY <1>6
  <2>5. Ahead(u, k, o) = Ahead(t, k, o)  BY <2>3, <2>4, AheadSame
  <2> QED BY <2>2, <2>5
<1> QED BY <1>1, <1>3, <1>6, <1>7, <1>11, <1>12, <1>13, <1>14, <1>15

\* An owner lets its keys go: the table from which they go to the next in line.
LEMMA FreedIs ==
    ASSUME NEW t, Well(t), NEW o \in Owners
    PROVE  LET f == Freed(t, o, t.held[o]) IN
           /\ Well(f)
           /\ f.held = [t.held EXCEPT ![o] = {}] /\ f.leases = [t.leases EXCEPT ![o] = 0]
           /\ f.ended = [t.ended EXCEPT ![o] = Lease]
           /\ \A x \in Tables : f.flying[x] = t.flying[x] \ {o}
           /\ f.queue = t.queue /\ f.waiting = t.waiting /\ f.won = t.won /\ f.closed = t.closed /\ f.swept = t.swept
           /\ \A j \in Keys : Given(t, j) => j \in t.held[o] \/ Given(f, j)
           /\ Shrinks(t, f)
<1> DEFINE mine == t.held[o]
           H == [k \in Keys |-> IF k \in mine THEN Nobody ELSE t.holder[k]]
           D == [t.held EXCEPT ![o] = {}]
           L == [t.leases EXCEPT ![o] = 0]
           E == [t.ended EXCEPT ![o] = Lease]
           F == [x \in Tables |-> t.flying[x] \ {o}]
           f == [t EXCEPT !.holder = H, !.held = D, !.leases = L, !.ended = E, !.flying = F]
<1>1. Freed(t, o, mine) = f  BY DEF Freed, Well, Table0
<1>2. /\ H \in [Keys -> Owners \cup {Nobody}] /\ L \in [Owners -> Left] /\ D \in [Owners -> SUBSET Keys]
      /\ E \in [Owners -> Left] /\ F \in [Tables -> SUBSET Owners]
      /\ \A j \in Keys : H[j] = IF j \in mine THEN Nobody ELSE t.holder[j]
      /\ \A p \in Owners : D[p] = IF p = o THEN {} ELSE t.held[p]
      /\ \A p \in Owners : p # o => L[p] = t.leases[p]
      /\ L[o] = 0
      /\ \A x \in Tables : F[x] = t.flying[x] \ {o}
  BY LeaseIs DEF Well, Table0
<1>3. D = [t.held EXCEPT ![o] = {}] /\ L = [t.leases EXCEPT ![o] = 0] /\ E = [t.ended EXCEPT ![o] = Lease]
  OBVIOUS
<1>m. \A j \in Keys : j \in mine <=> t.holder[j] = o  BY DEF Well, Indexed
<1> HIDE DEF H, D, L, E, F
<1>4. /\ f \in Table0 /\ f.holder = H /\ f.held = D /\ f.leases = L /\ f.ended = E /\ f.flying = F
      /\ f.queue = t.queue /\ f.waiting = t.waiting /\ f.won = t.won /\ f.closed = t.closed /\ f.swept = t.swept
  BY <1>2 DEF Well, Table0
<1> HIDE DEF f, mine
<1>5. ASSUME NEW p \in Owners, NEW j \in Keys PROVE j \in f.held[p] <=> f.holder[j] = p
  <2>1. j \in t.held[p] <=> t.holder[j] = p  BY DEF Well, Indexed
  <2>2. CASE j \in mine
    <3>1. f.holder[j] # p  BY <2>2, <1>2, <1>4, NobodyIs
    <3>2. j \notin f.held[p]  BY <2>1, <2>2, <1>m, <1>2, <1>4
    <3> QED BY <3>1, <3>2
  <2>3. CASE j \notin mine
    <3>1. f.holder[j] = t.holder[j]  BY <2>3, <1>2, <1>4
    <3>2. j \in f.held[p] <=> j \in t.held[p]  BY <2>1, <2>3, <1>m, <1>2, <1>4
    <3> QED BY <3>1, <3>2, <2>1
  <2> QED BY <2>2, <2>3
<1>6. \A j \in Keys : \A c \in Calls : Stands(f.queue[j], c) => f.holder[j] # OwnerOf(c)
  BY <1>2, <1>4, NobodyIs, OwnerIn DEF Well, Indexed
<1>7. Well(f)  BY <1>4, <1>5, <1>6 DEF Well, Indexed
<1>8. \A j \in Keys : Given(t, j) => j \in mine \/ Given(f, j)  BY <1>2, <1>4 DEF Given
<1>9. ASSUME NEW p \in Owners PROVE WaitsFor(f, p) \subseteq WaitsFor(t, p)
  <2>1. CASE t.waiting[p] = Nobody  BY <2>1, <1>4 DEF WaitsFor
  <2>2. CASE t.waiting[p] # Nobody
    <3> PICK j \in Keys : j = t.waiting[p][1]  BY <2>2 DEF Well, Table0
    <3>1. WaitsFor(f, p) = Ahead(f, j, p) /\ WaitsFor(t, p) = Ahead(t, j, p)  BY <2>2, <1>4 DEF WaitsFor
    <3>2. ASSUME NEW q \in Owners, q = f.holder[j], q # p, Live(f, q) PROVE q = t.holder[j] /\ Live(t, q)
      <4>1. q = t.holder[j]  BY <3>2, <1>2, <1>4, NobodyIs
      <4>2. q # o  BY <3>2, <1>2, <1>4 DEF Live
      <4> QED BY <4>1, <4>2, <3>2, <1>2, <1>4 DEF Live
    <3>3. f.queue[j] = t.queue[j]  BY <1>4
    <3> QED BY <3>1, <3>2, <3>3, AheadIn
  <2> QED BY <2>1, <2>2
<1>10. Shrinks(t, f)  BY <1>9 DEF Shrinks
<1> QED BY <1>1, <1>2, <1>3, <1>4, <1>7, <1>8, <1>10 DEF mine

\* An owner lets go of everything (Table::release): no key, no place, no append is left of it.
LEMMA ReleaseIs ==
    ASSUME NEW t, Well(t), NEW o \in Owners, \A j \in Keys : Given(t, j)
    PROVE  LET f == Freed(t, o, t.held[o])
               r == Release(t, o) IN
           /\ Well(r) /\ Moves(f, r) /\ InTurn(f, r) /\ Shrinks(t, r)
           /\ \A j \in Keys : Given(r, j)
           /\ r.held[o] = {} /\ r.waiting[o] = Nobody
<1> DEFINE mine == {k \in t.held[o] : t.holder[k] = o}
           f == Freed(t, o, mine)
           g == Give(f, mine)
           r == Unwait(g, o)
<1>1. mine = t.held[o] /\ mine \subseteq Keys  BY DEF Well, Indexed, Table0
<1>2. Release(t, o) = r  BY DEF Release
<1> HIDE DEF mine
<1>3. /\ Well(f) /\ Shrinks(t, f) /\ f.held[o] = {} /\ f.queue = t.queue
      /\ \A j \in Keys : Given(t, j) => j \in mine \/ Given(f, j)
  <2> DEFINE h == Freed(t, o, t.held[o])
  <2>1. t.held \in [Owners -> SUBSET Keys]  BY DEF Well, Table0
  <2>2. /\ Well(h) /\ h.held = [t.held EXCEPT ![o] = {}] /\ h.queue = t.queue
        /\ \A j \in Keys : Given(t, j) => j \in t.held[o] \/ Given(h, j)
        /\ Shrinks(t, h)
    BY FreedIs
  <2>3. f = h  BY <1>1
  <2> HIDE DEF h, f
  <2> QED BY <1>1, <2>1, <2>2, <2>3
<1>n. \A k \in mine : \A c \in Calls : Stands(f.queue[k], c) => OwnerOf(c) # o
  BY <1>1, <1>3 DEF Well, Indexed
<1> HIDE DEF f
<1>4. /\ Well(g) /\ Moves(f, g) /\ InTurn(f, g) /\ Shrinks(f, g)
      /\ \A j \in Keys : Given(g, j)
  BY <1>1, <1>3, GiveWell, GiveMoves, GiveShrinks
<1>5. g.held[o] = {}
  <2>1. g.held[o] = f.held[o] \cup {k \in Won(f, mine) : OwnerOf(First(f, k)) = o}
    BY <1>1, <1>3, GiveFields
  <2>2. ASSUME NEW k \in Won(f, mine) PROVE OwnerOf(First(f, k)) # o
    <3>1. k \in mine /\ f.queue[k] # <<>> /\ k \in Keys  BY <1>1 DEF Won
    <3>2. f.queue[k] \in Seq(Calls) /\ Distinct(f.queue[k])  BY <1>3, <3>1 DEF Well, Indexed, Table0
    <3>3. Stands(f.queue[k], First(f, k)) /\ First(f, k) \in Calls  BY <3>1, <3>2, TailIs DEF First
    <3> QED BY <3>1, <3>3, <1>n
  <2>3. {k \in Won(f, mine) : OwnerOf(First(f, k)) = o} = {}  BY <2>2
  <2> QED BY <2>1, <2>3, <1>3
<1> HIDE DEF g
<1>6. /\ Well(r) /\ Moves(g, r) /\ InTurn(g, r) /\ Shrinks(g, r)
      /\ \A j \in Keys : Given(r, j)
      /\ r.waiting[o] = Nobody /\ r.held[o] \subseteq g.held[o]
  BY <1>4, UnwaitWell
<1> HIDE DEF r
<1>7. Moves(f, r) /\ InTurn(f, r)  BY <1>3, <1>4, <1>6, MovesTwice, InTurnTwice
<1>8. Shrinks(t, r)  BY <1>3, <1>4, <1>6, ShrinksTwice
<1>9. r.held[o] = {}  BY <1>5, <1>6
<1> QED BY <1>1, <1>2, <1>6, <1>7, <1>8, <1>9 DEF f

\* A settled key has no holder whose lease ran out.
LEMMA SettledHolder ==
    ASSUME NEW t, Well(t), NEW k \in Keys
    PROVE  ~Lapsed(Settle(t, k), k)
<1> DEFINE u == Evict(t, k)
           v == Give(u, {k})
<1>1. Settle(t, k) = v  BY DEF Settle
<1>2. Well(u) /\ ~Lapsed(u, k)
  <2>1. CASE ~Lapsed(t, k)  BY <2>1 DEF Evict
  <2>2. CASE Lapsed(t, k)
    <3>1. u.holder[k] = Nobody  BY <2>2, EvictFields
    <3> QED BY <3>1, EvictWell DEF Lapsed
  <2> QED BY <2>1, <2>2, EvictWell
<1> HIDE DEF u
<1>3. /\ \A j \in Keys : v.holder[j] = IF j \in Won(u, {k}) THEN OwnerOf(First(u, j)) ELSE u.holder[j]
      /\ \A o \in Owners : v.leases[o] = IF \E j \in Won(u, {k}) : OwnerOf(First(u, j)) = o THEN Lease ELSE u.leases[o]
  <2>1. {k} \in SUBSET Keys  OBVIOUS
  <2> DEFINE ks == {k}
  <2> HIDE DEF ks
  <2>2. ks \in SUBSET Keys  BY <2>1 DEF ks
  <2>3. LET w == Give(u, ks) IN
        /\ \A j \in Keys : w.holder[j] = IF j \in Won(u, ks) THEN OwnerOf(First(u, j)) ELSE u.holder[j]
        /\ \A o \in Owners : w.leases[o] = IF \E j \in Won(u, ks) : OwnerOf(First(u, j)) = o THEN Lease ELSE u.leases[o]
    BY <1>2, <2>2, GiveFields
  <2> QED BY <2>3 DEF ks
<1> HIDE DEF v
<1>4. CASE k \in Won(u, {k})
  <2>1. OwnerOf(First(u, k)) \in Owners  BY <1>2, <1>4, FirstIs
  <2>2. v.leases[v.holder[k]] = Lease  BY <2>1, <1>3, <1>4, SMTT(60)
  <2> QED BY <2>2, <1>1, LeaseIs DEF Lapsed, Live
<1>5. CASE k \notin Won(u, {k})
  <2>1. Won(u, {k}) = {}  BY <1>5 DEF Won
  <2>2. v.holder[k] = u.holder[k] /\ \A o \in Owners : v.leases[o] = u.leases[o]  BY <2>1, <1>3
  <2>3. u.holder[k] \in Owners \cup {Nobody}  BY <1>2 DEF Well, Table0
  <2> QED BY <2>2, <2>3, <1>1, <1>2 DEF Lapsed, Live
<1> QED BY <1>4, <1>5

\* The Table an `ask` looks at.
LEMMA AskedIs ==
    ASSUME NEW t, Well(t), \A j \in Keys : Given(t, j), NEW o \in Owners, NEW k \in Keys, ~IsEnded(t, o)
    PROVE  LET a == Asked(t, o, k) IN
           /\ Well(a) /\ Moves(t, a) /\ InTurn(t, a)
           /\ \A j \in Keys : Given(a, j)
           /\ a.leases[o] = Lease /\ ~Lapsed(a, k)
           /\ t.waiting[o] = Nobody \/ Live(t, o) => Shrinks(t, a)
<1> DEFINE r == Renew(t, o)
           a == Settle(r, k)
<1>1. /\ Well(r) /\ Moves(t, r) /\ InTurn(t, r)
      /\ \A j \in Keys : Given(r, j)
      /\ r.leases[o] = Lease
      /\ t.waiting[o] = Nobody \/ Live(t, o) => Shrinks(t, r)
  BY RenewIs
<1>2. Asked(t, o, k) = a  BY DEF Asked
<1> HIDE DEF r
<1>3. /\ Well(a) /\ Moves(r, a) /\ InTurn(r, a) /\ Shrinks(r, a)
      /\ \A j \in Keys : Given(a, j)
      /\ ~Lapsed(a, k)
  BY <1>1, SettleWell, SettledHolder
<1> HIDE DEF a
<1>4. Moves(t, a) /\ InTurn(t, a)  BY <1>1, <1>3, MovesTwice, InTurnTwice
<1>5. t.waiting[o] = Nobody \/ Live(t, o) => Shrinks(t, a)  BY <1>1, <1>3, ShrinksTwice
<1>6. a.leases[o] = Lease  BY <1>1, <1>3 DEF Moves
<1> QED BY <1>2, <1>3, <1>4, <1>5, <1>6

\* A row held under a lease that lasts stays held.
LEMMA HolderStays ==
    ASSUME NEW t, NEW u, Well(t), Well(u), Moves(t, u), NEW k \in Keys, t.holder[k] # Nobody, ~Lapsed(t, k)
    PROVE  u.holder[k] = t.holder[k]
<1>1. t.holder[k] \in Owners /\ Live(t, t.holder[k])  BY DEF Lapsed, Well, Table0
<1>2. k \in t.held[t.holder[k]]  BY <1>1 DEF Well, Indexed
<1>3. k \in u.held[t.holder[k]]  BY <1>1, <1>2 DEF Moves
<1> QED BY <1>1, <1>3 DEF Well, Indexed

-----------------------------------------------------------------------------
(* The inductive invariant                                                 *)

\* The Table's own type is in TabInv.
TypeInv ==
    /\ sweeping \subseteq Keys
    /\ call \in [Calls -> Call]
    /\ own \in [Owners -> Owner]
    /\ gate \in Gate

\* The Table's indexes agree, and no free key has anybody in line.
TabInv == Well(tab) /\ \A k \in Keys : Given(tab, k)

\* A place belongs to a request that waits for that key; so does a grant nobody received.
PlaceOf(c) ==
    /\ \A k \in Keys : Stands(tab.queue[k], c) => call[c].step \in {"queued", "waiting"} /\ k = KeyOf(c)
    /\ c \in tab.won => call[c].step \in {"queued", "waiting"} /\ \A k \in Keys : ~Stands(tab.queue[k], c)
PlaceInv == \A c \in Calls : PlaceOf(c)

\* A request asks for some keys, of which it has some; and an owner next to the table has one.
CallOf(c) ==
    /\ call[c].step \in {"asking", "queued", "waiting"} => call[c].left # {}
    /\ call[c].step = "entering" => OwnerOf(c) \in Autos
    /\ call[c].left \subseteq call[c].keys
    /\ call[c].step # "unused" => c[2] <= own[OwnerOf(c)].last
    /\ OwnerOf(c) \notin Remote /\ call[c].step # "unused" => Heard(c)
    /\ Heard(c) => call[c].keys # {}
CallInv == \A c \in Calls : CallOf(c)

\* An owner that asks for nothing was told nothing, and one that never asked has nothing.
OwnOf(o) ==
    /\ own[o].step = "committing" => gate.step # "open" /\ gate.who = o
    /\ own[o].step = "taking" => own[o].last > 0
    /\ own[o].step \in {"appending", "lost"} => o \in Autos
    /\ ~Asks(o) => own[o].has = {}
    /\ own[o].step = "idle" => own[o].last = 0 /\ tab.held[o] = {} /\ \A x \in Tables : o \notin tab.flying[x]
OwnInv == \A o \in Owners : OwnOf(o)

\* The request an owner listens to.
Last(o) == <<o, own[o].last>>

\* An owner whose lease never ran out holds what it was told it holds, and what its request has.
TellCall(c) ==
    LET held == tab.held[OwnerOf(c)]
    IN  /\ call[c].step \in {"asking", "queued", "waiting"} => call[c].keys \ call[c].left \subseteq held
        /\ call[c].step \in {"entering", "granted"} => call[c].keys \subseteq held
        /\ c \in tab.won => KeyOf(c) \in held
TellOf(o) == own[o].sure => own[o].has \subseteq tab.held[o] /\ (own[o].step = "taking" => TellCall(Last(o)))
TellInv == \A o \in Owners : TellOf(o)

\* ... since its lease lasts, from the first key or the first append on.
LeaseOf(o) ==
    own[o].sure /\ own[o].step \notin {"ending", "over", "dead"} =>
        /\ tab.held[o] # {} => Live(tab, o)
        /\ \A x \in Tables : o \in tab.flying[x] => Live(tab, o)
LeaseInv == \A o \in Owners : LeaseOf(o)

\* One that let its locks go has none, and no place.
EndOf(o) == IsEnded(tab, o) => own[o].step = "over" /\ tab.held[o] = {} /\ tab.waiting[o] = Nobody
EndInv == \A o \in Owners : EndOf(o)

\* The gate closes its writer's tables, and no other.
GateInv ==
    /\ gate.step = "open" => gate.tables = {} /\ gate.who = Nobody
    /\ \A x \in Tables : tab.closed[x] = IF x \in gate.tables THEN 1 ELSE 0
    /\ gate.who # Nobody => own[gate.who].step = "committing"

IInv == TypeInv /\ TabInv /\ PlaceInv /\ CallInv /\ OwnInv /\ TellInv /\ LeaseInv /\ EndInv /\ GateInv

-----------------------------------------------------------------------------
(* What a step does to the Table                                           *)

\* An owner with a request at the leader.
Busy(o) == \E c \in Calls : OwnerOf(c) = o /\ call[c].step # "unused"

\* What any step but its release and the clock's does to an owner's leases and keys.
Turned(t, u, o) ==
    /\ Live(t, o) => t.held[o] \subseteq u.held[o]
    /\ u.leases[o] \in {t.leases[o], Lease}
    /\ u.held[o] \subseteq t.held[o] \/ (u.leases[o] = Lease /\ Busy(o) /\ ~IsEnded(t, o))
    /\ u.ended[o] = t.ended[o]
    /\ u.waiting[o] \in {t.waiting[o], Nobody} \/ (u.leases[o] = Lease /\ ~IsEnded(t, o))

\* Grants come from the queues.
Won1(t, u, c) == \E k \in Keys : /\ Stands(t.queue[k], c) /\ ~Stands(u.queue[k], c)
                                 /\ k \in u.held[OwnerOf(c)] /\ Live(u, OwnerOf(c))
Passed(t, u) ==
    /\ \A k \in Keys : \A c \in Calls : Stands(u.queue[k], c) => Stands(t.queue[k], c)
    /\ \A c \in u.won : c \in t.won \/ Won1(t, u, c)

LEMMA WaitsBusy ==
    ASSUME TabInv, PlaceInv, EndInv, NEW o \in Owners, tab.waiting[o] # Nobody
    PROVE  Busy(o) /\ ~IsEnded(tab, o)
<1> PICK k \in Keys, c \in Calls : tab.waiting[o] = <<k, c>>  BY DEF TabInv, Well, Table0
<1>1. OwnerOf(c) = o /\ Stands(tab.queue[k], c)  BY DEF TabInv, Well, Indexed
<1>2. call[c].step # "unused"  BY <1>1 DEF PlaceInv, PlaceOf
<1>3. ~IsEnded(tab, o)  BY DEF EndInv, EndOf
<1> QED BY <1>1, <1>2, <1>3 DEF Busy

LEMMA MovesTurn ==
    ASSUME TabInv, PlaceInv, EndInv, NEW u, Well(u), Moves(tab, u)
    PROVE  Passed(tab, u) /\ \A o \in Owners : Turned(tab, u, o)
<1>1. Passed(tab, u)  BY DEF Moves, Passed, Won1
<1>2. ASSUME NEW o \in Owners PROVE Turned(tab, u, o)
  <2>1. u.held[o] \subseteq tab.held[o] \/ (u.leases[o] = Lease /\ Busy(o) /\ ~IsEnded(tab, o))
    BY WaitsBusy DEF Moves
  <2> QED BY <2>1 DEF Moves, Turned
<1> QED BY <1>1, <1>2

LEMMA KeyIs ==
    ASSUME TypeInv, CallInv, NEW c \in Calls, call[c].step \in {"asking", "queued", "waiting"}
    PROVE  KeyOf(c) \in Keys /\ KeyOf(c) \in call[c].left /\ KeyOf(c) \in call[c].keys
<1> DEFINE S == call[c].left
<1>1. S \in SUBSET Nat /\ S # {} /\ S \subseteq Keys /\ S \subseteq call[c].keys
  <2>1. call[c] \in Call  BY DEF TypeInv
  <2> QED BY <2>1, KeysAssumption DEF CallInv, CallOf, Call
<1>2. PICK k \in S : \A j \in S : k <= j
  <2> HIDE DEF S
  <2>1. PICK d \in S : \A j \in S : ~ (<<j, d>> \in OpToRel(<, Nat))
    BY <1>1, NatLessThanWellFounded, WFMin
  <2>2. \A j \in S : d <= j
    <3> TAKE j \in S
    <3>1. j \in Nat /\ d \in Nat  BY <1>1
    <3>2. ~ (j < d)  BY <2>1, <3>1 DEF OpToRel
    <3> QED BY <3>1, <3>2
  <2> QED BY <2>2
<1>3. KeyOf(c) \in S
  BY <1>2 DEF KeyOf
<1> QED BY <1>1, <1>3

\* What every such step does.
Effect   == TabInv' /\ InTurn(tab, tab') /\ \A o \in Owners : Turned(tab, tab', o)
SameRest == tab'.flying = tab.flying /\ tab'.closed = tab.closed

LEMMA MovesEffect ==
    ASSUME TabInv, PlaceInv, EndInv, Well(tab'), Moves(tab, tab'), InTurn(tab, tab'), \A k \in Keys : Given(tab', k)
    PROVE  Effect /\ SameRest /\ Passed(tab, tab')
<1>1. TabInv'  BY DEF TabInv
<1>2. Passed(tab, tab') /\ \A o \in Owners : Turned(tab, tab', o)  BY MovesTurn
<1>3. SameRest  BY DEF Moves, SameRest
<1> QED BY <1>1, <1>2, <1>3 DEF Effect

LEMMA TurnedSame ==
    ASSUME NEW t, NEW u, NEW v, NEW o, Turned(t, u, o),
           v.held[o] = u.held[o], v.leases[o] = u.leases[o], v.ended[o] = u.ended[o], v.waiting[o] = u.waiting[o]
    PROVE  Turned(t, v, o)
BY DEF Turned

\* An ask: refused, granted, or queued.
LEMMA AskDoes ==
    ASSUME TypeInv, TabInv, PlaceInv, CallInv, EndInv, NEW c \in Calls, Ask(c)
    PROVE  LET o == OwnerOf(c)
               k == KeyOf(c) IN
           /\ Effect /\ SameRest /\ call[c].step = "asking" /\ k \in Keys /\ k \in call[c].left
           /\ \A d \in tab'.won : d \in tab.won \/ Won1(tab, tab', d)
           /\ \/ Over(c, "refused") /\ Passed(tab, tab')
              \/ ~IsEnded(tab, o) /\ Has(c, k) /\ k \in tab'.held[o] /\ Live(tab', o) /\ Passed(tab, tab')
              \/ /\ call' = [call EXCEPT ![c].step = "queued"]
                 /\ \A j \in Keys : \A d \in Calls : Stands(tab'.queue[j], d) => Stands(tab.queue[j], d) \/ (j = k /\ d = c)
<1> PICK o \in Owners : o = OwnerOf(c)  BY OwnerIn
<1>0. call[c].step = "asking"  BY DEF Ask, At
<1> PICK k \in Keys : k = KeyOf(c) /\ k \in call[c].left  BY <1>0, KeyIs
<1> DEFINE t == Asked(tab, o, k)
           u == Unwait(t, o)
<1>1. \/ IsEnded(tab, o) /\ Over(c, "refused") /\ tab' = tab
      \/ ~IsEnded(tab, o) /\ Free(t, o, k) /\ tab' = (IF t.holder[k] = o THEN t ELSE Grant(t, o, k)) /\ Has(c, k)
      \/ ~IsEnded(tab, o) /\ ~Free(t, o, k) /\ tab' = u /\ Over(c, "refused")
      \/ ~IsEnded(tab, o) /\ ~Free(t, o, k) /\ tab' = Queue(u, c, k) /\ call' = [call EXCEPT ![c].step = "queued"]
  BY DEF Ask
<1>w. Well(tab) /\ \A j \in Keys : Given(tab, j)  BY DEF TabInv
<1>2. CASE IsEnded(tab, o) /\ Over(c, "refused") /\ tab' = tab
  <2>1. Well(tab') /\ Moves(tab, tab') /\ InTurn(tab, tab') /\ \A j \in Keys : Given(tab', j)
    BY <1>2, <1>w, StaysPut
  <2>2. Effect /\ SameRest /\ Passed(tab, tab')  BY <2>1, MovesEffect
  <2>3. \A d \in tab'.won : d \in tab.won \/ Won1(tab, tab', d)  BY <2>2 DEF Passed
  <2> QED BY <1>0, <1>2, <2>2, <2>3
<1>3. CASE ~IsEnded(tab, o)
  <2>1. /\ Well(t) /\ Moves(tab, t) /\ InTurn(tab, t)
        /\ \A j \in Keys : Given(t, j)
        /\ t.leases[o] = Lease /\ ~Lapsed(t, k)
    BY <1>3, <1>w, AskedIs
  <2> HIDE DEF t
  <2>2. /\ Well(u) /\ Moves(t, u) /\ InTurn(t, u)
        /\ \A j \in Keys : Given(u, j)
        /\ u.waiting[o] = Nobody
    BY <2>1, UnwaitWell
  <2> HIDE DEF u
  <2>3. Moves(tab, u) /\ InTurn(tab, u) /\ u.leases[o] = Lease
    <3>1. Well(tab)  BY <1>w
    <3>2. Moves(tab, u)  BY <2>1, <2>2, <3>1, MovesTwice
    <3>3. InTurn(tab, u)  BY <2>1, <2>2, <3>1, InTurnTwice
    <3>4. Moves(t, u) /\ t.leases[o] = Lease  BY <2>1, <2>2
    <3>5. u.leases[o] = Lease  BY <3>4 DEF Moves
    <3> QED BY <3>2, <3>3, <3>5
  <2>b. Busy(o)  BY <1>0 DEF Busy
  <2>4. CASE Free(t, o, k) /\ t.holder[k] = o /\ tab' = t /\ Has(c, k)
    <3>1. Effect /\ SameRest /\ Passed(tab, tab')  BY <2>1, <2>4, MovesEffect
    <3>2. k \in tab'.held[o] /\ Live(tab', o)  BY <2>1, <2>4, LeaseIs DEF Well, Indexed, Live
    <3>3. \A d \in tab'.won : d \in tab.won \/ Won1(tab, tab', d)  BY <3>1 DEF Passed
    <3> QED BY <1>0, <1>3, <2>4, <3>1, <3>2, <3>3
  <2>5. CASE t.holder[k] = Nobody /\ tab' = Grant(t, o, k) /\ Has(c, k)
    <3>1. /\ Well(tab')
          /\ \A p \in Owners : tab'.leases[p] = IF p = o THEN Lease ELSE t.leases[p]
          /\ \A p \in Owners : tab'.held[p] = IF p = o THEN t.held[o] \cup {k} ELSE t.held[p]
          /\ tab'.queue = t.queue /\ tab'.waiting = t.waiting /\ tab'.won = t.won
          /\ tab'.ended = t.ended /\ tab'.flying = t.flying /\ tab'.closed = t.closed
          /\ \A j \in Keys : Given(t, j) => Given(tab', j)
      <4>1. Given(t, k) /\ t.holder[k] = Nobody /\ Well(t)  BY <2>1, <2>5
      <4> DEFINE g == Grant(t, o, k)
      <4>2. /\ Well(g)
            /\ \A p \in Owners : g.leases[p] = IF p = o THEN Lease ELSE t.leases[p]
            /\ \A p \in Owners : g.held[p] = IF p = o THEN t.held[o] \cup {k} ELSE t.held[p]
            /\ g.queue = t.queue /\ g.waiting = t.waiting /\ g.won = t.won
            /\ g.ended = t.ended /\ g.flying = t.flying /\ g.closed = t.closed
            /\ \A j \in Keys : Given(t, j) => Given(g, j)
        BY <4>1, GrantIs
      <4>3. tab' = g  BY <2>5
      <4> HIDE DEF g
      <4> QED BY <4>2, <4>3
    <3>2. Passed(tab, t) /\ \A p \in Owners : Turned(tab, t, p)  BY <2>1, MovesTurn
    <3>3. /\ \A p \in Owners : tab'.leases[p] = IF p = o THEN Lease ELSE t.leases[p]
          /\ \A p \in Owners : tab'.held[p] = IF p = o THEN t.held[o] \cup {k} ELSE t.held[p]
      BY <2>1, <3>1 DEF Well, Table0
    <3>4. ASSUME NEW p \in Owners PROVE Turned(tab, tab', p)
      <4>1. CASE p # o  BY <4>1, <3>1, <3>2, <3>3, TurnedSame
      <4>2. CASE p = o  BY <4>2, <3>1, <3>2, <3>3, <2>b, <1>3 DEF Turned
      <4> QED BY <4>1, <4>2
    <3>5. InTurn(tab, tab')  BY <2>1, <3>1 DEF InTurn
    <3>6. TabInv'  BY <2>1, <3>1 DEF TabInv
    <3>7. SameRest  BY <2>1, <3>1 DEF Moves, SameRest
    <3>8. \A d \in tab'.won : d \in tab.won \/ Won1(tab, tab', d)
      <4> SUFFICES ASSUME NEW d \in tab'.won, d \notin tab.won PROVE Won1(tab, tab', d)  OBVIOUS
      <4>1. Won1(tab, t, d)  BY <3>1, <3>2 DEF Passed
      <4>2. d \in Calls  BY <3>1 DEF Well, Table0
      <4>3. OwnerOf(d) \in Owners  BY <4>2, OwnerIn
      <4> QED BY <4>1, <4>3, <3>1, <3>3, LeaseIs DEF Won1, Live
    <3>9. Passed(tab, tab')  BY <3>1, <3>2, <3>8 DEF Passed
    <3>10. k \in tab'.held[o] /\ Live(tab', o)  BY <3>3, LeaseIs DEF Live
    <3>11. Effect  BY <3>4, <3>5, <3>6 DEF Effect
    <3> QED BY <1>0, <1>3, <2>5, <3>7, <3>8, <3>9, <3>10, <3>11
  <2>6. CASE tab' = u /\ Over(c, "refused")
    <3>1. Effect /\ SameRest /\ Passed(tab, tab')  BY <2>2, <2>3, <2>6, MovesEffect
    <3>3. \A d \in tab'.won : d \in tab.won \/ Won1(tab, tab', d)  BY <3>1 DEF Passed
    <3> QED BY <1>0, <2>6, <3>1, <3>3
  <2>7. CASE ~Free(t, o, k) /\ tab' = Queue(u, c, k) /\ call' = [call EXCEPT ![c].step = "queued"]
    <3>1. t.holder[k] \notin {o, Nobody}  BY <2>7 DEF Free
    <3>2. u.holder[k] \notin {o, Nobody}  BY <2>1, <2>2, <3>1, HolderStays
    <3>3. /\ Well(tab')
          /\ tab'.waiting = [u.waiting EXCEPT ![o] = <<k, c>>]
          /\ tab'.held = u.held /\ tab'.leases = u.leases /\ tab'.won = u.won
          /\ tab'.ended = u.ended /\ tab'.flying = u.flying /\ tab'.closed = u.closed
          /\ \A j \in Keys : Given(u, j) => Given(tab', j)
          /\ \A j \in Keys : \A d : Stands(tab'.queue[j], d) <=> Stands(u.queue[j], d) \/ (j = k /\ d = c)
          /\ \A j \in Keys : \A d, e : Behind(u.queue[j], d, e) => Behind(tab'.queue[j], d, e)
      BY <2>2, <2>7, <3>2, QueueIs, SMTT(60)
    <3>4. Passed(tab, u) /\ \A p \in Owners : Turned(tab, u, p)  BY <2>2, <2>3, MovesTurn
    <3>5. ASSUME NEW p \in Owners PROVE Turned(tab, tab', p)
      <4>1. CASE p # o
        <5>1. tab'.waiting[p] = u.waiting[p]  BY <4>1, <3>3, <2>2 DEF Well, Table0
        <5> QED BY <5>1, <3>3, <3>4, TurnedSame
      <4>2. CASE p = o
        <5>1. tab'.leases[o] = Lease /\ ~IsEnded(tab, o)  BY <1>3, <2>3, <3>3
        <5> QED BY <5>1, <4>2, <3>3, <3>4 DEF Turned
      <4> QED BY <4>1, <4>2
    <3>6. \A j \in Keys : \A d \in Calls : Stands(tab'.queue[j], d) => Stands(tab.queue[j], d) \/ (j = k /\ d = c)
      BY <3>3, <3>4 DEF Passed
    <3>n. \A j \in Keys : ~Stands(tab.queue[j], c)  BY <1>0 DEF PlaceInv, PlaceOf
    <3>7. InTurn(tab, tab')
      <4> SUFFICES ASSUME NEW j \in Keys, NEW d \in Calls, NEW e \in Calls,
                          d # e, Behind(tab.queue[j], d, e), Stands(tab'.queue[j], d)
                   PROVE  Behind(tab'.queue[j], d, e) /\ (Stands(tab.queue[j], e) /\ e \in tab'.won => e \in tab.won)
        BY DEF InTurn
      <4>1. Stands(tab.queue[j], d)  BY DEF Behind
      <4>2. Stands(u.queue[j], d)  BY <4>1, <3>n, <3>3
      <4>3. Behind(u.queue[j], d, e) /\ (Stands(tab.queue[j], e) /\ e \in u.won => e \in tab.won)
        BY <4>2, <2>3 DEF InTurn
      <4> QED BY <4>3, <3>3
    <3>8. TabInv'  BY <2>2, <3>3 DEF TabInv
    <3>9. SameRest  BY <2>3, <3>3 DEF Moves, SameRest
    <3>10. \A d \in tab'.won : d \in tab.won \/ Won1(tab, tab', d)
      <4> SUFFICES ASSUME NEW d \in tab'.won, d \notin tab.won PROVE Won1(tab, tab', d)  OBVIOUS
      <4>1. d \in u.won  BY <3>3
      <4>2. Won1(tab, u, d)  BY <4>1, <3>4 DEF Passed
      <4>3. d # c  BY <4>2, <3>n DEF Won1
      <4> QED BY <4>2, <4>3, <3>3 DEF Won1, Live
    <3>11. Effect  BY <3>5, <3>7, <3>8 DEF Effect
    <3> QED BY <1>0, <2>7, <3>6, <3>9, <3>10, <3>11
  <2> QED BY <1>1, <1>3, <2>4, <2>5, <2>6, <2>7 DEF Free
<1> QED BY <1>1, <1>2, <1>3

LEMMA RestEffect ==
    ASSUME TabInv, tab' \in Table0, tab'.holder = tab.holder, tab'.queue = tab.queue, tab'.held = tab.held,
           tab'.leases = tab.leases, tab'.ended = tab.ended, tab'.waiting = tab.waiting, tab'.won = tab.won
    PROVE  Effect /\ Passed(tab, tab')
<1>1. TabInv'  BY DEF TabInv, Well, Indexed, Given
<1>2. InTurn(tab, tab')  BY DEF InTurn
<1>3. \A o \in Owners : Turned(tab, tab', o)  BY DEF Turned
<1>4. Passed(tab, tab')  BY DEF Passed
<1> QED BY <1>1, <1>2, <1>3, <1>4 DEF Effect

\* A grant is received.
LEMMA UnwonIs ==
    ASSUME NEW t, Well(t), NEW c \in Calls, NEW u, u = [t EXCEPT !.won = @ \ {c}]
    PROVE  /\ Well(u) /\ Moves(t, u) /\ InTurn(t, u) /\ Shrinks(t, u)
           /\ \A j \in Keys : Given(t, j) => Given(u, j)
           /\ u.won = t.won \ {c} /\ u.queue = t.queue /\ u.held = t.held
<1>1. /\ u \in Table0 /\ u.won = t.won \ {c}
      /\ u.holder = t.holder /\ u.queue = t.queue /\ u.held = t.held /\ u.leases = t.leases /\ u.waiting = t.waiting
      /\ u.ended = t.ended /\ u.flying = t.flying /\ u.closed = t.closed /\ u.swept = t.swept
  BY DEF Well, Table0
<1>2. Well(u)  BY <1>1 DEF Well, Indexed
<1>3. Moves(t, u)  BY <1>1 DEF Moves
<1>4. InTurn(t, u)  BY <1>1 DEF InTurn
<1>5. ASSUME NEW o \in Owners PROVE WaitsFor(u, o) = WaitsFor(t, o)
  BY <1>1 DEF WaitsFor, Ahead, Live
<1>6. Shrinks(t, u)  BY <1>5 DEF Shrinks
<1>7. \A j \in Keys : Given(t, j) => Given(u, j)  BY <1>1 DEF Given
<1> QED BY <1>1, <1>2, <1>3, <1>4, <1>6, <1>7

\* A grant that is received.
LEMMA ReceiveDoes ==
    ASSUME TypeInv, TabInv, PlaceInv, CallInv, EndInv, NEW c \in Calls, Receive(c)
    PROVE  /\ Effect /\ SameRest /\ Passed(tab, tab') /\ Shrinks(tab, tab')
           /\ call[c].step = "waiting" /\ c \in tab.won /\ Has(c, KeyOf(c))
           /\ tab'.held = tab.held
           /\ c \notin tab'.won /\ \A k \in Keys : ~Stands(tab'.queue[k], c)
<1>1. call[c].step = "waiting" /\ c \in tab.won /\ Has(c, KeyOf(c)) /\ tab' = [tab EXCEPT !.won = @ \ {c}]
  BY DEF Receive, At
<1>2. Well(tab) /\ \A j \in Keys : Given(tab, j)  BY DEF TabInv
<1>3. /\ Well(tab') /\ Moves(tab, tab') /\ InTurn(tab, tab') /\ Shrinks(tab, tab')
      /\ \A j \in Keys : Given(tab', j)
      /\ tab'.won = tab.won \ {c} /\ tab'.queue = tab.queue /\ tab'.held = tab.held
  BY <1>1, <1>2, UnwonIs
<1>4. \A k \in Keys : ~Stands(tab.queue[k], c)  BY <1>1 DEF PlaceInv, PlaceOf
<1> QED BY <1>1, <1>3, <1>4, MovesEffect

\* A place that is given up, wherever it stands, leaves nothing behind.
LEMMA CancelDoes ==
    ASSUME TypeInv, TabInv, PlaceInv, CallInv, EndInv, NEW c \in Calls, call[c].step \in {"queued", "waiting"},
           NEW t, Well(t), Moves(tab, t), InTurn(tab, t), \A j \in Keys : Given(t, j),
           tab' = Cancel(t, KeyOf(c), c)
    PROVE  /\ Effect /\ SameRest /\ Passed(tab, tab')
           /\ Shrinks(tab, t) => Shrinks(tab, tab')
           /\ c \notin tab'.won /\ \A k \in Keys : ~Stands(tab'.queue[k], c)
<1> PICK k \in Keys : k = KeyOf(c)  BY KeyIs
<1>1. \A j \in Keys : Stands(t.queue[j], c) => j = k
  BY DEF PlaceInv, PlaceOf, Moves
<1> DEFINE u == Cancel(t, k, c)
<1>2. /\ Well(u) /\ Moves(t, u) /\ InTurn(t, u) /\ Shrinks(t, u)
      /\ \A j \in Keys : Given(t, j) => Given(u, j)
      /\ c \notin u.won /\ \A j \in Keys : ~Stands(u.queue[j], c)
  BY <1>1, CancelWell
<1>3. tab' = u  OBVIOUS
<1> HIDE DEF u
<1>4. Moves(tab, u) /\ InTurn(tab, u)  BY <1>2, MovesTwice, InTurnTwice DEF TabInv
<1>5. Shrinks(tab, t) => Shrinks(tab, u)  BY <1>2, ShrinksTwice
<1>6. Effect /\ SameRest /\ Passed(tab, tab')  BY <1>2, <1>3, <1>4, MovesEffect
<1> QED BY <1>2, <1>3, <1>5, <1>6

LEMMA LookedIs ==
    ASSUME TypeInv, TabInv, PlaceInv, CallInv, NEW c \in Calls, call[c].step = "waiting"
    PROVE  LET t == Looked(c) IN
           /\ Well(t) /\ Moves(tab, t) /\ InTurn(tab, t)
           /\ \A j \in Keys : Given(t, j)
           /\ (\A o \in Owners : tab.waiting[o] # Nobody => Live(tab, o)) => Shrinks(tab, t)
<1> PICK k \in Keys : k = KeyOf(c)  BY KeyIs
<1> PICK o \in Owners : o = OwnerOf(c)  BY OwnerIn
<1> DEFINE s == Settle(tab, k)
           t == Renew(s, o)
<1>0. Well(tab) /\ \A j \in Keys : Given(tab, j)  BY DEF TabInv
<1>1. Looked(c) = t  BY DEF Looked
<1>2. Well(s) /\ Moves(tab, s) /\ InTurn(tab, s) /\ Shrinks(tab, s) /\ \A j \in Keys : Given(s, j)
  BY <1>0, SettleWell
<1> HIDE DEF s
<1>3. /\ Well(t) /\ Moves(s, t) /\ InTurn(s, t)
      /\ \A j \in Keys : Given(t, j)
      /\ s.waiting[o] = Nobody \/ Live(s, o) => Shrinks(s, t)
  BY <1>2, RenewIs
<1> HIDE DEF t
<1>4. Moves(tab, t) /\ InTurn(tab, t)  BY <1>0, <1>2, <1>3, MovesTwice, InTurnTwice
<1>5. ASSUME \A p \in Owners : tab.waiting[p] # Nobody => Live(tab, p) PROVE Shrinks(tab, t)
  <2>1. s.waiting[o] = Nobody \/ Live(s, o)  BY <1>2, <1>5, LeaseIs DEF Moves, Live
  <2> QED BY <2>1, <1>2, <1>3, ShrinksTwice
<1> QED BY <1>1, <1>3, <1>4, <1>5

\* A tick of `wait_for`.
LEMMA LookDoes ==
    ASSUME TypeInv, TabInv, PlaceInv, CallInv, EndInv, NEW c \in Calls, Look(c)
    PROVE  /\ Effect /\ SameRest /\ Passed(tab, tab') /\ call[c].step = "waiting"
           /\ (\A o \in Owners : tab.waiting[o] # Nobody => Live(tab, o)) => Shrinks(tab, tab')
           /\ \/ call' = call
              \/ /\ Has(c, KeyOf(c))
                 /\ c \in tab.won \/ (KeyOf(c) \in tab'.held[OwnerOf(c)] /\ Live(tab', OwnerOf(c)))
                 /\ c \notin tab'.won /\ \A k \in Keys : ~Stands(tab'.queue[k], c)
<1>1. call[c].step = "waiting"  BY DEF Look, At
<1> DEFINE t == Looked(c)
<1>2. /\ Well(t) /\ Moves(tab, t) /\ InTurn(tab, t)
      /\ \A j \in Keys : Given(t, j)
      /\ (\A o \in Owners : tab.waiting[o] # Nobody => Live(tab, o)) => Shrinks(tab, t)
  BY <1>1, LookedIs
<1>3. \/ c \in t.won /\ tab' = [t EXCEPT !.won = @ \ {c}] /\ Has(c, KeyOf(c))
      \/ tab' = t /\ call' = call
  BY DEF Look
<1> HIDE DEF t
<1>4. CASE tab' = t /\ call' = call
  BY <1>1, <1>2, <1>4, MovesEffect
<1>5. CASE c \in t.won /\ tab' = [t EXCEPT !.won = @ \ {c}] /\ Has(c, KeyOf(c))
  <2>1. /\ Well(tab') /\ Moves(t, tab') /\ InTurn(t, tab') /\ Shrinks(t, tab')
        /\ \A j \in Keys : Given(tab', j)
        /\ tab'.won = t.won \ {c} /\ tab'.queue = t.queue /\ tab'.held = t.held
    BY <1>2, <1>5, UnwonIs
  <2>2. Moves(tab, tab') /\ InTurn(tab, tab')  BY <1>2, <2>1, MovesTwice, InTurnTwice DEF TabInv
  <2>3. Effect /\ SameRest /\ Passed(tab, tab')  BY <2>1, <2>2, MovesEffect
  <2>4. (\A o \in Owners : tab.waiting[o] # Nobody => Live(tab, o)) => Shrinks(tab, tab')
    BY <1>2, <2>1, ShrinksTwice
  <2>5. c \in tab.won \/ Won1(tab, t, c)
    BY <1>5, <1>2, MovesTurn DEF Passed
  <2>6. CASE c \in tab.won
    <3>1. \A k \in Keys : ~Stands(tab'.queue[k], c)  BY <2>6, <2>2 DEF PlaceInv, PlaceOf, Moves
    <3> QED BY <3>1, <1>1, <1>5, <2>1, <2>3, <2>4, <2>6
  <2>7. CASE Won1(tab, t, c)
    <3> PICK k \in Keys : /\ Stands(tab.queue[k], c) /\ ~Stands(t.queue[k], c)
                          /\ k \in t.held[OwnerOf(c)] /\ Live(t, OwnerOf(c))
      BY <2>7 DEF Won1
    <3>1. k = KeyOf(c)  BY DEF PlaceInv, PlaceOf
    <3>2. Live(tab', OwnerOf(c))  BY <2>1, OwnerIn, LeaseIs DEF Moves, Live
    <3>3. \A j \in Keys : ~Stands(tab'.queue[j], c)  BY <3>1, <2>1, <2>2 DEF PlaceInv, PlaceOf, Moves
    <3> QED BY <3>1, <3>2, <3>3, <1>1, <1>5, <2>1, <2>3, <2>4
  <2> QED BY <2>5, <2>6, <2>7
<1> QED BY <1>3, <1>4, <1>5

\* Every other way out of a request.
LEMMA LeaveDoes ==
    ASSUME TypeInv, TabInv, PlaceInv, CallInv, EndInv, NEW c \in Calls, PlaceGone(c) \/ DontWait(c) \/ GiveUp(c)
    PROVE  /\ Effect /\ SameRest /\ Passed(tab, tab') /\ Over(c, "refused")
           /\ (\A o \in Owners : tab.waiting[o] # Nobody => Live(tab, o)) => Shrinks(tab, tab')
           /\ call[c].step # "unused"
           /\ c \notin tab'.won /\ \A k \in Keys : ~Stands(tab'.queue[k], c)
<1>0. Well(tab) /\ \A j \in Keys : Given(tab, j)  BY DEF TabInv
<1>1. \/ call[c].step \in {"queued", "waiting"} /\ tab' = Cancel(tab, KeyOf(c), c)
      \/ call[c].step = "waiting" /\ tab' = Cancel(Looked(c), KeyOf(c), c)
      \/ call[c].step = "entering" /\ tab' = tab
  BY DEF PlaceGone, DontWait, GiveUp, At
<1>2. Over(c, "refused") /\ call[c].step # "unused"
  BY DEF PlaceGone, DontWait, GiveUp, At
<1>3. CASE call[c].step \in {"queued", "waiting"} /\ tab' = Cancel(tab, KeyOf(c), c)
  BY <1>0, <1>2, <1>3, StaysPut, CancelDoes
<1>4. CASE call[c].step = "waiting" /\ tab' = Cancel(Looked(c), KeyOf(c), c)
  <2> DEFINE t == Looked(c)
  <2>1. /\ Well(t) /\ Moves(tab, t) /\ InTurn(tab, t)
        /\ \A j \in Keys : Given(t, j)
        /\ (\A o \in Owners : tab.waiting[o] # Nobody => Live(tab, o)) => Shrinks(tab, t)
    BY <1>4, LookedIs
  <2>2. tab' = Cancel(t, KeyOf(c), c)  BY <1>4
  <2> HIDE DEF t
  <2>3. /\ Effect /\ SameRest /\ Passed(tab, tab')
        /\ Shrinks(tab, t) => Shrinks(tab, tab')
        /\ c \notin tab'.won /\ \A k \in Keys : ~Stands(tab'.queue[k], c)
    BY <1>4, <2>1, <2>2, CancelDoes
  <2> QED BY <2>1, <2>3, <1>2
<1>5. CASE call[c].step = "entering" /\ tab' = tab
  <2>1. Effect /\ SameRest /\ Passed(tab, tab')  BY <1>0, <1>5, StaysPut, MovesEffect
  <2>2. c \notin tab.won /\ \A k \in Keys : ~Stands(tab.queue[k], c)  BY <1>5 DEF PlaceInv, PlaceOf
  <2> QED BY <2>1, <2>2, <1>2, <1>5, StaysPut
<1> QED BY <1>1, <1>3, <1>4, <1>5

\* Steps that leave every lease where it was, and every place.
Rest == /\ tab'.holder = tab.holder /\ tab'.queue = tab.queue /\ tab'.held = tab.held /\ tab'.won = tab.won
        /\ tab'.waiting = tab.waiting

LEMMA RestShrinks ==
    ASSUME Rest, TabInv, \A o \in Owners : Live(tab', o) => Live(tab, o)
    PROVE  Shrinks(tab, tab')
<1>1. ASSUME NEW o \in Owners PROVE WaitsFor(tab', o) \subseteq WaitsFor(tab, o)
  BY <1>1 DEF WaitsFor, Ahead, Rest
<1> QED BY <1>1 DEF Shrinks

\* A write next to the Table leaves before it waits.
LEMMA WaitDoes ==
    ASSUME TypeInv, TabInv, NEW c \in Calls, Wait(c)
    PROVE  /\ Effect /\ Passed(tab, tab') /\ Shrinks(tab, tab') /\ tab'.closed = tab.closed
           /\ \A x \in Tables : tab'.flying[x] \subseteq tab.flying[x]
           /\ \A x \in Tables, p \in Owners : p \in tab.flying[x] /\ p # OwnerOf(c) => p \in tab'.flying[x]
           /\ call[c].step = "queued" /\ call' = [call EXCEPT ![c].step = "waiting"]
           /\ tab'.held = tab.held
<1> PICK o \in Owners : o = OwnerOf(c)  BY OwnerIn
<1>1. call[c].step = "queued" /\ call' = [call EXCEPT ![c].step = "waiting"]  BY DEF Wait, At
<1>2. tab' = tab \/ (o \in Autos /\ tab' = [tab EXCEPT !.flying[TableOf[o]] = @ \ {o}])
  BY DEF Wait
<1>3. CASE tab' = tab
  BY <1>1, <1>3, RestEffect, RestShrinks DEF Rest, TabInv, Well
<1>4. CASE o \in Autos /\ tab' = [tab EXCEPT !.flying[TableOf[o]] = @ \ {o}]
  <2>1. TableOf[o] \in Tables  BY <1>4, TablesAssumption
  <2> DEFINE F == [tab.flying EXCEPT ![TableOf[o]] = @ \ {o}]
  <2>2. F \in [Tables -> SUBSET Owners] /\ \A x \in Tables : F[x] = IF x = TableOf[o] THEN tab.flying[x] \ {o} ELSE tab.flying[x]
    BY <2>1 DEF TabInv, Well, Table0
  <2>3. tab' = [tab EXCEPT !.flying = F]  BY <1>4 DEF TabInv, Well, Table0
  <2> HIDE DEF F
  <2>4. /\ tab' \in Table0 /\ tab'.flying = F /\ tab'.closed = tab.closed
        /\ tab'.holder = tab.holder /\ tab'.queue = tab.queue /\ tab'.held = tab.held
        /\ tab'.leases = tab.leases /\ tab'.ended = tab.ended /\ tab'.waiting = tab.waiting /\ tab'.won = tab.won
    BY <2>2, <2>3 DEF TabInv, Well, Table0
  <2>5. Effect /\ Passed(tab, tab')  BY <2>4, RestEffect
  <2>6. Shrinks(tab, tab')  BY <2>4, RestShrinks DEF Rest, Live
  <2> QED BY <1>1, <2>2, <2>4, <2>5, <2>6
<1> QED BY <1>2, <1>3, <1>4

\* An appender enters its table, or waits for it to open (Table::enter).
LEMMA EnterDoes ==
    ASSUME TypeInv, TabInv, PlaceInv, CallInv, EndInv, NEW c \in Calls, Enter(c)
    PROVE  LET o == OwnerOf(c) IN
           /\ Effect /\ Passed(tab, tab') /\ tab'.closed = tab.closed /\ call[c].step = "entering" /\ o \in Autos
           /\ (\A p \in Owners : tab.waiting[p] # Nobody => Live(tab, p)) => Shrinks(tab, tab')
           /\ tab'.held = tab.held
           /\ ~IsEnded(tab, o) => Live(tab', o)
           /\ \/ call' = call /\ tab'.flying = tab.flying
              \/ /\ MayEnter(tab, o, TableOf[o]) /\ Over(c, "granted")
                 /\ \A x \in Tables : tab'.flying[x] = IF x = TableOf[o] THEN tab.flying[x] \cup {o} ELSE tab.flying[x]
<1> PICK o \in Owners : o = OwnerOf(c)  BY OwnerIn
<1>1. call[c].step = "entering"  BY DEF Enter, At
<1>2. o \in Autos  BY <1>1 DEF CallInv, CallOf
<1> PICK x \in Tables : x = TableOf[o]  BY <1>2, TablesAssumption
<1>0. Well(tab) /\ \A j \in Keys : Given(tab, j)  BY DEF TabInv
<1> DEFINE r == Renew(tab, o)
<1>3. /\ Well(r) /\ Moves(tab, r) /\ InTurn(tab, r)
      /\ \A j \in Keys : Given(tab, j) => Given(r, j)
      /\ r.waiting = tab.waiting /\ r.held = tab.held /\ r.holder = tab.holder /\ r.queue = tab.queue /\ r.won = tab.won
      /\ ~IsEnded(tab, o) => r.leases[o] = Lease
      /\ tab.waiting[o] = Nobody \/ Live(tab, o) => Shrinks(tab, r)
  BY <1>0, RenewIs
<1>4. \/ ~MayEnter(tab, o, x) /\ tab' = r /\ call' = call
      \/ MayEnter(tab, o, x) /\ tab' = [r EXCEPT !.flying[x] = @ \cup {o}] /\ Over(c, "granted")
  BY DEF Enter
<1> HIDE DEF r
<1>5. Passed(tab, r) /\ \A p \in Owners : Turned(tab, r, p)  BY <1>3, MovesTurn
<1>6. CASE tab' = r /\ call' = call
  <2>1. Effect /\ Passed(tab, tab') /\ SameRest  BY <1>0, <1>3, <1>6, MovesEffect
  <2>2. ~IsEnded(tab, o) => Live(tab', o)  BY <1>3, <1>6, LeaseIs DEF Live
  <2> QED BY <1>1, <1>2, <1>3, <1>6, <2>1, <2>2 DEF SameRest
<1>7. CASE MayEnter(tab, o, x) /\ tab' = [r EXCEPT !.flying[x] = @ \cup {o}] /\ Over(c, "granted")
  <2> DEFINE F == [r.flying EXCEPT ![x] = @ \cup {o}]
  <2>1. F \in [Tables -> SUBSET Owners] /\ \A y \in Tables : F[y] = IF y = x THEN tab.flying[y] \cup {o} ELSE tab.flying[y]
    <3>1. r.flying \in [Tables -> SUBSET Owners] /\ r.flying = tab.flying  BY <1>3 DEF Well, Table0, Moves
    <3> QED BY <3>1
  <2>2. tab' = [r EXCEPT !.flying = F]  BY <1>7, <1>3 DEF Well, Table0
  <2> HIDE DEF F
  <2>3. /\ tab' \in Table0 /\ tab'.flying = F /\ tab'.closed = tab.closed
        /\ tab'.holder = r.holder /\ tab'.queue = r.queue /\ tab'.held = r.held
        /\ tab'.leases = r.leases /\ tab'.ended = r.ended /\ tab'.waiting = r.waiting /\ tab'.won = r.won
    BY <2>1, <2>2, <1>3 DEF Well, Table0, Moves
  <2>4. TabInv'  BY <1>0, <1>3, <2>3 DEF TabInv, Well, Indexed, Given
  <2>5. InTurn(tab, tab')  BY <1>3, <2>3 DEF InTurn
  <2>6. \A p \in Owners : Turned(tab, tab', p)  BY <1>5, <2>3 DEF Turned
  <2>7. Passed(tab, tab')  BY <1>3, <2>3 DEF Passed
  <2>8. ASSUME \A p \in Owners : tab.waiting[p] # Nobody => Live(tab, p) PROVE Shrinks(tab, tab')
    <3>1. Shrinks(tab, r)  BY <1>3, <2>8
    <3>2. \A p \in Owners : WaitsFor(tab', p) = WaitsFor(r, p)  BY <2>3 DEF WaitsFor, Ahead, Live
    <3> QED BY <3>1, <3>2, <2>3 DEF Shrinks
  <2>9. ~IsEnded(tab, o) => Live(tab', o)  BY <1>3, <2>3, LeaseIs DEF Live
  <2> QED BY <1>1, <1>2, <1>3, <1>7, <2>1, <2>3, <2>4, <2>5, <2>6, <2>7, <2>8, <2>9 DEF Effect
<1> QED BY <1>4, <1>6, <1>7

\* A renewal.
LEMMA UpkeepDoes ==
    ASSUME TypeInv, TabInv, PlaceInv, CallInv, EndInv, NEW o \in Owners, Upkeep(o)
    PROVE  /\ Effect /\ Passed(tab, tab') /\ SameRest
           /\ (\A p \in Owners : tab.waiting[p] # Nobody => Live(tab, p)) => Shrinks(tab, tab')
<1>0. Well(tab) /\ \A j \in Keys : Given(tab, j)  BY DEF TabInv
<1> DEFINE r == Renew(tab, o)
<1>1. tab' = r  BY DEF Upkeep
<1>3. /\ Well(r) /\ Moves(tab, r) /\ InTurn(tab, r)
      /\ \A j \in Keys : Given(tab, j) => Given(r, j)
      /\ tab.waiting[o] = Nobody \/ Live(tab, o) => Shrinks(tab, r)
  BY <1>0, RenewIs
<1> HIDE DEF r
<1> QED BY <1>0, <1>1, <1>3, MovesEffect

\* The end of a sweep forgets no place that is still in a queue: it drops none.
LEMMA SweptIs ==
    ASSUME NEW t, Well(t)
    PROVE  LET u == Swept(t) IN
           /\ u \in Table0
           /\ u.waiting = t.waiting /\ u.holder = t.holder /\ u.queue = t.queue /\ u.held = t.held
           /\ u.leases = t.leases /\ u.ended = t.ended /\ u.won = t.won /\ u.flying = t.flying /\ u.closed = t.closed
<1> DEFINE A == [o \in Owners |-> IF t.waiting[o] # Nobody /\ Stands(t.queue[t.waiting[o][1]], t.waiting[o][2])
                                  THEN t.waiting[o] ELSE Nobody]
<1>1. Swept(t) = [t EXCEPT !.waiting = A, !.swept = Lease]  BY DEF Swept, Well, Table0
<1>2. ASSUME NEW o \in Owners PROVE A[o] = t.waiting[o]
  <2>1. CASE t.waiting[o] = Nobody  BY <2>1
  <2>2. CASE t.waiting[o] # Nobody
    <3> PICK k \in Keys, c \in Calls : t.waiting[o] = <<k, c>>  BY <2>2 DEF Well, Table0
    <3>1. Stands(t.queue[k], c)  BY DEF Well, Indexed
    <3> QED BY <3>1, <2>2
  <2> QED BY <2>1, <2>2
<1>3. A = t.waiting  BY <1>2 DEF Well, Table0
<1> HIDE DEF A
<1> QED BY <1>1, <1>3, LeaseIs DEF Well, Table0

\* A table that differs from a good one in what is flying, closed or when it was swept.
LEMMA SameIndexes ==
    ASSUME NEW t, NEW u, Well(t), u \in Table0, u.holder = t.holder, u.queue = t.queue, u.held = t.held,
           u.waiting = t.waiting
    PROVE  Well(u) /\ \A k \in Keys : Given(t, k) => Given(u, k)
BY DEF Well, Indexed, Given

\* A sweep begins, ...
LEMMA SweepDoes ==
    ASSUME TypeInv, TabInv, Sweep
    PROVE  /\ Effect /\ Passed(tab, tab') /\ Shrinks(tab, tab') /\ tab'.closed = tab.closed /\ tab'.held = tab.held
           /\ tab'.leases = tab.leases
           /\ \A x \in Tables : tab'.flying[x] = {o \in tab.flying[x] : Live(tab, o)}
           /\ sweeping' \subseteq Keys /\ UNCHANGED <<call, own, gate>>
<1> DEFINE F == [x \in Tables |-> {o \in tab.flying[x] : Live(tab, o)}]
           t == [tab EXCEPT !.flying = F]
<1>1. F \in [Tables -> SUBSET Owners]  BY DEF TabInv, Well, Table0
<1>2. t = [tab EXCEPT !.flying = [x \in Tables |-> {o \in @[x] : Live(tab, o)}]]  BY DEF TabInv, Well, Table0
<1>3. \A x \in Tables : F[x] = {o \in tab.flying[x] : Live(tab, o)}  OBVIOUS
<1>4. tab' \in {t, Swept(t)} /\ sweeping' \subseteq Keys /\ UNCHANGED <<call, own, gate>>  BY <1>2 DEF Sweep
<1> HIDE DEF F
<1>5. /\ t \in Table0 /\ t.flying = F /\ t.closed = tab.closed
      /\ t.holder = tab.holder /\ t.queue = tab.queue /\ t.held = tab.held
      /\ t.leases = tab.leases /\ t.ended = tab.ended /\ t.waiting = tab.waiting /\ t.won = tab.won
  BY <1>1 DEF TabInv, Well, Table0
<1> HIDE DEF t
<1>6. Well(t)  BY <1>5, SameIndexes DEF TabInv
<1>7. /\ tab' \in Table0 /\ tab'.flying = F /\ tab'.closed = tab.closed
      /\ tab'.holder = tab.holder /\ tab'.queue = tab.queue /\ tab'.held = tab.held
      /\ tab'.leases = tab.leases /\ tab'.ended = tab.ended /\ tab'.waiting = tab.waiting /\ tab'.won = tab.won
  BY <1>4, <1>5, <1>6, SweptIs
<1>8. Effect /\ Passed(tab, tab')  BY <1>7, RestEffect
<1>9. Shrinks(tab, tab')  BY <1>7, RestShrinks DEF Rest, Live
<1> QED BY <1>3, <1>4, <1>7, <1>8, <1>9

\* ... and settles its keys, one at a time.
LEMMA SweepKeyDoes ==
    ASSUME TypeInv, TabInv, PlaceInv, CallInv, EndInv, NEW k \in Keys, SweepKey(k)
    PROVE  /\ Effect /\ Passed(tab, tab') /\ Shrinks(tab, tab') /\ SameRest
           /\ sweeping' \subseteq Keys /\ UNCHANGED <<call, own, gate>>
<1>0. Well(tab) /\ \A j \in Keys : Given(tab, j)  BY DEF TabInv
<1> DEFINE t == Settle(tab, k)
<1>1. tab' \in {t, Swept(t)} /\ sweeping' \subseteq Keys /\ UNCHANGED <<call, own, gate>>  BY DEF SweepKey, TypeInv
<1>2. Well(t) /\ Moves(tab, t) /\ InTurn(tab, t) /\ Shrinks(tab, t) /\ \A j \in Keys : Given(t, j)
  BY <1>0, SettleWell
<1> HIDE DEF t
<1>3. Passed(tab, t) /\ \A o \in Owners : Turned(tab, t, o)  BY <1>2, MovesTurn
<1>4. /\ tab' \in Table0 /\ tab'.flying = t.flying /\ tab'.closed = t.closed
      /\ tab'.holder = t.holder /\ tab'.queue = t.queue /\ tab'.held = t.held
      /\ tab'.leases = t.leases /\ tab'.ended = t.ended /\ tab'.waiting = t.waiting /\ tab'.won = t.won
  BY <1>1, <1>2, SweptIs DEF Well
<1>5. TabInv'  BY <1>2, <1>4, SameIndexes DEF TabInv
<1>6. InTurn(tab, tab')  BY <1>2, <1>4 DEF InTurn
<1>7. \A o \in Owners : Turned(tab, tab', o)  BY <1>3, <1>4 DEF Turned
<1>8. Passed(tab, tab')  BY <1>3, <1>4 DEF Passed, Won1, Live
<1>9. Shrinks(tab, tab')
  <2>1. \A o \in Owners : WaitsFor(tab', o) = WaitsFor(t, o)  BY <1>4 DEF WaitsFor, Ahead, Live
  <2> QED BY <2>1, <1>2, <1>4 DEF Shrinks
<1>10. SameRest  BY <1>2, <1>4 DEF SameRest, Moves
<1> QED BY <1>1, <1>5, <1>6, <1>7, <1>8, <1>9, <1>10 DEF Effect

\* A release.
LEMMA LetGoDoes ==
    ASSUME TypeInv, TabInv, PlaceInv, EndInv, NEW o \in Owners, LetGo(o)
    PROVE  /\ TabInv' /\ InTurn(tab, tab') /\ Passed(tab, tab') /\ Shrinks(tab, tab') /\ tab'.closed = tab.closed
           /\ \A p \in Owners : p # o => Turned(tab, tab', p)
           /\ tab'.held[o] = {} /\ tab'.waiting[o] = Nobody
           /\ \A x \in Tables : tab'.flying[x] = tab.flying[x] \ {o}
           /\ own[o].step = "ending" /\ own' = [own EXCEPT ![o] = Done(o, "over")]
           /\ UNCHANGED <<sweeping, call, gate>>
<1>0. Well(tab) /\ \A j \in Keys : Given(tab, j)  BY DEF TabInv
<1> DEFINE f == Freed(tab, o, tab.held[o])
           r == Release(tab, o)
<1>1. /\ own[o].step = "ending" /\ own' = [own EXCEPT ![o] = Done(o, "over")] /\ tab' = r
      /\ UNCHANGED <<sweeping, call, gate>>
  BY DEF LetGo
<1>2. /\ f.held = [tab.held EXCEPT ![o] = {}] /\ f.leases = [tab.leases EXCEPT ![o] = 0]
      /\ f.ended = [tab.ended EXCEPT ![o] = Lease]
      /\ \A x \in Tables : f.flying[x] = tab.flying[x] \ {o}
      /\ f.queue = tab.queue /\ f.waiting = tab.waiting /\ f.won = tab.won /\ f.closed = tab.closed
  BY <1>0, FreedIs
<1>3. /\ Well(r) /\ Moves(f, r) /\ InTurn(f, r) /\ Shrinks(tab, r)
      /\ \A j \in Keys : Given(r, j)
      /\ r.held[o] = {} /\ r.waiting[o] = Nobody
  BY <1>0, ReleaseIs
<1> HIDE DEF f, r
<1>4. \A p \in Owners : p # o => f.held[p] = tab.held[p] /\ f.leases[p] = tab.leases[p] /\ f.ended[p] = tab.ended[p]
  BY <1>0, <1>2 DEF Well, Table0
<1>5. TabInv'  BY <1>1, <1>3 DEF TabInv
<1>6. InTurn(tab, tab')  BY <1>1, <1>2, <1>3 DEF InTurn
<1>7. Passed(tab, tab')
  <2>1. \A k \in Keys : \A c \in Calls : Stands(tab'.queue[k], c) => Stands(tab.queue[k], c)
    BY <1>1, <1>2, <1>3 DEF Moves
  <2>2. \A c \in tab'.won : c \in tab.won \/ Won1(tab, tab', c)  BY <1>1, <1>2, <1>3 DEF Moves, Won1
  <2> QED BY <2>1, <2>2 DEF Passed
<1>8. ASSUME NEW p \in Owners, p # o PROVE Turned(tab, tab', p)
  <2>1. f.held[p] = tab.held[p] /\ f.leases[p] = tab.leases[p] /\ f.ended[p] = tab.ended[p] /\ f.waiting[p] = tab.waiting[p]
    BY <1>2, <1>4, <1>8
  <2>2. r.held[p] \subseteq tab.held[p] \/ (r.leases[p] = Lease /\ Busy(p) /\ ~IsEnded(tab, p))
    BY <2>1, <1>3, WaitsBusy DEF Moves
  <2>3. Live(tab, p) => tab.held[p] \subseteq r.held[p]  BY <2>1, <1>3 DEF Moves, Live
  <2>4. r.leases[p] \in {tab.leases[p], Lease} /\ r.ended[p] = tab.ended[p] /\ r.waiting[p] \in {tab.waiting[p], Nobody}
    BY <2>1, <1>3 DEF Moves
  <2> QED BY <1>1, <2>2, <2>3, <2>4 DEF Turned
<1>9. \A x \in Tables : tab'.flying[x] = tab.flying[x] \ {o}  BY <1>1, <1>2, <1>3 DEF Moves
<1>10. tab'.closed = tab.closed  BY <1>1, <1>2, <1>3 DEF Moves
<1> QED BY <1>1, <1>3, <1>5, <1>6, <1>7, <1>8, <1>9, <1>10

\* A writer closes tables, none of which was, as no other writer is under the lake's lock.
LEMMA CloseDoes ==
    ASSUME TypeInv, TabInv, GateInv, NEW who \in Owners \cup {Nobody}, Close(who)
    PROVE  /\ Effect /\ Passed(tab, tab') /\ Rest /\ tab'.leases = tab.leases /\ tab'.flying = tab.flying
           /\ gate.step = "open" /\ gate'.step = "waiting" /\ gate'.who = who /\ gate' \in Gate
           /\ \A x \in Tables : tab'.closed[x] = IF x \in gate'.tables THEN 1 ELSE 0
           /\ \/ who = Nobody /\ own' = own
              \/ who \in Owners \ Autos /\ own[who].step = "open" /\ own' = [own EXCEPT ![who].step = "committing"]
           /\ UNCHANGED <<sweeping, call>>
<1> PICK xs \in SUBSET Tables :
           /\ tab' = [tab EXCEPT !.closed = [x \in Tables |-> IF x \in xs THEN @[x] + 1 ELSE @[x]]]
           /\ gate' = [step |-> "waiting", who |-> who, tables |-> xs]
  BY DEF Close
<1> DEFINE C == [x \in Tables |-> IF x \in xs THEN tab.closed[x] + 1 ELSE tab.closed[x]]
<1>1. tab' = [tab EXCEPT !.closed = C]  BY DEF TabInv, Well, Table0
<1>2. gate.step = "open"  BY DEF Close
<1>3. \A x \in Tables : tab.closed[x] = 0  BY <1>2 DEF GateInv
<1>4. C \in [Tables -> 0 .. 1] /\ \A x \in Tables : C[x] = IF x \in xs THEN 1 ELSE 0  BY <1>3
<1> HIDE DEF C
<1>5. /\ tab' \in Table0 /\ tab'.flying = tab.flying /\ tab'.closed = C
      /\ tab'.holder = tab.holder /\ tab'.queue = tab.queue /\ tab'.held = tab.held
      /\ tab'.leases = tab.leases /\ tab'.ended = tab.ended /\ tab'.waiting = tab.waiting /\ tab'.won = tab.won
  BY <1>1, <1>4 DEF TabInv, Well, Table0
<1>6. Effect /\ Passed(tab, tab')  BY <1>5, RestEffect
<1>7. \/ who = Nobody /\ own' = own
      \/ who \in Owners \ Autos /\ own[who].step = "open" /\ own' = [own EXCEPT ![who].step = "committing"]
  BY DEF Close
<1>8. UNCHANGED <<sweeping, call>>  BY DEF Close
<1>9. gate' \in Gate /\ gate'.tables = xs  BY DEF Gate
<1> QED BY <1>2, <1>4, <1>5, <1>6, <1>7, <1>8, <1>9 DEF Rest

\* The tables open again.
LEMMA OpenGateDoes ==
    ASSUME TypeInv, TabInv, GateInv, OpenGate
    PROVE  /\ Effect /\ Passed(tab, tab') /\ Rest /\ tab'.leases = tab.leases /\ tab'.flying = tab.flying
           /\ gate.step # "open" /\ gate' = Open
           /\ \A x \in Tables : tab'.closed[x] = 0
           /\ \/ gate.who = Nobody /\ own' = own
              \/ gate.who \in Owners /\ own' = [own EXCEPT ![gate.who] = Done(gate.who, "ending")]
           /\ UNCHANGED <<sweeping, call>>
<1> DEFINE C == [x \in Tables |-> IF x \in gate.tables THEN tab.closed[x] - 1 ELSE tab.closed[x]]
<1>1. tab' = [tab EXCEPT !.closed = C]  BY DEF OpenGate, TabInv, Well, Table0
<1>2. C \in [Tables -> 0 .. 1] /\ \A x \in Tables : C[x] = 0  BY DEF GateInv
<1> HIDE DEF C
<1>3. /\ tab' \in Table0 /\ tab'.flying = tab.flying /\ tab'.closed = C
      /\ tab'.holder = tab.holder /\ tab'.queue = tab.queue /\ tab'.held = tab.held
      /\ tab'.leases = tab.leases /\ tab'.ended = tab.ended /\ tab'.waiting = tab.waiting /\ tab'.won = tab.won
  BY <1>1, <1>2 DEF TabInv, Well, Table0
<1>4. Effect /\ Passed(tab, tab')  BY <1>3, RestEffect
<1>5. gate.step # "open" /\ gate' = Open /\ UNCHANGED <<sweeping, call>>  BY DEF OpenGate
<1>6. \/ gate.who = Nobody /\ own' = own
      \/ gate.who \in Owners /\ own' = [own EXCEPT ![gate.who] = Done(gate.who, "ending")]
  BY DEF OpenGate, TypeInv, Gate
<1> QED BY <1>2, <1>3, <1>4, <1>5, <1>6 DEF Rest

\* Time passes.
LEMMA TickDoes ==
    ASSUME TypeInv, TabInv, Tick
    PROVE  /\ TabInv' /\ InTurn(tab, tab') /\ Passed(tab, tab') /\ Shrinks(tab, tab') /\ Rest /\ SameRest
           /\ \A o \in Owners : tab'.leases[o] = Less(tab.leases[o]) /\ tab'.ended[o] = Less(tab.ended[o])
           /\ \A o \in Owners : own'[o] = [own[o] EXCEPT !.limit = Less(@), !.sure = @ /\ (tab.leases[o] # 1 \/ ~Asks(o))]
           /\ own' \in [Owners -> Owner]
           /\ Stalls \/ \A o \in Owners : Attended(o) => tab.leases[o] # 1
           /\ UNCHANGED <<sweeping, call, gate>>
<1> DEFINE L == [o \in Owners |-> Less(tab.leases[o])]
           E == [o \in Owners |-> Less(tab.ended[o])]
<1>1. tab' = [tab EXCEPT !.leases = L, !.ended = E, !.swept = Less(@)]  BY DEF Tick, TabInv, Well, Table0
<1>2. \A n \in Left : Less(n) \in Left  BY LeaseAssumption DEF Left, Less
<1>3. L \in [Owners -> Left] /\ E \in [Owners -> Left] /\ Less(tab.swept) \in Left
  BY <1>2 DEF TabInv, Well, Table0
<1>4. \A o \in Owners : L[o] = Less(tab.leases[o]) /\ E[o] = Less(tab.ended[o])  OBVIOUS
<1> HIDE DEF L, E
<1>5. /\ tab' \in Table0 /\ tab'.flying = tab.flying /\ tab'.closed = tab.closed /\ tab'.leases = L /\ tab'.ended = E
      /\ tab'.holder = tab.holder /\ tab'.queue = tab.queue /\ tab'.held = tab.held
      /\ tab'.waiting = tab.waiting /\ tab'.won = tab.won
  BY <1>1, <1>3 DEF TabInv, Well, Table0
<1>6. TabInv'  BY <1>5, SameIndexes DEF TabInv
<1>7. InTurn(tab, tab')  BY <1>5 DEF InTurn
<1>8. Passed(tab, tab')  BY <1>5 DEF Passed
<1>9. Rest /\ SameRest  BY <1>5 DEF Rest, SameRest
<1>10. \A o \in Owners : Live(tab', o) => Live(tab, o)
  <2> TAKE o \in Owners
  <2>1. tab.leases[o] \in Nat  BY DEF TabInv, Well, Table0, Left
  <2> QED BY <2>1, <1>4, <1>5 DEF Live, Less
<1>11. Shrinks(tab, tab')  BY <1>9, <1>10, RestShrinks
<1>12. \A o \in Owners : own'[o] = [own[o] EXCEPT !.limit = Less(@), !.sure = @ /\ (tab.leases[o] # 1 \/ ~Asks(o))]
  BY DEF Tick
<1>13. own' \in [Owners -> Owner]
  <2>1. own' = [o \in Owners |-> [own[o] EXCEPT !.limit = Less(@), !.sure = @ /\ (tab.leases[o] # 1 \/ ~Asks(o))]]
    BY DEF Tick
  <2>2. ASSUME NEW o \in Owners
        PROVE  [own[o] EXCEPT !.limit = Less(@), !.sure = @ /\ (tab.leases[o] # 1 \/ ~Asks(o))] \in Owner
    <3>1. own[o] \in Owner  BY DEF TypeInv
    <3> DEFINE b == (own[o].sure /\ (tab.leases[o] # 1 \/ ~Asks(o)))
               l == Less(own[o].limit)
    <3>2. b \in BOOLEAN /\ l \in Left  BY <3>1, <1>2 DEF Owner
    <3>3. [own[o] EXCEPT !.limit = Less(@), !.sure = @ /\ (tab.leases[o] # 1 \/ ~Asks(o))] = [own[o] EXCEPT !.limit = l, !.sure = b]
      BY <3>1 DEF Owner
    <3> HIDE DEF b, l
    <3>4. [own[o] EXCEPT !.limit = l, !.sure = b] \in Owner  BY <3>1, <3>2 DEF Owner
    <3> QED BY <3>3, <3>4
  <2> QED BY <2>1, <2>2
<1>14. (Stalls \/ \A o \in Owners : Attended(o) => tab.leases[o] # 1) /\ UNCHANGED <<sweeping, call, gate>>  BY DEF Tick
<1> QED BY <1>4, <1>5, <1>6, <1>7, <1>8, <1>9, <1>11, <1>12, <1>13, <1>14

-----------------------------------------------------------------------------
(* What a step leaves as it was                                            *)

LEMMA KeySame == ASSUME NEW d \in Calls, call'[d].left = call[d].left PROVE KeyOf(d)' = KeyOf(d)
BY DEF KeyOf

\* The part of a step the other requests see.
Others(d) ==
    /\ call'[d] = call[d]
    /\ \A k \in Keys : Stands(tab'.queue[k], d) => Stands(tab.queue[k], d)
    /\ d \in tab'.won => d \in tab.won \/ Won1(tab, tab', d)

LEMMA PlaceKept ==
    ASSUME PlaceInv, NEW d \in Calls, Others(d)
    PROVE  PlaceOf(d)'
<1>1. KeyOf(d)' = KeyOf(d) /\ call'[d] = call[d]  BY KeySame DEF Others
<1>2. ASSUME NEW k \in Keys, Stands(tab'.queue[k], d)
      PROVE  call'[d].step \in {"queued", "waiting"} /\ k = KeyOf(d)'
  BY <1>1, <1>2 DEF Others, PlaceInv, PlaceOf
<1>3. ASSUME d \in tab'.won
      PROVE  call'[d].step \in {"queued", "waiting"} /\ \A k \in Keys : ~Stands(tab'.queue[k], d)
  <2>1. CASE d \in tab.won  BY <2>1, <1>1 DEF Others, PlaceInv, PlaceOf
  <2>2. CASE Won1(tab, tab', d)
    <3> PICK k \in Keys : Stands(tab.queue[k], d) /\ ~Stands(tab'.queue[k], d)  BY <2>2 DEF Won1
    <3>1. call[d].step \in {"queued", "waiting"} /\ \A j \in Keys : Stands(tab.queue[j], d) => j = k
      BY DEF PlaceInv, PlaceOf
    <3> QED BY <3>1, <1>1 DEF Others
  <2> QED BY <2>1, <2>2, <1>3 DEF Others
<1> QED BY <1>2, <1>3 DEF PlaceOf

\* What an owner was told it holds, or its request has, stays its own while its lease lasts.
LEMMA HeldGrows ==
    ASSUME LeaseInv, NEW o \in Owners, Turned(tab, tab', o), own[o].sure, own[o].step \notin {"ending", "over", "dead"}
    PROVE  tab.held[o] \subseteq tab'.held[o]
BY DEF LeaseInv, LeaseOf, Turned

LEMMA TellCallKept ==
    ASSUME PlaceInv, NEW d \in Calls, TellCall(d), Others(d), tab.held[OwnerOf(d)] \subseteq tab'.held[OwnerOf(d)]
    PROVE  TellCall(d)'
<1> DEFINE o == OwnerOf(d)
<1> HIDE DEF o
<1>0. OwnerOf(d) = o  BY DEF o
<1>1. KeyOf(d)' = KeyOf(d) /\ call'[d] = call[d]  BY KeySame DEF Others
<1>2. tab.held[o] \subseteq tab'.held[o]  BY <1>0
<1>3. call[d].step \in {"asking", "queued", "waiting"} => call[d].keys \ call[d].left \subseteq tab'.held[o]
  BY <1>0, <1>2 DEF TellCall
<1>4. call[d].step \in {"entering", "granted"} => call[d].keys \subseteq tab'.held[o]
  BY <1>0, <1>2 DEF TellCall
<1>5. ASSUME d \in tab'.won PROVE KeyOf(d) \in tab'.held[o]
  <2>1. CASE d \in tab.won  BY <2>1, <1>0, <1>2 DEF TellCall
  <2>2. CASE Won1(tab, tab', d)
    <3> PICK k \in Keys : Stands(tab.queue[k], d) /\ k \in tab'.held[OwnerOf(d)]  BY <2>2 DEF Won1
    <3>1. k = KeyOf(d)  BY DEF PlaceInv, PlaceOf
    <3> QED BY <3>1, <1>0
  <2> QED BY <1>5, <2>1, <2>2 DEF Others
<1> QED BY <1>0, <1>1, <1>3, <1>4, <1>5 DEF TellCall, OwnerOf, o

LEMMA LastIs ==
    ASSUME TypeInv, CallInv, OwnInv, NEW o \in Owners, own[o].step = "taking"
    PROVE  Last(o) \in Calls /\ OwnerOf(Last(o)) = o
<1>1. own[o].last \in 1 .. Tries
  <2>1. own[o].last \in 0 .. Tries /\ own[o].last > 0  BY DEF TypeInv, Owner, OwnInv, OwnOf
  <2> QED BY <2>1, TriesAssumption
<1> QED BY <1>1 DEF Last, Calls, OwnerOf

\* An owner that does nothing in a step, with its request.
LEMMA TellKept ==
    ASSUME TypeInv, PlaceInv, CallInv, OwnInv, TellInv, LeaseInv, NEW o \in Owners, own'[o] = own[o],
           Turned(tab, tab', o), own[o].step = "taking" => Others(Last(o)) \/ TellCall(Last(o))'
    PROVE  TellOf(o)'
<1> SUFFICES ASSUME own[o].sure
             PROVE  own[o].has \subseteq tab'.held[o] /\ (own[o].step = "taking" => TellCall(Last(o))')
  BY DEF TellOf, Last
<1>1. own[o].has \subseteq tab.held[o] /\ (own[o].step = "taking" => TellCall(Last(o)))  BY DEF TellInv, TellOf
<1>2. CASE own[o].step \in {"ending", "over", "dead"}
  <2>1. own[o].has = {}  BY <1>2 DEF OwnInv, OwnOf, Asks
  <2> QED BY <2>1, <1>2
<1>3. CASE own[o].step \notin {"ending", "over", "dead"}
  <2>1. tab.held[o] \subseteq tab'.held[o]  BY <1>3, HeldGrows
  <2>2. ASSUME own[o].step = "taking" PROVE TellCall(Last(o))'
    <3>1. CASE TellCall(Last(o))'  BY <3>1
    <3>2. CASE Others(Last(o))
      <4> PICK d \in Calls : d = Last(o) /\ OwnerOf(d) = o  BY <2>2, LastIs
      <4>1. Last(o)' = d  BY DEF Last
      <4>2. TellCall(d)'  BY <2>1, <2>2, <1>1, <3>2, TellCallKept
      <4> QED BY <4>1, <4>2
    <3> QED BY <2>2, <3>1, <3>2
  <2> QED BY <2>1, <2>2, <1>1
<1> QED BY <1>2, <1>3

LEMMA LeaseKept ==
    ASSUME TypeInv, LeaseInv, NEW o \in Owners, own'[o] = own[o], Turned(tab, tab', o),
           \A x \in Tables : o \in tab'.flying[x] => o \in tab.flying[x] \/ IsEnded(tab, o) \/ Live(tab', o),
           EndInv
    PROVE  LeaseOf(o)'
<1> SUFFICES ASSUME own[o].sure, own[o].step \notin {"ending", "over", "dead"}
             PROVE  /\ tab'.held[o] # {} => Live(tab', o)
                    /\ \A x \in Tables : o \in tab'.flying[x] => Live(tab', o)
  BY DEF LeaseOf, Live
<1>1. Live(tab, o) => Live(tab', o)  BY LeaseIs DEF Turned, Live
<1>2. tab'.held[o] # {} => Live(tab', o)
  BY <1>1, LeaseIs DEF Turned, Live, LeaseInv, LeaseOf
<1>3. ~IsEnded(tab, o)  BY DEF EndInv, EndOf
<1>4. \A x \in Tables : o \in tab'.flying[x] => Live(tab', o)
  BY <1>1, <1>3 DEF LeaseInv, LeaseOf
<1> QED BY <1>2, <1>4

LEMMA EndKept ==
    ASSUME EndInv, NEW o \in Owners, own[o].step = "over" => own'[o].step = "over", Turned(tab, tab', o)
    PROVE  EndOf(o)'
BY DEF EndInv, EndOf, Turned, IsEnded

LEMMA OwnKept ==
    ASSUME CallInv, TypeInv, OwnInv, NEW o \in Owners, own'[o] = own[o], Turned(tab, tab', o),
           gate' = gate \/ (own[o].step = "committing" => gate'.step # "open" /\ gate'.who = gate.who),
           \A x \in Tables : o \in tab'.flying[x] => o \in tab.flying[x] \/ Busy(o)
    PROVE  OwnOf(o)'
<1>1. own[o].step = "idle" => ~Busy(o)
  <2> SUFFICES ASSUME own[o].step = "idle", NEW c \in Calls, OwnerOf(c) = o, call[c].step # "unused" PROVE FALSE
    BY DEF Busy
  <2>1. c[2] <= own[o].last /\ own[o].last = 0 /\ c[2] \in 1 .. Tries
    BY DEF CallInv, CallOf, OwnInv, OwnOf, Calls
  <2> QED BY <2>1
<1>2. own[o].step = "idle" => tab'.held[o] = {} /\ \A x \in Tables : o \notin tab'.flying[x]
  BY <1>1 DEF OwnInv, OwnOf, Turned
<1>3. ~Asks(o) => own[o].has = {}  BY DEF OwnInv, OwnOf
<1>4. own[o].step = "idle" => own[o].last = 0  BY DEF OwnInv, OwnOf
<1>5. own[o].step = "committing" => gate'.step # "open" /\ gate'.who = o  BY DEF OwnInv, OwnOf
<1>6. (own[o].step = "taking" => own[o].last > 0) /\ (own[o].step \in {"appending", "lost"} => o \in Autos)
  BY DEF OwnInv, OwnOf
<1>7. Asks(o)' <=> Asks(o)  BY DEF Asks
<1> QED BY <1>2, <1>3, <1>4, <1>5, <1>6, <1>7 DEF OwnOf

LEMMA CallKept ==
    ASSUME CallInv, NEW d \in Calls, call'[d] = call[d], own'[OwnerOf(d)] = own[OwnerOf(d)]
    PROVE  CallOf(d)'
BY DEF CallInv, CallOf, Heard, OwnerOf

-----------------------------------------------------------------------------
(* A request's steps                                                       *)

\* What a request's step does to the invariant's parts.
CallMoves(c) ==
    /\ UNCHANGED <<sweeping, own, gate>>
    /\ Effect /\ tab'.closed = tab.closed
    /\ \A d \in Calls : d # c => Others(d)
    /\ call' \in [Calls -> Call] /\ call[c].step # "unused"
    /\ PlaceOf(c)' /\ CallOf(c)'
    /\ Heard(c) /\ own[OwnerOf(c)].sure => TellCall(c)'
    /\ \A x \in Tables, p \in Owners : p \in tab'.flying[x] =>
           p \in tab.flying[x] \/ (Busy(p) /\ (IsEnded(tab, p) \/ Live(tab', p)))

LEMMA CallKeeps ==
    ASSUME IInv, NEW c \in Calls, CallMoves(c)
    PROVE  IInv'
<1> USE DEF IInv
<1>1. TypeInv'  BY DEF CallMoves, TypeInv
<1>2. TabInv'  BY DEF CallMoves, Effect
<1>3. PlaceInv'
  <2>1. \A d \in Calls : d # c => PlaceOf(d)'  BY PlaceKept DEF CallMoves
  <2> QED BY <2>1 DEF PlaceInv, CallMoves
<1>4. CallInv'
  <2>1. \A d \in Calls : d # c => CallOf(d)'  BY CallKept DEF CallMoves, Others
  <2> QED BY <2>1 DEF CallInv, CallMoves
<1>t. \A o \in Owners : Turned(tab, tab', o) /\ own'[o] = own[o]  BY DEF CallMoves, Effect
<1>5. ASSUME NEW o \in Owners PROVE OwnOf(o)'
  BY <1>t, OwnKept DEF CallMoves
<1>6. ASSUME NEW o \in Owners PROVE TellOf(o)'
  <2>1. CASE own[o].step = "taking" /\ own[o].sure
    <3> PICK d \in Calls : d = Last(o) /\ OwnerOf(d) = o  BY <2>1, LastIs
    <3>1. CASE d # c  BY <3>1, <1>t, TellKept DEF CallMoves
    <3>2. CASE d = c
      <4>1. Heard(c)  BY <2>1, <3>2 DEF Heard, Last, OwnerOf
      <4>2. TellCall(c)'  BY <4>1, <3>2, <2>1 DEF CallMoves
      <4>3. Last(o)' = c  BY <3>2, <1>t DEF Last
      <4>4. TellCall(Last(o))'  BY <4>2, <4>3
      <4> QED BY <4>4, <1>t, TellKept
    <3> QED BY <3>1, <3>2
  <2>2. CASE own[o].step # "taking"  BY <2>2, <1>t, TellKept
  <2>3. CASE ~own[o].sure  BY <2>3, <1>t DEF TellOf
  <2> QED BY <2>1, <2>2, <2>3
<1>7. ASSUME NEW o \in Owners PROVE LeaseOf(o)'  BY <1>t, LeaseKept DEF CallMoves
<1>8. ASSUME NEW o \in Owners PROVE EndOf(o)'  BY <1>t, EndKept
<1>9. GateInv'  BY DEF CallMoves, GateInv
<1> QED BY <1>1, <1>2, <1>3, <1>4, <1>5, <1>6, <1>7, <1>8, <1>9 DEF OwnInv, TellInv, LeaseInv, EndInv

LEMMA OverIs ==
    ASSUME TypeInv, NEW c \in Calls, NEW s \in {"granted", "refused"}, Over(c, s)
    PROVE  /\ call' \in [Calls -> Call] /\ \A d \in Calls : d # c => call'[d] = call[d]
           /\ call'[c].step \in {"unused", s} /\ call'[c].left = {}
           /\ call'[c].step # "unused" => Heard(c) /\ call'[c].keys = call[c].keys
           /\ Heard(c) => call'[c].keys = call[c].keys
<1> DEFINE n == IF Heard(c) THEN [NewCall EXCEPT !.step = s, !.keys = call[c].keys] ELSE NewCall
<1>1. call' = [call EXCEPT ![c] = n]  BY DEF Over
<1>2. /\ n \in Call /\ n.step \in {"unused", s} /\ n.left = {}
      /\ n.step # "unused" => Heard(c) /\ n.keys = call[c].keys
      /\ Heard(c) => n.keys = call[c].keys
  BY DEF TypeInv, Call, NewCall
<1> HIDE DEF n
<1> QED BY <1>1, <1>2 DEF TypeInv

LEMMA HasIs ==
    ASSUME TypeInv, CallInv, NEW c \in Calls, NEW k \in Keys, Has(c, k)
    PROVE  /\ call' \in [Calls -> Call] /\ \A d \in Calls : d # c => call'[d] = call[d]
           /\ call'[c].step \in {"unused", "asking", "entering", "granted"}
           /\ call'[c].step # "unused" \/ Heard(c) => call'[c].keys = call[c].keys
           /\ call'[c].left = call[c].left \ {k} \/ call'[c].left = {}
           /\ call'[c].step = "unused" => call'[c].left = {}
           /\ call'[c].step = "asking" => call'[c].left = call[c].left \ {k} /\ call'[c].left # {}
           /\ call'[c].step \in {"entering", "granted"} => call[c].left \ {k} = {}
           /\ call'[c].step = "entering" => OwnerOf(c) \in Autos
           /\ call'[c].step = "granted" => OwnerOf(c) \notin Autos
<1> DEFINE left == call[c].left \ {k}
           asking == [call[c] EXCEPT !.step = "asking", !.left = left]
           entering == [call[c] EXCEPT !.step = "entering", !.left = {}]
<1>0. call[c] \in Call /\ left \in SUBSET Keys  BY DEF TypeInv, Call
<1>1. \/ left # {} /\ call' = [call EXCEPT ![c] = asking]
      \/ left = {} /\ OwnerOf(c) \in Autos /\ call' = [call EXCEPT ![c] = entering]
      \/ left = {} /\ OwnerOf(c) \notin Autos /\ Over(c, "granted")
  BY DEF Has, TypeInv
<1>2. /\ asking \in Call /\ asking.step = "asking" /\ asking.left = left /\ asking.keys = call[c].keys
      /\ entering \in Call /\ entering.step = "entering" /\ entering.left = {} /\ entering.keys = call[c].keys
  BY <1>0 DEF Call
<1> HIDE DEF asking, entering
<1>3. CASE left # {} /\ call' = [call EXCEPT ![c] = asking]  BY <1>2, <1>3 DEF TypeInv
<1>4. CASE left = {} /\ OwnerOf(c) \in Autos /\ call' = [call EXCEPT ![c] = entering]  BY <1>2, <1>4 DEF TypeInv
<1>5. CASE left = {} /\ OwnerOf(c) \notin Autos /\ Over(c, "granted")  BY <1>5, OverIs
<1> QED BY <1>1, <1>3, <1>4, <1>5

\* A request that stands nowhere any more, has no grant to receive, and goes on as it may.
LEMMA CallOfIs ==
    ASSUME CallInv, NEW c \in Calls, own' = own, call[c].step # "unused",
           call'[c].step \in {"asking", "queued", "waiting"} => call'[c].left # {},
           call'[c].step = "entering" => OwnerOf(c) \in Autos,
           call'[c].left \subseteq call'[c].keys,
           Heard(c) => call'[c].keys = call[c].keys
    PROVE  CallOf(c)'
BY DEF CallInv, CallOf, Heard, OwnerOf

LEMMA FreePlace ==
    ASSUME NEW c \in Calls, c \notin tab'.won, \A k \in Keys : ~Stands(tab'.queue[k], c)
    PROVE  PlaceOf(c)'
BY DEF PlaceOf

LEMMA PassedOthers ==
    ASSUME Passed(tab, tab'), NEW d \in Calls, call'[d] = call[d]
    PROVE  Others(d)
BY DEF Passed, Others

\* A request that has none of its own in a queue comes to stand nowhere, or where it is put.
LEMMA NotWon ==
    ASSUME PlaceInv, NEW c \in Calls, call[c].step \notin {"queued", "waiting"},
           \A d \in tab'.won : d \in tab.won \/ Won1(tab, tab', d)
    PROVE  c \notin tab'.won /\ \A k \in Keys : ~Stands(tab.queue[k], c)
BY DEF PlaceInv, PlaceOf, Won1

LEMMA LeavesKeeps ==
    ASSUME IInv, NEW c \in Calls, call[c].step # "unused", Over(c, "refused"),
           UNCHANGED <<sweeping, own, gate>>, Effect, SameRest, Passed(tab, tab'),
           c \notin tab'.won, \A k \in Keys : ~Stands(tab'.queue[k], c)
    PROVE  IInv'
<1> USE DEF IInv
<1>1. /\ call' \in [Calls -> Call] /\ \A d \in Calls : d # c => call'[d] = call[d]
      /\ call'[c].step \in {"unused", "refused"} /\ call'[c].left = {}
      /\ Heard(c) => call'[c].keys = call[c].keys
  BY OverIs
<1>2. PlaceOf(c)'  BY FreePlace
<1>3. CallOf(c)'  BY <1>1, CallOfIs
<1>4. TellCall(c)'  BY <1>1 DEF TellCall
<1>5. \A d \in Calls : d # c => Others(d)  BY <1>1, PassedOthers
<1>6. CallMoves(c)  BY <1>1, <1>2, <1>3, <1>4, <1>5 DEF CallMoves, SameRest
<1> QED BY <1>6, CallKeeps

\* It has its key, and holds it if it still has what it had.
LEMMA HasKeeps ==
    ASSUME IInv, NEW c \in Calls, NEW k \in Keys, call[c].step \in {"asking", "waiting"}, Has(c, k),
           UNCHANGED <<sweeping, own, gate>>, Effect, SameRest, Passed(tab, tab'),
           c \notin tab'.won, \A j \in Keys : ~Stands(tab'.queue[j], c),
           Heard(c) /\ own[OwnerOf(c)].sure => k \in tab'.held[OwnerOf(c)]
    PROVE  IInv'
<1> USE DEF IInv
<1>1. /\ call' \in [Calls -> Call] /\ \A d \in Calls : d # c => call'[d] = call[d]
      /\ call'[c].step \in {"unused", "asking", "entering", "granted"}
      /\ call'[c].step # "unused" \/ Heard(c) => call'[c].keys = call[c].keys
      /\ call'[c].left = call[c].left \ {k} \/ call'[c].left = {}
      /\ call'[c].step = "unused" => call'[c].left = {}
      /\ call'[c].step = "asking" => call'[c].left = call[c].left \ {k} /\ call'[c].left # {}
      /\ call'[c].step \in {"entering", "granted"} => call[c].left \ {k} = {}
      /\ call'[c].step = "entering" => OwnerOf(c) \in Autos
  BY HasIs
<1>l. call[c].left \subseteq call[c].keys  BY DEF CallInv, CallOf
<1>2. PlaceOf(c)'  BY FreePlace
<1>3. CallOf(c)'
  <2>1. call'[c].left \subseteq call'[c].keys
    <3>1. CASE call'[c].step = "unused"  BY <3>1, <1>1
    <3>2. CASE call'[c].step # "unused"  BY <3>2, <1>1, <1>l
    <3> QED BY <3>1, <3>2
  <2> QED BY <2>1, <1>1, CallOfIs
<1>4. ASSUME Heard(c), own[OwnerOf(c)].sure PROVE TellCall(c)'
  <2> PICK o \in Owners : o = OwnerOf(c)  BY OwnerIn
  <2>1. own[o].step = "taking" /\ Last(o) = c
    <3>1. c = <<c[1], c[2]>>  BY DEF Calls
    <3> QED BY <3>1, <1>4 DEF Heard, Last, OwnerOf
  <2>2. TellCall(c)  BY <1>4, <2>1 DEF TellInv, TellOf
  <2>3. tab.held[o] \subseteq tab'.held[o]  BY <1>4, <2>1, HeldGrows DEF Effect
  <2>4. call[c].keys \ call[c].left \subseteq tab'.held[o] /\ k \in tab'.held[o]
    BY <2>2, <2>3, <1>4 DEF TellCall
  <2>5. call'[c].step = "asking" => call'[c].keys \ call'[c].left \subseteq tab'.held[o]
    BY <2>4, <1>1
  <2>6. call'[c].step \in {"entering", "granted"} => call'[c].keys \subseteq tab'.held[o]
    BY <2>4, <1>1
  <2>7. call'[c].step \notin {"queued", "waiting"}  BY <1>1
  <2> QED BY <2>5, <2>6, <2>7 DEF TellCall, OwnerOf
<1>5. \A d \in Calls : d # c => Others(d)  BY <1>1, PassedOthers
<1>6. CallMoves(c)  BY <1>1, <1>2, <1>3, <1>4, <1>5 DEF CallMoves, SameRest
<1> QED BY <1>6, CallKeeps

LEMMA AskKeeps == ASSUME IInv, NEW c \in Calls, Ask(c) PROVE IInv'
<1> USE DEF IInv
<1> PICK o \in Owners : o = OwnerOf(c)  BY OwnerIn
<1> PICK k \in Keys : k = KeyOf(c)
  <2>1. call[c].step = "asking"  BY DEF Ask, At
  <2> QED BY <2>1, KeyIs
<1>1. /\ Effect /\ SameRest /\ call[c].step = "asking" /\ k \in call[c].left
      /\ \A d \in tab'.won : d \in tab.won \/ Won1(tab, tab', d)
      /\ \/ Over(c, "refused") /\ Passed(tab, tab')
         \/ ~IsEnded(tab, o) /\ Has(c, k) /\ k \in tab'.held[o] /\ Live(tab', o) /\ Passed(tab, tab')
         \/ /\ call' = [call EXCEPT ![c].step = "queued"]
            /\ \A j \in Keys : \A d \in Calls : Stands(tab'.queue[j], d) => Stands(tab.queue[j], d) \/ (j = k /\ d = c)
  BY AskDoes
<1>2. UNCHANGED <<sweeping, own, gate>>  BY DEF Ask
<1>3. c \notin tab'.won /\ \A j \in Keys : ~Stands(tab.queue[j], c)  BY <1>1, NotWon
<1>4. CASE Over(c, "refused") /\ Passed(tab, tab')
  <2>1. \A j \in Keys : ~Stands(tab'.queue[j], c)  BY <1>3, <1>4 DEF Passed
  <2> QED BY <1>1, <1>2, <1>3, <1>4, <2>1, LeavesKeeps
<1>5. CASE Has(c, k) /\ k \in tab'.held[o] /\ Passed(tab, tab')
  <2>1. \A j \in Keys : ~Stands(tab'.queue[j], c)  BY <1>3, <1>5 DEF Passed
  <2> QED BY <1>1, <1>2, <1>3, <1>5, <2>1, HasKeeps
<1>6. CASE /\ call' = [call EXCEPT ![c].step = "queued"]
           /\ \A j \in Keys : \A d \in Calls : Stands(tab'.queue[j], d) => Stands(tab.queue[j], d) \/ (j = k /\ d = c)
  <2>1. /\ call' \in [Calls -> Call] /\ \A d \in Calls : d # c => call'[d] = call[d]
        /\ call'[c].step = "queued" /\ call'[c].left = call[c].left /\ call'[c].keys = call[c].keys
    <3> DEFINE n == [call[c] EXCEPT !.step = "queued"]
    <3>1. n \in Call /\ n.step = "queued" /\ n.left = call[c].left /\ n.keys = call[c].keys  BY DEF TypeInv, Call
    <3>2. call' = [call EXCEPT ![c] = n]  BY <1>6 DEF TypeInv
    <3> HIDE DEF n
    <3> QED BY <3>1, <3>2 DEF TypeInv
  <2>2. \A d \in Calls : d # c => Others(d)  BY <1>1, <1>6, <2>1 DEF Others
  <2>3. KeyOf(c)' = k  BY <2>1, KeySame
  <2>4. PlaceOf(c)'  BY <1>3, <1>6, <2>1, <2>3 DEF PlaceOf
  <2>5. call[c].left # {} /\ call[c].left \subseteq call[c].keys  BY <1>1 DEF CallInv, CallOf
  <2>6. CallOf(c)'  BY <1>1, <1>2, <2>1, <2>5, CallOfIs
  <2>7. ASSUME Heard(c), own[OwnerOf(c)].sure PROVE TellCall(c)'
    <3>1. own[o].step = "taking" /\ Last(o) = c
      <4>1. c = <<c[1], c[2]>>  BY DEF Calls
      <4> QED BY <4>1, <2>7 DEF Heard, Last, OwnerOf
    <3>2. TellCall(c)  BY <2>7, <3>1 DEF TellInv, TellOf
    <3>3. tab.held[o] \subseteq tab'.held[o]  BY <1>1, <2>7, <3>1, HeldGrows DEF Effect
    <3>4. call[c].keys \ call[c].left \subseteq tab'.held[o]  BY <3>2, <3>3, <1>1 DEF TellCall
    <3> QED BY <3>4, <2>1, <1>3 DEF TellCall, OwnerOf
  <2>8. CallMoves(c)  BY <1>1, <1>2, <2>1, <2>2, <2>4, <2>6, <2>7 DEF CallMoves, SameRest
  <2> QED BY <2>8, CallKeeps
<1> QED BY <1>1, <1>4, <1>5, <1>6

LEMMA ReceiveKeeps == ASSUME IInv, NEW c \in Calls, Receive(c) PROVE IInv'
<1> USE DEF IInv
<1>1. /\ Effect /\ SameRest /\ Passed(tab, tab')
      /\ call[c].step = "waiting" /\ c \in tab.won /\ Has(c, KeyOf(c))
      /\ tab'.held = tab.held
      /\ c \notin tab'.won /\ \A k \in Keys : ~Stands(tab'.queue[k], c)
  BY ReceiveDoes
<1> PICK k \in Keys : k = KeyOf(c)  BY <1>1, KeyIs
<1>2. UNCHANGED <<sweeping, own, gate>>  BY DEF Receive
<1>3. ASSUME Heard(c), own[OwnerOf(c)].sure PROVE k \in tab'.held[OwnerOf(c)]
  <2> PICK o \in Owners : o = OwnerOf(c)  BY OwnerIn
  <2>1. own[o].step = "taking" /\ Last(o) = c
    <3>1. c = <<c[1], c[2]>>  BY DEF Calls
    <3> QED BY <3>1, <1>3 DEF Heard, Last, OwnerOf
  <2>2. TellCall(c)  BY <1>3, <2>1 DEF TellInv, TellOf
  <2> QED BY <2>2, <1>1 DEF TellCall
<1> QED BY <1>1, <1>2, <1>3, HasKeeps

LEMMA LookKeeps == ASSUME IInv, NEW c \in Calls, Look(c) PROVE IInv'
<1> USE DEF IInv
<1>1. /\ Effect /\ SameRest /\ Passed(tab, tab') /\ call[c].step = "waiting"
      /\ \/ call' = call
         \/ /\ Has(c, KeyOf(c))
            /\ c \in tab.won \/ (KeyOf(c) \in tab'.held[OwnerOf(c)] /\ Live(tab', OwnerOf(c)))
            /\ c \notin tab'.won /\ \A k \in Keys : ~Stands(tab'.queue[k], c)
  BY LookDoes
<1> PICK k \in Keys : k = KeyOf(c)  BY <1>1, KeyIs
<1>2. UNCHANGED <<sweeping, own, gate>>  BY DEF Look
<1>t. ASSUME Heard(c), own[OwnerOf(c)].sure
      PROVE  /\ TellCall(c) /\ tab.held[OwnerOf(c)] \subseteq tab'.held[OwnerOf(c)]
             /\ own[OwnerOf(c)].step = "taking"
  <2> PICK o \in Owners : o = OwnerOf(c)  BY OwnerIn
  <2>1. own[o].step = "taking" /\ Last(o) = c
    <3>1. c = <<c[1], c[2]>>  BY DEF Calls
    <3> QED BY <3>1, <1>t DEF Heard, Last, OwnerOf
  <2>2. TellCall(c)  BY <1>t, <2>1 DEF TellInv, TellOf
  <2>3. tab.held[o] \subseteq tab'.held[o]  BY <1>1, <1>t, <2>1, HeldGrows DEF Effect
  <2> QED BY <2>1, <2>2, <2>3
<1>3. CASE call' = call
  <2>1. \A d \in Calls : Others(d)  BY <1>1, <1>3, PassedOthers
  <2>2. PlaceOf(c)'  BY <2>1, PlaceKept
  <2>3. CallOf(c)'  BY <1>2, <1>3, CallKept
  <2>4. Heard(c) /\ own[OwnerOf(c)].sure => TellCall(c)'  BY <1>t, <2>1, TellCallKept
  <2>5. CallMoves(c)  BY <1>1, <1>2, <1>3, <2>1, <2>2, <2>3, <2>4 DEF CallMoves, SameRest, TypeInv
  <2> QED BY <2>5, CallKeeps
<1>4. CASE /\ Has(c, k)
           /\ c \in tab.won \/ (k \in tab'.held[OwnerOf(c)] /\ Live(tab', OwnerOf(c)))
           /\ c \notin tab'.won /\ \A j \in Keys : ~Stands(tab'.queue[j], c)
  <2>1. Heard(c) /\ own[OwnerOf(c)].sure => k \in tab'.held[OwnerOf(c)]
    BY <1>4, <1>t DEF TellCall
  <2> QED BY <1>1, <1>2, <1>4, <2>1, HasKeeps
<1> QED BY <1>1, <1>3, <1>4

LEMMA LeaveKeeps == ASSUME IInv, NEW c \in Calls, PlaceGone(c) \/ DontWait(c) \/ GiveUp(c) PROVE IInv'
<1> USE DEF IInv
<1>1. /\ Effect /\ SameRest /\ Passed(tab, tab') /\ Over(c, "refused")
      /\ call[c].step # "unused"
      /\ c \notin tab'.won /\ \A k \in Keys : ~Stands(tab'.queue[k], c)
  BY LeaveDoes
<1>2. UNCHANGED <<sweeping, own, gate>>  BY DEF PlaceGone, DontWait, GiveUp
<1> QED BY <1>1, <1>2, LeavesKeeps

LEMMA WaitKeeps == ASSUME IInv, NEW c \in Calls, Wait(c) PROVE IInv'
<1> USE DEF IInv
<1>1. /\ Effect /\ Passed(tab, tab') /\ tab'.closed = tab.closed
      /\ \A x \in Tables : tab'.flying[x] \subseteq tab.flying[x]
      /\ call[c].step = "queued" /\ call' = [call EXCEPT ![c].step = "waiting"]
      /\ tab'.held = tab.held
  BY WaitDoes
<1>2. UNCHANGED <<sweeping, own, gate>>  BY DEF Wait
<1>3. /\ call' \in [Calls -> Call] /\ \A d \in Calls : d # c => call'[d] = call[d]
      /\ call'[c].step = "waiting" /\ call'[c].left = call[c].left /\ call'[c].keys = call[c].keys
  <2> DEFINE n == [call[c] EXCEPT !.step = "waiting"]
  <2>1. n \in Call /\ n.step = "waiting" /\ n.left = call[c].left /\ n.keys = call[c].keys  BY DEF TypeInv, Call
  <2>2. call' = [call EXCEPT ![c] = n]  BY <1>1 DEF TypeInv
  <2> HIDE DEF n
  <2> QED BY <2>1, <2>2 DEF TypeInv
<1>4. \A d \in Calls : d # c => Others(d)  BY <1>1, <1>3, PassedOthers
<1>k. KeyOf(c)' = KeyOf(c)  BY <1>3, KeySame
<1>w. /\ \A k \in Keys : Stands(tab'.queue[k], c) => Stands(tab.queue[k], c)
      /\ c \in tab'.won => c \in tab.won /\ \A k \in Keys : ~Stands(tab'.queue[k], c)
  <2>1. \A k \in Keys : Stands(tab'.queue[k], c) => Stands(tab.queue[k], c)  BY <1>1 DEF Passed
  <2>2. tab'.won = tab.won  BY DEF Wait, TabInv, Well, Table0
  <2> QED BY <2>1, <2>2 DEF PlaceInv, PlaceOf
<1>5. PlaceOf(c)'  BY <1>w, <1>k, <1>1, <1>3 DEF PlaceOf, PlaceInv
<1>l. call[c].left # {} /\ call[c].left \subseteq call[c].keys  BY <1>1 DEF CallInv, CallOf
<1>6. CallOf(c)'  BY <1>1, <1>2, <1>3, <1>l, CallOfIs
<1>7. ASSUME Heard(c), own[OwnerOf(c)].sure PROVE TellCall(c)'
  <2> PICK o \in Owners : o = OwnerOf(c)  BY OwnerIn
  <2>1. own[o].step = "taking" /\ Last(o) = c
    <3>1. c = <<c[1], c[2]>>  BY DEF Calls
    <3> QED BY <3>1, <1>7 DEF Heard, Last, OwnerOf
  <2>2. TellCall(c)  BY <1>7, <2>1 DEF TellInv, TellOf
  <2> QED BY <2>2, <1>1, <1>3, <1>k, <1>w DEF TellCall, OwnerOf
<1>8. CallMoves(c)  BY <1>1, <1>2, <1>3, <1>4, <1>5, <1>6, <1>7 DEF CallMoves
<1> QED BY <1>8, CallKeeps

LEMMA EnterKeeps == ASSUME IInv, NEW c \in Calls, Enter(c) PROVE IInv'
<1> USE DEF IInv
<1> PICK o \in Owners : o = OwnerOf(c)  BY OwnerIn
<1>1. /\ Effect /\ Passed(tab, tab') /\ tab'.closed = tab.closed /\ call[c].step = "entering"
      /\ tab'.held = tab.held
      /\ ~IsEnded(tab, o) => Live(tab', o)
      /\ \/ call' = call /\ tab'.flying = tab.flying
         \/ /\ Over(c, "granted")
            /\ \A x \in Tables : tab'.flying[x] = IF x = TableOf[o] THEN tab.flying[x] \cup {o} ELSE tab.flying[x]
  BY EnterDoes
<1>2. UNCHANGED <<sweeping, own, gate>>  BY DEF Enter
<1>b. Busy(o)  BY <1>1 DEF Busy
<1>3. \A x \in Tables, p \in Owners : p \in tab'.flying[x] =>
          p \in tab.flying[x] \/ (Busy(p) /\ (IsEnded(tab, p) \/ Live(tab', p)))
  BY <1>1, <1>b
<1>n. c \notin tab'.won /\ \A k \in Keys : ~Stands(tab'.queue[k], c)
  BY <1>1, NotWon DEF Passed
<1>4. PlaceOf(c)'  BY <1>n, FreePlace
<1>t. ASSUME Heard(c), own[o].sure PROVE TellCall(c)
  <2>1. own[o].step = "taking" /\ Last(o) = c
    <3>1. c = <<c[1], c[2]>>  BY DEF Calls
    <3> QED BY <3>1, <1>t DEF Heard, Last, OwnerOf
  <2> QED BY <1>t, <2>1 DEF TellInv, TellOf
<1>5. CASE call' = call /\ tab'.flying = tab.flying
  <2>1. \A d \in Calls : Others(d)  BY <1>1, <1>5, PassedOthers
  <2>3. CallOf(c)'  BY <1>2, <1>5, CallKept
  <2>4. Heard(c) /\ own[o].sure => TellCall(c)'  BY <1>1, <1>t, <2>1, TellCallKept
  <2>5. CallMoves(c)  BY <1>1, <1>2, <1>3, <1>4, <1>5, <2>1, <2>3, <2>4 DEF CallMoves, TypeInv
  <2> QED BY <2>5, CallKeeps
<1>6. CASE Over(c, "granted")
  <2>1. /\ call' \in [Calls -> Call] /\ \A d \in Calls : d # c => call'[d] = call[d]
        /\ call'[c].step \in {"unused", "granted"} /\ call'[c].left = {}
        /\ call'[c].step # "unused" => Heard(c) /\ call'[c].keys = call[c].keys
        /\ Heard(c) => call'[c].keys = call[c].keys
    BY <1>6, OverIs
  <2>2. \A d \in Calls : d # c => Others(d)  BY <1>1, <2>1, PassedOthers
  <2>3. CallOf(c)'  BY <1>1, <1>2, <2>1, CallOfIs
  <2>4. ASSUME Heard(c), own[o].sure PROVE TellCall(c)'
    <3>1. call[c].keys \subseteq tab'.held[o]  BY <2>4, <1>t, <1>1 DEF TellCall
    <3>2. call'[c].step = "granted" => call'[c].keys \subseteq tab'.held[o]  BY <3>1, <2>1
    <3> QED BY <3>2, <2>1, <1>n DEF TellCall, OwnerOf
  <2>5. CallMoves(c)  BY <1>1, <1>2, <1>3, <1>4, <2>1, <2>2, <2>3, <2>4 DEF CallMoves
  <2> QED BY <2>5, CallKeeps
<1> QED BY <1>1, <1>5, <1>6

LEMMA CallStepKeeps == ASSUME IInv, NEW c \in Calls, CallStep(c) PROVE IInv'
BY AskKeeps, WaitKeeps, ReceiveKeeps, LookKeeps, LeaveKeeps, EnterKeeps DEF CallStep

-----------------------------------------------------------------------------
(* An owner's steps                                                        *)

\* What a step of an owner that leaves the Table alone does to the invariant's parts.
OwnMoves(o) ==
    /\ UNCHANGED <<tab, sweeping, gate>>
    /\ own' \in [Owners -> Owner] /\ \A p \in Owners : p # o => own'[p] = own[p]
    /\ call' \in [Calls -> Call] /\ \A d \in Calls : OwnerOf(d) # o => call'[d] = call[d]
    /\ own[o].step \notin {"committing", "over"}
    /\ \A d \in Calls : OwnerOf(d) = o => PlaceOf(d)' /\ CallOf(d)'
    /\ OwnOf(o)' /\ TellOf(o)' /\ LeaseOf(o)'

LEMMA SameTurned == ASSUME tab' = tab PROVE Passed(tab, tab') /\ \A o \in Owners : Turned(tab, tab', o)
BY DEF Passed, Turned

LEMMA OwnKeeps ==
    ASSUME IInv, NEW o \in Owners, OwnMoves(o)
    PROVE  IInv'
<1> USE DEF IInv
<1>1. TypeInv'  BY DEF OwnMoves, TypeInv
<1>2. TabInv'  BY DEF OwnMoves, TabInv
<1>t. Passed(tab, tab') /\ \A p \in Owners : Turned(tab, tab', p)  BY SameTurned DEF OwnMoves
<1>o. \A d \in Calls : OwnerOf(d) # o => Others(d)  BY <1>t, PassedOthers DEF OwnMoves
<1>3. PlaceInv'
  <2>1. \A d \in Calls : OwnerOf(d) # o => PlaceOf(d)'  BY <1>o, PlaceKept
  <2> QED BY <2>1 DEF PlaceInv, OwnMoves
<1>4. CallInv'
  <2>1. \A d \in Calls : OwnerOf(d) # o => CallOf(d)'  BY CallKept, OwnerIn DEF OwnMoves
  <2> QED BY <2>1 DEF CallInv, OwnMoves
<1>5. ASSUME NEW p \in Owners PROVE OwnOf(p)'
  <2>1. CASE p # o  BY <2>1, <1>t, OwnKept DEF OwnMoves
  <2> QED BY <2>1 DEF OwnMoves
<1>6. ASSUME NEW p \in Owners PROVE TellOf(p)'
  <2>1. CASE p # o
    <3>1. own[p].step = "taking" => Others(Last(p))
      <4> SUFFICES ASSUME own[p].step = "taking" PROVE Others(Last(p))  OBVIOUS
      <4> PICK d \in Calls : d = Last(p) /\ OwnerOf(d) = p  BY LastIs
      <4> QED BY <2>1, <1>o
    <3> QED BY <2>1, <3>1, <1>t, TellKept DEF OwnMoves
  <2> QED BY <2>1 DEF OwnMoves
<1>7. ASSUME NEW p \in Owners PROVE LeaseOf(p)'
  <2>1. CASE p # o  BY <2>1, <1>t, LeaseKept DEF OwnMoves
  <2> QED BY <2>1 DEF OwnMoves
<1>8. ASSUME NEW p \in Owners PROVE EndOf(p)'
  <2>1. own[p].step = "over" => own'[p].step = "over"  BY DEF OwnMoves
  <2> QED BY <2>1, <1>t, EndKept
<1>9. GateInv'
  <2>1. gate.who # Nobody => own'[gate.who].step = "committing"
    BY DEF OwnMoves, GateInv, TypeInv, Gate
  <2> QED BY <2>1 DEF OwnMoves, GateInv
<1> QED BY <1>1, <1>2, <1>3, <1>4, <1>5, <1>6, <1>7, <1>8, <1>9 DEF OwnInv, TellInv, LeaseInv, EndInv

\* The requests of an owner that doesn't wait for the answer of one, or of a follower's.
LEMMA QuietCalls ==
    ASSUME TypeInv, CallInv, NEW d \in Calls, call'[d] = call[d], own' \in [Owners -> Owner],
           own[OwnerOf(d)].step # "taking" \/ OwnerOf(d) \in Remote,
           own[OwnerOf(d)].last <= own'[OwnerOf(d)].last, ~Heard(d)'
    PROVE  CallOf(d)'
<1> PICK o \in Owners : o = OwnerOf(d)  BY OwnerIn
<1>1. own[o].last \in Nat /\ own'[o].last \in Nat /\ d[2] \in Nat  BY DEF TypeInv, Owner, Calls
<1>2. call[d].step # "unused" => d[2] <= own'[o].last  BY <1>1 DEF CallInv, CallOf
<1>3. OwnerOf(d) \notin Remote => call[d].step = "unused"  BY DEF CallInv, CallOf, Heard
<1> QED BY <1>2, <1>3 DEF CallInv, CallOf, Heard, OwnerOf

\* One that lets go of what it was told, or changes only what it does next.
LEMMA QuietOwner ==
    ASSUME IInv, NEW o \in Owners, UNCHANGED <<tab, sweeping, call, gate>>,
           own' \in [Owners -> Owner], \A p \in Owners : p # o => own'[p] = own[p],
           own'[o].last = own[o].last, own[o].step \notin {"committing", "over", "idle"},
           own[o].step # "taking" \/ o \in Remote,
           \/ own'[o].step \in {"ending", "dead"} /\ own'[o].has = {}
           \/ /\ own'[o].step \in {"appending", "lost"} /\ own'[o].has = own[o].has /\ own'[o].sure = own[o].sure
              /\ o \in Autos /\ own[o].step \in {"open", "appending"}
    PROVE  IInv'
<1> USE DEF IInv
<1>1. ASSUME NEW d \in Calls, OwnerOf(d) = o PROVE PlaceOf(d)' /\ CallOf(d)'
  <2>1. Others(d)  BY SameTurned, PassedOthers
  <2>2. own[o].last <= own'[o].last  BY DEF TypeInv, Owner
  <2>3. ~Heard(d)'  BY <1>1 DEF Heard, OwnerOf
  <2> QED BY <1>1, <2>3, <2>1, <2>2, PlaceKept, QuietCalls
<1>2. OwnOf(o)'  BY DEF OwnOf, OwnInv, Asks
<1>3. TellOf(o)'  BY DEF TellOf, TellInv
<1>4. LeaseOf(o)'  BY DEF LeaseOf, LeaseInv, Live
<1>5. OwnMoves(o)  BY <1>1, <1>2, <1>3, <1>4 DEF OwnMoves, TypeInv
<1> QED BY <1>5, OwnKeeps

LEMMA DoneIs ==
    ASSUME TypeInv, NEW o \in Owners, NEW s \in {"ending", "over", "dead"}, own' = [own EXCEPT ![o] = Done(o, s)]
    PROVE  /\ own' \in [Owners -> Owner] /\ \A p \in Owners : p # o => own'[p] = own[p]
           /\ own'[o].step = s /\ own'[o].has = {} /\ own'[o].last = own[o].last /\ own'[o].sure = TRUE
<1> DEFINE n == Done(o, s)
<1>1. n \in Owner /\ n.step = s /\ n.has = {} /\ n.last = own[o].last /\ n.sure = TRUE
  <2>1. own[o] \in Owner  BY DEF TypeInv
  <2> QED BY <2>1, LeaseIs DEF Done, Owner
<1>2. own' = [own EXCEPT ![o] = n]  OBVIOUS
<1> HIDE DEF n
<1> QED BY <1>1, <1>2 DEF TypeInv

LEMMA EndsKeeps == ASSUME IInv, NEW o \in Owners, End(o) \/ Die(o) PROVE IInv'
<1>1. \/ own[o].step = "open" /\ own' = [own EXCEPT ![o] = Done(o, "ending")]
      \/ o \in Remote /\ own[o].step \in {"taking", "open", "ending"} /\ own' = [own EXCEPT ![o] = Done(o, "dead")]
  BY DEF End, Die
<1>2. UNCHANGED <<tab, sweeping, call, gate>>  BY DEF End, Die
<1> QED BY <1>1, <1>2, DoneIs, QuietOwner DEF IInv

LEMMA StepIs ==
    ASSUME TypeInv, NEW o \in Owners, NEW s \in {"appending", "lost", "committing"}, own' = [own EXCEPT ![o].step = s]
    PROVE  /\ own' \in [Owners -> Owner] /\ \A p \in Owners : p # o => own'[p] = own[p]
           /\ own'[o].step = s /\ own'[o].has = own[o].has /\ own'[o].last = own[o].last /\ own'[o].sure = own[o].sure
<1> DEFINE n == [own[o] EXCEPT !.step = s]
<1>1. n \in Owner /\ n.step = s /\ n.has = own[o].has /\ n.last = own[o].last /\ n.sure = own[o].sure
  <2>1. own[o] \in Owner  BY DEF TypeInv
  <2> QED BY <2>1 DEF Owner
<1>2. own' = [own EXCEPT ![o] = n]  BY DEF TypeInv
<1> HIDE DEF n
<1> QED BY <1>1, <1>2 DEF TypeInv

LEMMA AppendKeeps == ASSUME IInv, NEW o \in Owners, SendAppend(o) \/ Appended(o) PROVE IInv'
<1>1. \/ o \in Autos /\ own[o].step = "open" /\ own' = [own EXCEPT ![o].step = "appending"]
      \/ own[o].step = "appending" /\ own' = [own EXCEPT ![o].step = "lost"]
      \/ own[o].step = "appending" /\ own' = [own EXCEPT ![o] = Done(o, "ending")]
  BY DEF SendAppend, Appended
<1>2. UNCHANGED <<tab, sweeping, call, gate>>  BY DEF SendAppend, Appended
<1>3. own[o].step = "appending" => o \in Autos  BY DEF IInv, OwnInv, OwnOf
<1>4. CASE own[o].step = "appending" /\ own' = [own EXCEPT ![o] = Done(o, "ending")]
  BY <1>2, <1>4, DoneIs, QuietOwner DEF IInv
<1>5. CASE o \in Autos /\ own[o].step = "open" /\ own' = [own EXCEPT ![o].step = "appending"]
  BY <1>2, <1>5, StepIs, QuietOwner DEF IInv
<1>6. CASE own[o].step = "appending" /\ own' = [own EXCEPT ![o].step = "lost"]
  BY <1>2, <1>3, <1>6, StepIs, QuietOwner DEF IInv
<1> QED BY <1>1, <1>4, <1>5, <1>6

\* A request sent, or one that is refused as it is: the owner listens to it from now on.
LEMMA SentKeeps ==
    ASSUME IInv, NEW o \in Owners, NEW c \in Calls, c = <<o, own[o].last + 1>>, NEW n \in Call,
           UNCHANGED <<tab, sweeping, gate>>, call' = [call EXCEPT ![c] = n],
           n.step \in {"asking", "refused"}, n.left = n.keys, n.left # {},
           own' = [own EXCEPT ![o].step = "taking", ![o].last = @ + 1, ![o].limit = IF o \in Remote THEN Lease ELSE 0],
           own[o].last < Tries, own[o].step \in {"idle", "open"} \/ (own[o].step = "taking" /\ o \in Remote)
    PROVE  IInv'
<1> USE DEF IInv
<1> DEFINE l == IF o \in Remote THEN Lease ELSE 0
           w == [own[o] EXCEPT !.step = "taking", !.last = own[o].last + 1, !.limit = l]
<1>0. own[o] \in Owner /\ own[o].last \in Nat  BY DEF TypeInv, Owner
<1>1. own' = [own EXCEPT ![o] = w]  BY DEF TypeInv
<1>l. own[o].last + 1 \in 0 .. Tries /\ l \in Left  BY <1>0, TriesAssumption, LeaseIs
<1> HIDE DEF l
<1>2. /\ w \in Owner /\ w.step = "taking" /\ w.last = own[o].last + 1 /\ w.has = own[o].has /\ w.sure = own[o].sure
  BY <1>0, <1>l DEF Owner
<1> HIDE DEF w
<1>3. /\ own' \in [Owners -> Owner] /\ \A p \in Owners : p # o => own'[p] = own[p]
      /\ own'[o] = w
  <2>1. own \in [Owners -> Owner] /\ w \in Owner  BY <1>2 DEF TypeInv
  <2> QED BY ONLY o \in Owners, <1>1, <2>1
<1>4. call' \in [Calls -> Call] /\ call'[c] = n /\ \A d \in Calls : d # c => call'[d] = call[d]
  BY DEF TypeInv
<1>5. OwnerOf(c) = o /\ c[2] = own[o].last + 1  BY DEF OwnerOf
<1>6. call[c].step = "unused"
  <2>1. call[c].step # "unused" => c[2] <= own[o].last  BY <1>5 DEF CallInv, CallOf
  <2> QED BY <2>1, <1>5, <1>0
<1>7. c \notin tab.won /\ \A k \in Keys : ~Stands(tab.queue[k], c)  BY <1>6 DEF PlaceInv, PlaceOf
<1>8. ASSUME NEW d \in Calls, OwnerOf(d) = o PROVE PlaceOf(d)' /\ CallOf(d)'
  <2>1. CASE d = c
    <3>1. PlaceOf(c)'  BY <1>7, FreePlace
    <3>2. CallOf(c)'
      <4>1. own'[OwnerOf(c)].step = "taking" /\ own'[OwnerOf(c)].last = c[2] /\ c[2] <= c[2]
        BY <1>0, <1>2, <1>3, <1>5
      <4> QED BY <1>4, <4>1 DEF CallOf, Heard, OwnerOf
    <3> QED BY <2>1, <3>1, <3>2
  <2>2. CASE d # c
    <3>1. Others(d)  BY <2>2, <1>4, SameTurned, PassedOthers
    <3>2. own[o].last <= own'[o].last  BY <1>0, <1>2, <1>3
    <3>3. ~Heard(d)'
      <4>1. d[2] # own[o].last + 1
        <5>1. d = <<d[1], d[2]>>  BY DEF Calls
        <5> QED BY <5>1, <1>8, <2>2 DEF OwnerOf
      <4> QED BY <4>1, <1>2, <1>3, <1>8 DEF Heard, OwnerOf
    <3> QED BY <1>3, <1>4, <1>8, <2>2, <3>1, <3>2, <3>3, PlaceKept, QuietCalls
  <2> QED BY <2>1, <2>2
<1>9. OwnOf(o)'  BY <1>0, <1>2, <1>3 DEF OwnOf, Asks
<1>10. TellOf(o)'
  <2>1. Last(o)' = c  BY <1>2, <1>3 DEF Last
  <2>2. TellCall(c)'  BY <1>4, <1>7 DEF TellCall
  <2>3. TellCall(Last(o))'  BY <2>1, <2>2
  <2> QED BY <1>2, <1>3, <2>3 DEF TellOf, TellInv
<1>11. LeaseOf(o)'  BY <1>2, <1>3 DEF LeaseOf, LeaseInv, Live
<1>12. OwnMoves(o)  BY <1>3, <1>4, <1>5, <1>8, <1>9, <1>10, <1>11 DEF OwnMoves
<1> QED BY <1>12, OwnKeeps

LEMMA NextCall == ASSUME TypeInv, NEW o \in Owners, own[o].last < Tries PROVE <<o, own[o].last + 1>> \in Calls
<1>1. own[o].last \in 0 .. Tries  BY DEF TypeInv, Owner
<1>2. own[o].last + 1 \in 1 .. Tries  BY <1>1, TriesAssumption
<1> QED BY <1>2 DEF Calls

LEMMA BeginKeeps == ASSUME IInv, NEW o \in Owners, Begin(o) \/ BeginNowait(o) PROVE IInv'
<1> USE DEF IInv
<1> PICK c : c = <<o, own[o].last + 1>>  OBVIOUS
<1>1. PICK keys \in (SUBSET Keys) \ {{}}, s \in {"asking", "refused"}, nowait \in BOOLEAN :
          /\ own[o].step \in {"idle", "open"} /\ own[o].last < Tries
          /\ call' = [call EXCEPT ![c] = [step |-> s, keys |-> keys, left |-> keys, nowait |-> nowait]]
          /\ own' = [own EXCEPT ![o].step = "taking", ![o].last = @ + 1, ![o].limit = IF o \in Remote THEN Lease ELSE 0]
  <2>1. CASE Begin(o)  BY <2>1 DEF Begin, Send
  <2>2. CASE BeginNowait(o)
    <3> PICK keys \in (SUBSET Keys) \ {{}}, s \in {"asking", "refused"} :
          /\ own[o].last < Tries
          /\ call' = [call EXCEPT ![c] = [step |-> s, keys |-> keys, left |-> keys, nowait |-> TRUE]]
          /\ own' = [own EXCEPT ![o].step = "taking", ![o].last = @ + 1, ![o].limit = IF o \in Remote THEN Lease ELSE 0]
      BY <2>2 DEF BeginNowait, Send
    <3> QED BY <2>2 DEF BeginNowait
  <2> QED BY <2>1, <2>2
<1>2. UNCHANGED <<tab, sweeping, gate>>  BY DEF Begin, BeginNowait
<1> DEFINE n == [step |-> s, keys |-> keys, left |-> keys, nowait |-> nowait]
<1>3. n \in Call /\ n.step \in {"asking", "refused"} /\ n.left = n.keys /\ n.left # {}
  <2>1. keys \subseteq Keys /\ keys # {}  OBVIOUS
  <2>2. n.step = s /\ n.left = keys /\ n.keys = keys  OBVIOUS
  <2>3. n \in Call
    <3>1. s \in {"unused", "asking", "queued", "waiting", "entering", "granted", "refused"}  OBVIOUS
    <3> QED BY <2>1, <3>1 DEF Call
  <2> QED BY <2>1, <2>2, <2>3
<1>4. call' = [call EXCEPT ![c] = n]  BY <1>1
<1>5. c \in Calls  BY <1>1, NextCall
<1> HIDE DEF n
<1> QED BY <1>1, <1>2, <1>3, <1>4, <1>5, SentKeeps

LEMMA RetryKeeps == ASSUME IInv, NEW o \in Owners, Retry(o) PROVE IInv'
<1> USE DEF IInv
<1> DEFINE c == <<o, own[o].last + 1>>
           keys == call[Last(o)].keys
           n == [step |-> "asking", keys |-> keys, left |-> keys, nowait |-> FALSE]
<1>1. /\ o \in Remote /\ own[o].step = "taking" /\ own[o].last < Tries
      /\ call' = [call EXCEPT ![c] = n]
      /\ own' = [own EXCEPT ![o].step = "taking", ![o].last = @ + 1, ![o].limit = IF o \in Remote THEN Lease ELSE 0]
  BY DEF Retry, Send, Last
<1>2. UNCHANGED <<tab, sweeping, gate>>  BY DEF Retry
<1>3. n \in Call /\ n.step \in {"asking", "refused"} /\ n.left = n.keys /\ n.left # {}
  <2> PICK d \in Calls : d = Last(o) /\ OwnerOf(d) = o  BY <1>1, LastIs
  <2>1. Heard(d)  BY <1>1 DEF Heard, Last, OwnerOf
  <2>2. call[d].keys # {} /\ call[d].keys \subseteq Keys  BY <2>1 DEF CallInv, CallOf, TypeInv, Call
  <2> QED BY <2>2 DEF Call
<1>4. c \in Calls  BY <1>1, NextCall
<1> HIDE DEF n
<1> QED BY <1>1, <1>2, <1>3, <1>4, SentKeeps

\* What an owner does with an answer.
LEMMA AnswerIs ==
    ASSUME TypeInv, CallInv, OwnInv, NEW o \in Owners, Answer(o)
    PROVE  /\ UNCHANGED <<tab, sweeping, gate>> /\ own[o].step = "taking"
           /\ call[Last(o)].step \in {"granted", "refused"} /\ call' = [call EXCEPT ![Last(o)] = NewCall]
           /\ own' \in [Owners -> Owner] /\ \A p \in Owners : p # o => own'[p] = own[p]
           /\ own'[o].last = own[o].last
           /\ \/ own'[o].step = "ending" /\ own'[o].has = {}
              \/ /\ own'[o].step = "open" /\ own'[o].sure = own[o].sure /\ own'[o].has = own[o].has
                 /\ o \notin Autos
              \/ /\ own'[o].step = "open" /\ own'[o].sure = own[o].sure
                 /\ own'[o].has = own[o].has \cup call[Last(o)].keys /\ call[Last(o)].step = "granted"
<1>0. own[o].step = "taking"  BY DEF Answer
<1> PICK c \in Calls : c = Last(o) /\ OwnerOf(c) = o  BY <1>0, LastIs
<1> DEFINE has == own[o].has \cup call[c].keys
           won == [own[o] EXCEPT !.step = "open", !.limit = 0, !.has = has]
           lost == [own[o] EXCEPT !.step = "open", !.limit = 0]
<1>o. own[o] \in Owner /\ call[c] \in Call  BY DEF TypeInv
<1>1. /\ call[c].step \in {"granted", "refused"} /\ call' = [call EXCEPT ![c] = NewCall]
      /\ \/ call[c].step = "granted" /\ own' = [own EXCEPT ![o] = won]
         \/ own' = [own EXCEPT ![o] = Done(o, "ending")]
         \/ o \notin Autos /\ own' = [own EXCEPT ![o] = lost]
  <2> DEFINE n == IF call[c].step = "granted" THEN won ELSE IF o \in Autos THEN Done(o, "ending") ELSE lost
  <2> DEFINE m == IF call[c].step = "granted" THEN [own[o] EXCEPT !.step = "open", !.limit = 0, !.has = @ \cup call[c].keys]
                  ELSE IF o \in Autos THEN Done(o, "ending") ELSE [own[o] EXCEPT !.step = "open", !.limit = 0]
  <2>a. own' = [own EXCEPT ![o] = m]
    <3> DEFINE e == <<o, own[o].last>>
    <3>1. own' = [own EXCEPT ![o] = IF call[e].step = "granted" THEN [own[o] EXCEPT !.step = "open", !.limit = 0, !.has = @ \cup call[e].keys]
                                    ELSE IF o \in Autos THEN Done(o, "ending") ELSE [own[o] EXCEPT !.step = "open", !.limit = 0]]
      BY DEF Answer
    <3>2. e = c  BY DEF Last
    <3> HIDE DEF e
    <3> QED BY <3>1, <3>2 DEF TypeInv
  <2>b. m = n
    <3>1. [own[o] EXCEPT !.step = "open", !.limit = 0, !.has = @ \cup call[c].keys] = won  BY <1>o DEF Owner
    <3> QED BY <3>1
  <2>1. own' = [own EXCEPT ![o] = n]  BY <2>a, <2>b
  <2> HIDE DEF won, lost
  <2>2. \/ call[c].step = "granted" /\ n = won
        \/ n = Done(o, "ending")
        \/ o \notin Autos /\ n = lost
    OBVIOUS
  <2>3. call[c].step \in {"granted", "refused"} /\ call' = [call EXCEPT ![c] = NewCall]  BY DEF Answer, Last
  <2> HIDE DEF n
  <2> QED BY <2>1, <2>2, <2>3
<1>2. UNCHANGED <<tab, sweeping, gate>>  BY DEF Answer
<1>3. /\ won \in Owner /\ won.step = "open" /\ won.has = has /\ won.last = own[o].last /\ won.sure = own[o].sure
      /\ lost \in Owner /\ lost.step = "open" /\ lost.has = own[o].has /\ lost.last = own[o].last /\ lost.sure = own[o].sure
  BY <1>o, LeaseIs DEF Owner, Call
<1> HIDE DEF won, lost
<1>4. /\ own' \in [Owners -> Owner] /\ \A p \in Owners : p # o => own'[p] = own[p]
      /\ own'[o].last = own[o].last
      /\ \/ own'[o].step = "ending" /\ own'[o].has = {}
         \/ own'[o].step = "open" /\ own'[o].sure = own[o].sure /\ own'[o].has = own[o].has /\ o \notin Autos
         \/ own'[o].step = "open" /\ own'[o].sure = own[o].sure /\ own'[o].has = has /\ call[c].step = "granted"
  <2>1. CASE own' = [own EXCEPT ![o] = Done(o, "ending")]  BY <2>1, DoneIs
  <2>2. CASE o \notin Autos /\ own' = [own EXCEPT ![o] = lost]  BY <2>2, <1>3 DEF TypeInv
  <2>3. CASE own' = [own EXCEPT ![o] = won] /\ call[c].step = "granted"  BY <2>3, <1>3 DEF TypeInv
  <2> QED BY <1>1, <2>1, <2>2, <2>3
<1> QED BY <1>0, <1>1, <1>2, <1>4

LEMMA AnswerKeeps == ASSUME IInv, NEW o \in Owners, Answer(o) PROVE IInv'
<1> USE DEF IInv
<1> DEFINE has == own[o].has \cup call[Last(o)].keys
<1>0. own[o].step = "taking"  BY DEF Answer
<1> PICK c \in Calls : c = Last(o) /\ OwnerOf(c) = o  BY <1>0, LastIs
<1>1. call[c].step \in {"granted", "refused"} /\ call' = [call EXCEPT ![c] = NewCall]  BY AnswerIs
<1>2. UNCHANGED <<tab, sweeping, gate>>  BY DEF Answer
<1>4. /\ own' \in [Owners -> Owner] /\ \A p \in Owners : p # o => own'[p] = own[p]
      /\ own'[o].last = own[o].last
      /\ \/ own'[o].step = "ending" /\ own'[o].has = {}
         \/ own'[o].step = "open" /\ own'[o].sure = own[o].sure /\ own'[o].has = own[o].has
         \/ own'[o].step = "open" /\ own'[o].sure = own[o].sure /\ own'[o].has = has /\ call[c].step = "granted"
  BY AnswerIs
<1>5. /\ call' \in [Calls -> Call] /\ \A d \in Calls : d # c => call'[d] = call[d]
      /\ call'[c] = NewCall
  <2>1. NewCall \in Call  BY DEF NewCall, Call
  <2> QED BY <2>1, <1>1 DEF TypeInv
<1>6. ASSUME NEW d \in Calls, OwnerOf(d) = o PROVE PlaceOf(d)' /\ CallOf(d)'
  <2>n. ~Heard(d)'  BY <1>4, <1>6 DEF Heard, OwnerOf
  <2>1. CASE d = c
    <3>1. c \notin tab'.won /\ \A k \in Keys : ~Stands(tab'.queue[k], c)  BY <1>1, <1>2 DEF PlaceInv, PlaceOf
    <3>2. CallOf(d)'  BY <2>1, <2>n, <1>5 DEF CallOf, NewCall
    <3> QED BY <2>1, <3>1, <3>2, FreePlace
  <2>2. CASE d # c
    <3>1. Others(d)  BY <2>2, <1>2, <1>5, SameTurned, PassedOthers
    <3>2. own[o].last <= own'[o].last  BY <1>4 DEF TypeInv, Owner
    <3>3. CASE o \in Remote  BY <3>1, <3>2, <3>3, <2>2, <2>n, <1>4, <1>5, <1>6, PlaceKept, QuietCalls
    <3>4. CASE o \notin Remote
      <4>1. ~Heard(d)
        <5>1. d = <<d[1], d[2]>>  BY DEF Calls
        <5> QED BY <5>1, <2>2, <1>6 DEF Heard, OwnerOf, Last
      <4>2. call[d].step = "unused"  BY <4>1, <3>4, <1>6 DEF CallInv, CallOf
      <4>3. call'[d] = call[d] /\ call[d].left \subseteq call[d].keys  BY <2>2, <1>5 DEF CallInv, CallOf
      <4>4. CallOf(d)'  BY <4>2, <4>3, <2>n DEF CallOf
      <4> QED BY <4>4, <3>1, PlaceKept
    <3> QED BY <3>3, <3>4
  <2> QED BY <2>1, <2>2
<1>7. OwnOf(o)'  BY <1>4 DEF OwnOf, Asks
<1>8. TellOf(o)'
  <2>1. own[o].sure => own[o].has \subseteq tab.held[o] /\ (call[c].step = "granted" => call[c].keys \subseteq tab.held[o])
    BY <1>0 DEF TellInv, TellOf, TellCall
  <2> QED BY <2>1, <1>2, <1>4 DEF TellOf
<1>9. LeaseOf(o)'  BY <1>0, <1>2, <1>4 DEF LeaseOf, LeaseInv, Live
<1>10. \A d \in Calls : OwnerOf(d) # o => call'[d] = call[d]  BY <1>5
<1>11. OwnMoves(o)  BY <1>0, <1>2, <1>4, <1>5, <1>6, <1>7, <1>8, <1>9, <1>10 DEF OwnMoves
<1> QED BY <1>11, OwnKeeps

-----------------------------------------------------------------------------
(* Other turns of the mutex, the gate and the clock                        *)

LEMMA UpkeepsKeeps ==
    ASSUME IInv, \/ \E o \in Owners : Upkeep(o)
                 \/ Sweep
                 \/ \E k \in Keys : SweepKey(k)
    PROVE  IInv'
<1> USE DEF IInv
<1>1. /\ Effect /\ Passed(tab, tab') /\ tab'.closed = tab.closed
      /\ \A x \in Tables : tab'.flying[x] \subseteq tab.flying[x]
      /\ sweeping' \subseteq Keys /\ UNCHANGED <<call, own, gate>>
  <2>1. CASE \E o \in Owners : Upkeep(o)
    <3> PICK o \in Owners : Upkeep(o)  BY <2>1
    <3> QED BY UpkeepDoes DEF SameRest, Upkeep, TypeInv
  <2>2. CASE Sweep  BY <2>2, SweepDoes
  <2>3. CASE \E k \in Keys : SweepKey(k)  BY <2>3, SweepKeyDoes DEF SameRest
  <2> QED BY <2>1, <2>2, <2>3
<1>t. \A o \in Owners : Turned(tab, tab', o)  BY <1>1 DEF Effect
<1>o. \A d \in Calls : Others(d)  BY <1>1, PassedOthers
<1>2. TypeInv'  BY <1>1 DEF TypeInv
<1>3. PlaceInv'  BY <1>o, PlaceKept DEF PlaceInv
<1>4. CallInv'  BY <1>1, CallKept DEF CallInv
<1>5. OwnInv'  BY <1>1, <1>t, OwnKept DEF OwnInv
<1>6. ASSUME NEW o \in Owners PROVE TellOf(o)'
  <2>1. own[o].step = "taking" => Others(Last(o))  BY <1>o, LastIs
  <2> QED BY <2>1, <1>1, <1>t, TellKept
<1>7. LeaseInv'  BY <1>1, <1>t, LeaseKept DEF LeaseInv
<1>8. EndInv'  BY <1>1, <1>t, EndKept DEF EndInv
<1>9. GateInv'  BY <1>1 DEF GateInv
<1>10. TabInv'  BY <1>1 DEF Effect
<1> QED BY <1>2, <1>3, <1>4, <1>5, <1>6, <1>7, <1>8, <1>9, <1>10 DEF TellInv

LEMMA LetGoKeeps == ASSUME IInv, NEW o \in Owners, LetGo(o) PROVE IInv'
<1> USE DEF IInv
<1>1. /\ TabInv' /\ Passed(tab, tab') /\ tab'.closed = tab.closed
      /\ \A p \in Owners : p # o => Turned(tab, tab', p)
      /\ tab'.held[o] = {} /\ tab'.waiting[o] = Nobody
      /\ \A x \in Tables : tab'.flying[x] = tab.flying[x] \ {o}
      /\ own[o].step = "ending" /\ own' = [own EXCEPT ![o] = Done(o, "over")]
      /\ UNCHANGED <<sweeping, call, gate>>
  BY LetGoDoes
<1>2. /\ own' \in [Owners -> Owner] /\ \A p \in Owners : p # o => own'[p] = own[p]
      /\ own'[o].step = "over" /\ own'[o].has = {} /\ own'[o].last = own[o].last
  BY <1>1, DoneIs
<1>o. \A d \in Calls : Others(d)  BY <1>1, PassedOthers
<1>3. TypeInv'  BY <1>1, <1>2 DEF TypeInv
<1>4. PlaceInv'  BY <1>o, PlaceKept DEF PlaceInv
<1>5. ASSUME NEW d \in Calls PROVE CallOf(d)'
  <2>1. CASE OwnerOf(d) # o  BY <2>1, <1>1, <1>2, OwnerIn, CallKept
  <2>2. CASE OwnerOf(d) = o
    <3>1. ~Heard(d)' /\ own[o].last <= own'[o].last
      BY <1>2, <2>2 DEF Heard, OwnerOf, TypeInv, Owner
    <3> QED BY <3>1, <2>2, <1>1, <1>2, QuietCalls
  <2> QED BY <2>1, <2>2
<1>6. ASSUME NEW p \in Owners PROVE OwnOf(p)' /\ LeaseOf(p)' /\ EndOf(p)'
  <2>1. CASE p # o  BY <2>1, <1>1, <1>2, OwnKept, LeaseKept, EndKept
  <2>2. CASE p = o  BY <2>2, <1>1, <1>2 DEF OwnOf, LeaseOf, EndOf, Asks
  <2> QED BY <2>1, <2>2
<1>7. ASSUME NEW p \in Owners PROVE TellOf(p)'
  <2>1. CASE p # o
    <3>1. own[p].step = "taking" => Others(Last(p))  BY <1>o, LastIs
    <3> QED BY <2>1, <3>1, <1>1, <1>2, TellKept
  <2>2. CASE p = o  BY <2>2, <1>2 DEF TellOf
  <2> QED BY <2>1, <2>2
<1>8. GateInv'
  <2>1. gate.who # Nobody => own'[gate.who].step = "committing"  BY <1>1, <1>2 DEF GateInv, TypeInv, Gate
  <2> QED BY <2>1, <1>1 DEF GateInv
<1> QED BY <1>1, <1>3, <1>4, <1>5, <1>6, <1>7, <1>8 DEF CallInv, OwnInv, LeaseInv, EndInv, TellInv

\* A step of the gate: no lease, no key and no place moves, and at most the owner `o` has a new step.
LEMMA GateKeeps ==
    ASSUME IInv, Effect, Passed(tab, tab'), tab'.flying = tab.flying, UNCHANGED <<sweeping, call>>,
           gate' \in Gate, GateInv', NEW o \in Owners \cup {Nobody},
           own' \in [Owners -> Owner], \A p \in Owners : p # o => own'[p] = own[p],
           \A p \in Owners : p # o /\ own[p].step = "committing" => gate'.step # "open" /\ gate'.who = p,
           o \in Owners => /\ own[o].step \in {"open", "committing"} /\ own'[o].step \in {"committing", "ending"}
                           /\ own'[o].last = own[o].last
                           /\ \/ own'[o].step = "ending" /\ own'[o].has = {}
                              \/ own'[o].step = "committing" /\ own'[o].has = own[o].has /\ own'[o].sure = own[o].sure
                                 /\ gate'.step # "open" /\ gate'.who = o
    PROVE  IInv'
<1> USE DEF IInv
<1>t. \A p \in Owners : Turned(tab, tab', p)  BY DEF Effect
<1>o. \A d \in Calls : Others(d)  BY PassedOthers
<1>1. TypeInv'  BY DEF TypeInv
<1>2. TabInv'  BY DEF Effect
<1>3. PlaceInv'  BY <1>o, PlaceKept DEF PlaceInv
<1>4. ASSUME NEW d \in Calls PROVE CallOf(d)'
  <2>1. CASE OwnerOf(d) # o  BY <2>1, OwnerIn, CallKept
  <2>2. CASE OwnerOf(d) = o
    <3>1. ~Heard(d)' /\ own[o].last <= own'[o].last /\ own[o].step # "taking"
      BY <2>2, OwnerIn DEF Heard, OwnerOf, TypeInv, Owner
    <3> QED BY <3>1, <2>2, QuietCalls
  <2> QED BY <2>1, <2>2
<1>5. ASSUME NEW p \in Owners PROVE OwnOf(p)'
  <2>1. CASE p # o
    <3>1. own[p].step = "committing" => gate'.step # "open" /\ gate'.who = gate.who
      BY <2>1 DEF OwnInv, OwnOf
    <3> QED BY <2>1, <3>1, <1>t, OwnKept
  <2>2. CASE p = o
    <3>1. own'[o].step \in {"committing", "ending"} /\ (own'[o].step = "ending" => own'[o].has = {})
      BY <2>2
    <3>2. own'[o].step = "committing" => gate'.step # "open" /\ gate'.who = o  BY <2>2
    <3> QED BY <2>2, <3>1, <3>2 DEF OwnOf, Asks
  <2> QED BY <2>1, <2>2
<1>6. ASSUME NEW p \in Owners PROVE TellOf(p)'
  <2>1. CASE p # o
    <3>1. own[p].step = "taking" => Others(Last(p))  BY <1>o, LastIs
    <3> QED BY <2>1, <3>1, <1>t, TellKept
  <2>2. CASE p = o
    <3>1. own[p].sure /\ own[p].step \in {"open", "committing"} => tab.held[p] \subseteq tab'.held[p]
      BY <1>t, HeldGrows
    <3> QED BY <2>2, <3>1 DEF TellOf, TellInv
  <2> QED BY <2>1, <2>2
<1>7. ASSUME NEW p \in Owners PROVE LeaseOf(p)'
  <2>1. CASE p # o  BY <2>1, <1>t, LeaseKept
  <2>2. CASE p = o
    <3>1. Turned(tab, tab', p)  BY <1>t
    <3>2. Live(tab, p) => Live(tab', p)  BY <3>1, LeaseIs DEF Turned, Live
    <3>3. tab'.held[p] # {} => tab.held[p] # {} \/ Live(tab', p)  BY <3>1, LeaseIs DEF Turned, Live
    <3>4. own[p].sure => LeaseOf(p)'  BY <2>2, <3>2, <3>3 DEF LeaseOf, LeaseInv, Live
    <3> QED BY <2>2, <3>4 DEF LeaseOf
  <2> QED BY <2>1, <2>2
<1>8. ASSUME NEW p \in Owners PROVE EndOf(p)'
  <2>1. own[p].step = "over" => own'[p].step = "over"  OBVIOUS
  <2> QED BY <2>1, <1>t, EndKept
<1> QED BY <1>1, <1>2, <1>3, <1>4, <1>5, <1>6, <1>7, <1>8 DEF CallInv, OwnInv, LeaseInv, EndInv, TellInv

LEMMA CloseKeeps == ASSUME IInv, NEW who \in Owners \cup {Nobody}, Close(who) PROVE IInv'
<1> USE DEF IInv
<1>1. /\ Effect /\ Passed(tab, tab') /\ tab'.flying = tab.flying
      /\ gate.step = "open" /\ gate'.step = "waiting" /\ gate'.who = who /\ gate' \in Gate
      /\ \A x \in Tables : tab'.closed[x] = IF x \in gate'.tables THEN 1 ELSE 0
      /\ \/ who = Nobody /\ own' = own
         \/ who \in Owners \ Autos /\ own[who].step = "open" /\ own' = [own EXCEPT ![who].step = "committing"]
      /\ UNCHANGED <<sweeping, call>>
  BY CloseDoes
<1>2. \A p \in Owners : own[p].step # "committing"  BY <1>1 DEF OwnInv, OwnOf
<1>3. CASE who = Nobody /\ own' = own
  <2>1. GateInv'  BY <1>1, <1>3 DEF GateInv
  <2> QED BY <1>1, <1>2, <1>3, <2>1, NobodyIs, GateKeeps DEF TypeInv
<1>4. CASE who \in Owners /\ own[who].step = "open" /\ own' = [own EXCEPT ![who].step = "committing"]
  <2>1. /\ own' \in [Owners -> Owner] /\ \A p \in Owners : p # who => own'[p] = own[p]
        /\ own'[who].step = "committing" /\ own'[who].has = own[who].has /\ own'[who].last = own[who].last
        /\ own'[who].sure = own[who].sure
    BY <1>4, StepIs
  <2>2. GateInv'  BY <1>1, <2>1 DEF GateInv
  <2> QED BY <1>1, <1>2, <1>4, <2>1, <2>2, GateKeeps
<1> QED BY <1>1, <1>3, <1>4

LEMMA OpenGateKeeps == ASSUME IInv, OpenGate PROVE IInv'
<1> USE DEF IInv
<1>1. /\ Effect /\ Passed(tab, tab') /\ tab'.flying = tab.flying
      /\ gate.step # "open" /\ gate' = Open
      /\ \A x \in Tables : tab'.closed[x] = 0
      /\ \/ gate.who = Nobody /\ own' = own
         \/ gate.who \in Owners /\ own' = [own EXCEPT ![gate.who] = Done(gate.who, "ending")]
      /\ UNCHANGED <<sweeping, call>>
  BY OpenGateDoes
<1>2. \A p \in Owners : own[p].step = "committing" => gate.who = p  BY DEF OwnInv, OwnOf
<1>3. gate' \in Gate /\ gate'.tables = {} /\ gate'.who = Nobody  BY <1>1 DEF Open, Gate
<1>4. GateInv'  BY <1>1, <1>3 DEF GateInv
<1>5. CASE gate.who = Nobody /\ own' = own
  BY <1>1, <1>2, <1>3, <1>4, <1>5, NobodyIs, GateKeeps DEF TypeInv
<1>6. CASE gate.who \in Owners /\ own' = [own EXCEPT ![gate.who] = Done(gate.who, "ending")]
  <2> PICK o \in Owners : o = gate.who  BY <1>6
  <2>1. /\ own' \in [Owners -> Owner] /\ \A p \in Owners : p # o => own'[p] = own[p]
        /\ own'[o].step = "ending" /\ own'[o].has = {} /\ own'[o].last = own[o].last
    BY <1>6, DoneIs
  <2>2. own[o].step = "committing"  BY NobodyIs DEF GateInv
  <2> QED BY <1>1, <1>2, <1>3, <1>4, <2>1, <2>2, GateKeeps
<1> QED BY <1>1, <1>5, <1>6

LEMMA PassGateKeeps == ASSUME IInv, PassGate PROVE IInv'
<1> USE DEF IInv
<1>1. /\ gate.step = "waiting" /\ gate' = [gate EXCEPT !.step = "inside"] /\ UNCHANGED <<tab, sweeping, call, own>>
  BY DEF PassGate
<1>2. gate' \in Gate /\ gate'.step = "inside" /\ gate'.tables = gate.tables /\ gate'.who = gate.who
  BY <1>1 DEF TypeInv, Gate
<1>3. GateInv'  BY <1>1, <1>2 DEF GateInv
<1>4. Effect /\ Passed(tab, tab')
  BY <1>1, RestEffect DEF TabInv, Well
<1>5. \A p \in Owners : own[p].step = "committing" => gate'.step # "open" /\ gate'.who = p
  BY <1>2 DEF OwnInv, OwnOf
<1> QED BY <1>1, <1>2, <1>3, <1>4, <1>5, NobodyIs, GateKeeps DEF TypeInv

LEMMA TickKeeps == ASSUME IInv, Tick PROVE IInv'
<1> USE DEF IInv
<1>1. /\ TabInv' /\ Passed(tab, tab') /\ Rest /\ SameRest
      /\ \A o \in Owners : tab'.leases[o] = Less(tab.leases[o]) /\ tab'.ended[o] = Less(tab.ended[o])
      /\ \A o \in Owners : own'[o] = [own[o] EXCEPT !.limit = Less(@), !.sure = @ /\ (tab.leases[o] # 1 \/ ~Asks(o))]
      /\ own' \in [Owners -> Owner]
      /\ UNCHANGED <<sweeping, call, gate>>
  BY TickDoes
<1>2. ASSUME NEW o \in Owners
      PROVE  /\ own'[o].step = own[o].step /\ own'[o].has = own[o].has /\ own'[o].last = own[o].last
             /\ own'[o].sure => own[o].sure /\ (tab.leases[o] # 1 \/ ~Asks(o))
  <2>1. own[o] \in Owner  BY DEF TypeInv
  <2>2. own'[o] = [own[o] EXCEPT !.limit = Less(@), !.sure = @ /\ (tab.leases[o] # 1 \/ ~Asks(o))]  BY <1>1
  <2> QED BY <2>1, <2>2 DEF Owner
<1>o. \A d \in Calls : Others(d)  BY <1>1, PassedOthers
<1>3. TypeInv'  BY <1>1 DEF TypeInv
<1>4. PlaceInv'  BY <1>o, PlaceKept DEF PlaceInv
<1>5. ASSUME NEW d \in Calls PROVE CallOf(d)'
  <2> PICK o \in Owners : o = OwnerOf(d)  BY OwnerIn
  <2>1. own'[o].step = own[o].step /\ own'[o].last = own[o].last  BY <1>2
  <2> QED BY <2>1, <1>1 DEF CallInv, CallOf, Heard, OwnerOf
<1>6. ASSUME NEW o \in Owners PROVE OwnOf(o)'
  <2>1. /\ own'[o].step = own[o].step /\ own'[o].last = own[o].last /\ own'[o].has = own[o].has
        /\ tab'.held = tab.held /\ tab'.flying = tab.flying /\ gate' = gate
    BY <1>1, <1>2 DEF Rest, SameRest
  <2> QED BY <2>1 DEF OwnInv, OwnOf, Asks
<1>7. ASSUME NEW o \in Owners PROVE TellOf(o)'
  <2>1. SUFFICES ASSUME own[o].sure, own[o].step = "taking" PROVE TellCall(Last(o))'
    BY <1>1, <1>2 DEF TellOf, TellInv, Rest
  <2> PICK d \in Calls : d = Last(o) /\ OwnerOf(d) = o  BY <2>1, LastIs
  <2>2. TellCall(d)  BY <2>1 DEF TellInv, TellOf
  <2>3. TellCall(d)'  BY <2>2, <1>1, <1>o, TellCallKept, OwnerIn DEF Rest
  <2>4. Last(o)' = d  BY <1>2 DEF Last
  <2> QED BY <2>3, <2>4
<1>8. ASSUME NEW o \in Owners PROVE LeaseOf(o)'
  <2> SUFFICES ASSUME own'[o].sure, own'[o].step \notin {"ending", "over", "dead"}
               PROVE  /\ tab'.held[o] # {} => Live(tab', o)
                      /\ \A x \in Tables : o \in tab'.flying[x] => Live(tab', o)
    BY DEF LeaseOf, Live
  <2>1. tab'.held = tab.held /\ tab'.flying = tab.flying  BY <1>1 DEF Rest, SameRest
  <2>2. CASE own[o].step = "idle"  BY <2>1, <2>2 DEF OwnInv, OwnOf
  <2>3. CASE own[o].step # "idle"
    <3>1. own[o].sure /\ tab.leases[o] # 1  BY <2>3, <1>2 DEF Asks
    <3>2. Live(tab, o) => Live(tab', o)
      <4> PICK n \in Nat : n = tab.leases[o]  BY DEF TabInv, Well, Table0, Left
      <4>1. n # 1 /\ n > 0 => Less(n) > 0  BY DEF Less
      <4>2. tab'.leases[o] = Less(n)  BY <1>1
      <4> QED BY <4>1, <4>2, <3>1 DEF Live
    <3> QED BY <2>1, <3>1, <3>2, <1>2 DEF LeaseInv, LeaseOf
  <2> QED BY <2>2, <2>3
<1>9. ASSUME NEW o \in Owners PROVE EndOf(o)'
  <2>1. IsEnded(tab, o)' => IsEnded(tab, o)
    <3> PICK n \in Nat : n = tab.ended[o]  BY DEF TabInv, Well, Table0, Left
    <3>1. Less(n) > 0 => n > 0  BY DEF Less
    <3>2. tab'.ended[o] = Less(n)  BY <1>1
    <3> QED BY <3>1, <3>2 DEF IsEnded
  <2>2. own'[o].step = own[o].step /\ tab'.held[o] = tab.held[o] /\ tab'.waiting[o] = tab.waiting[o]
    BY <1>1, <1>2 DEF Rest
  <2>3. EndOf(o)  BY DEF EndInv
  <2> QED BY <2>1, <2>2, <2>3 DEF EndOf
<1>10. GateInv'
  <2>1. gate.who # Nobody => own'[gate.who].step = "committing"
    BY <1>2 DEF GateInv, TypeInv, Gate
  <2> QED BY <2>1, <1>1 DEF GateInv, SameRest
<1> QED BY <1>1, <1>3, <1>4, <1>5, <1>6, <1>7, <1>8, <1>9, <1>10 DEF CallInv, OwnInv, LeaseInv, EndInv, TellInv

-----------------------------------------------------------------------------
(* The theorems                                                            *)

\* The invariant holds at the start, ...
LEMMA InitHolds == Init => IInv
<1> SUFFICES ASSUME Init PROVE IInv  OBVIOUS
<1> USE LeaseIs, NobodyIs
<1>1. \A k \in Keys : tab.queue[k] = <<>> /\ tab.holder[k] = Nobody  BY DEF Init
<1>2. \A o \in Owners : tab.held[o] = {} /\ tab.leases[o] = 0 /\ tab.ended[o] = 0 /\ tab.waiting[o] = Nobody
  BY DEF Init
<1>3. tab.won = {} /\ (\A x \in Tables : tab.flying[x] = {} /\ tab.closed[x] = 0)  BY DEF Init
<1>4. \A c \in Calls : call[c] = NewCall  BY DEF Init
<1>5. \A o \in Owners : own[o] = [step |-> "idle", last |-> 0, has |-> {}, limit |-> 0, sure |-> TRUE]  BY DEF Init
<1>6. \A q, c : q = <<>> => ~Stands(q, c)  BY DEF Stands
<1>7. TypeInv
  <2>1. NewCall \in Call  BY DEF NewCall, Call
  <2>2. [step |-> "idle", last |-> 0, has |-> {}, limit |-> 0, sure |-> TRUE] \in Owner  BY TriesAssumption DEF Owner
  <2>3. Open \in Gate  BY DEF Open, Gate
  <2> QED BY <2>1, <2>2, <2>3 DEF Init, TypeInv
<1>8. TabInv
  <2>1. tab \in Table0  BY DEF Init, Table0
  <2>2. \A k \in Keys : Distinct(tab.queue[k])  BY <1>1 DEF Distinct
  <2>3. \A k \in Keys : \A c : ~Stands(tab.queue[k], c)  BY <1>1, <1>6
  <2>4. \A o \in Owners, k \in Keys : k \in tab.held[o] <=> tab.holder[k] = o  BY <1>1, <1>2
  <2>5. \A o \in Owners, k \in Keys : \A c \in Calls : tab.waiting[o] # <<k, c>>  BY <1>2
  <2>6. Indexed(tab)  BY <2>2, <2>3, <2>4, <2>5 DEF Indexed
  <2> QED BY <2>1, <2>6, <1>1 DEF TabInv, Well, Given
<1>9. PlaceInv  BY <1>1, <1>3, <1>6 DEF PlaceInv, PlaceOf
<1>10. CallInv
  <2> SUFFICES ASSUME NEW c \in Calls PROVE CallOf(c)  BY DEF CallInv
  <2>1. call[c].step = "unused" /\ call[c].left = {}  BY <1>4 DEF NewCall
  <2>2. ~Heard(c)  BY <1>5, OwnerIn DEF Heard
  <2> QED BY <2>1, <2>2 DEF CallOf
<1>11. OwnInv  BY <1>2, <1>3, <1>5 DEF OwnInv, OwnOf
<1>12. TellInv  BY <1>5 DEF TellInv, TellOf
<1>13. LeaseInv  BY <1>2, <1>3 DEF LeaseInv, LeaseOf
<1>14. EndInv  BY <1>2 DEF EndInv, EndOf, IsEnded
<1>15. GateInv  BY <1>3 DEF GateInv, Init, Open
<1> QED BY <1>7, <1>8, <1>9, <1>10, <1>11, <1>12, <1>13, <1>14, <1>15 DEF IInv

LEMMA StutterKeeps == ASSUME IInv, UNCHANGED vars PROVE IInv'
<1> USE DEF IInv
<1>1. UNCHANGED <<tab, sweeping, call, own, gate>>  BY DEF vars
<1>2. Effect /\ Passed(tab, tab')  BY <1>1, RestEffect DEF TabInv, Well
<1>3. GateInv'  BY <1>1 DEF GateInv
<1>4. \A p \in Owners : own[p].step = "committing" => gate'.step # "open" /\ gate'.who = p
  BY <1>1 DEF OwnInv, OwnOf
<1> QED BY <1>1, <1>2, <1>3, <1>4, NobodyIs, GateKeeps DEF TypeInv

\* ... and every step keeps it.
LEMMA StepKeeps == IInv /\ [Next]_vars => IInv'
<1> SUFFICES ASSUME IInv, [Next]_vars PROVE IInv'  OBVIOUS
<1>1. CASE \E c \in Calls : CallStep(c)  BY <1>1, CallStepKeeps
<1>2. CASE \E o \in Owners : OwnerStep(o)
  <2> PICK o \in Owners : OwnerStep(o)  BY <1>2
  <2>1. CASE Begin(o) \/ BeginNowait(o)  BY <2>1, BeginKeeps
  <2>2. CASE Retry(o)  BY <2>2, RetryKeeps
  <2>3. CASE Answer(o)  BY <2>3, AnswerKeeps
  <2>4. CASE SendAppend(o) \/ Appended(o)  BY <2>4, AppendKeeps
  <2>5. CASE End(o) \/ Die(o)  BY <2>5, EndsKeeps
  <2>6. CASE LetGo(o)  BY <2>6, LetGoKeeps
  <2>7. CASE Upkeep(o)  BY <2>7, UpkeepsKeeps
  <2> QED BY <2>1, <2>2, <2>3, <2>4, <2>5, <2>6, <2>7 DEF OwnerStep
<1>3. CASE \E who \in Owners \cup {Nobody} : Close(who)  BY <1>3, CloseKeeps
<1>4. CASE PassGate  BY <1>4, PassGateKeeps
<1>5. CASE OpenGate  BY <1>5, OpenGateKeeps
<1>6. CASE Sweep  BY <1>6, UpkeepsKeeps
<1>7. CASE Tick  BY <1>7, TickKeeps
<1>8. CASE \E k \in Keys : SweepKey(k)  BY <1>8, UpkeepsKeeps
<1>9. CASE UNCHANGED vars  BY <1>9, StutterKeeps
<1> QED BY <1>1, <1>2, <1>3, <1>4, <1>5, <1>6, <1>7, <1>8, <1>9 DEF Next

\* The inductive invariant holds, whatever the requests, their retries, lost owners, lapsed leases,
\* sweeps and writers at the gate do, and in whichever order (locks.rs).
THEOREM Inductive == Spec => []IInv
BY InitHolds, StepKeeps, PTL DEF Spec

LEMMA CallsFinite == IsFiniteSet(Calls)
<1>1. IsFiniteSet(Owners) /\ IsFiniteSet(1 .. Tries)  BY OwnersAssumption, TriesAssumption, FS_Interval
<1> QED BY <1>1, FS_Product DEF Calls

\* No queue is longer than there are requests.
LEMMA QueueFits == ASSUME NEW q \in Seq(Calls), Distinct(q) PROVE q \in Queues
<1>1. IsFiniteSet(Calls) /\ Cardinality(Calls) \in Nat  BY CallsFinite, FS_CardinalityType
<1> DEFINE n == Len(q)
<1>2. n \in Nat /\ q \in [1 .. n -> Calls]  OBVIOUS
<1>3. IsFiniteSet(1 .. n) /\ Cardinality(1 .. n) = n  BY <1>2, FS_Interval, SMTT(60)
<1>4. q \in Injection(1 .. n, Calls)  BY <1>2 DEF Distinct, Injection, IsInjective
<1>5. n <= Cardinality(Calls)  BY <1>1, <1>3, <1>4, FS_Injection
<1> QED BY <1>1, <1>2, <1>5 DEF Queues

\* Every variable keeps its type: a queue holds each request at most once, so none is longer than
\* there are requests, and at most one writer closes a table.
THEOREM TypeCorrect == Spec => []TypeOK
<1>1. IInv => TypeOK
  <2> SUFFICES ASSUME IInv PROVE TypeOK  OBVIOUS
  <2>1. tab \in Table0 /\ \A k \in Keys : Distinct(tab.queue[k])  BY DEF IInv, TabInv, Well, Indexed
  <2>2. \A k \in Keys : tab.queue[k] \in Queues
    <3> TAKE k \in Keys
    <3>1. tab.queue[k] \in Seq(Calls) /\ Distinct(tab.queue[k])  BY <2>1 DEF Table0
    <3> QED BY <3>1, QueueFits
  <2>3. tab.queue \in [Keys -> Queues]  BY <2>1, <2>2 DEF Table0
  <2>4. tab \in Table  BY <2>1, <2>3 DEF Table0, Table
  <2> QED BY <2>4 DEF IInv, TypeInv, TypeOK
<1> QED BY <1>1, Inductive, PTL

\* The Table's three indexes never part: what an owner holds is what the locks say, its one place
\* is the one it stands in, and no key is free while somebody waits for it, so no grant is lost
\* (locks.rs, Table::release, unwait, settle).
THEOREM IndexesAgree == Spec => []Agrees
<1>1. IInv => Agrees
  BY DEF IInv, TabInv, Well, Indexed, Given, Agrees
<1> QED BY <1>1, Inductive, PTL

\* An owner whose lease never ran out holds every key it was told it holds, and one that let its
\* locks go holds and waits for nothing for a lease's time, whatever request of it comes late
\* (locks.rs, Table::ask: `is_ended`).
THEOREM KeptAsTold == Spec => []HeldAsTold
<1>1. IInv => HeldAsTold
  BY DEF IInv, TellInv, TellOf, EndInv, EndOf, HeldAsTold
<1> QED BY <1>1, Inductive, PTL

\* No step, of any kind, lets a place pass another.
LEMMA StepInTurn == ASSUME IInv, [Next]_vars PROVE InTurn(tab, tab')
<1> USE DEF IInv
<1>1. ASSUME NEW c \in Calls, CallStep(c) PROVE InTurn(tab, tab')
  BY <1>1, AskDoes, WaitDoes, ReceiveDoes, LookDoes, LeaveDoes, EnterDoes DEF CallStep, Effect
<1>2. ASSUME NEW o \in Owners, OwnerStep(o) PROVE InTurn(tab, tab')
  <2>1. CASE LetGo(o)  BY <2>1, LetGoDoes
  <2>2. CASE Upkeep(o)  BY <2>2, UpkeepDoes DEF Effect
  <2>3. CASE tab' = tab  BY <2>3, StaysPut
  <2> QED BY <1>2, <2>1, <2>2, <2>3
        DEF OwnerStep, Begin, BeginNowait, Retry, Answer, SendAppend, Appended, End, Die
<1>3. ASSUME NEW who \in Owners \cup {Nobody}, Close(who) PROVE InTurn(tab, tab')  BY <1>3, CloseDoes DEF Effect
<1>4. ASSUME NEW k \in Keys, SweepKey(k) PROVE InTurn(tab, tab')  BY <1>4, SweepKeyDoes DEF Effect
<1>5. OpenGate => InTurn(tab, tab')  BY OpenGateDoes DEF Effect
<1>6. Sweep => InTurn(tab, tab')  BY SweepDoes DEF Effect
<1>7. Tick => InTurn(tab, tab')  BY TickDoes
<1>8. PassGate \/ UNCHANGED vars => InTurn(tab, tab')  BY StaysPut DEF PassGate, vars
<1> QED BY <1>1, <1>2, <1>3, <1>4, <1>5, <1>6, <1>7, <1>8 DEF Next

\* First come, first served: no step, a sweep or a cancelled place included, grants a place behind
\* one that still stands, or puts one before it.
THEOREM FirstComeFirstServed == Spec => Fifo
<1> DEFINE A == \A k \in Keys : \A c, d \in Calls :
                    c # d /\ Behind(tab.queue[k], c, d) /\ Stands(tab'.queue[k], c) =>
                        /\ Behind(tab'.queue[k], c, d)
                        /\ Stands(tab.queue[k], d) /\ ~Stands(tab'.queue[k], d) => d \notin tab'.won
<1>1. IInv /\ [Next]_vars => A
  <2> SUFFICES ASSUME IInv, [Next]_vars, NEW k \in Keys, NEW c \in Calls, NEW d \in Calls,
                      c # d, Behind(tab.queue[k], c, d), Stands(tab'.queue[k], c)
               PROVE  /\ Behind(tab'.queue[k], c, d)
                      /\ Stands(tab.queue[k], d) /\ ~Stands(tab'.queue[k], d) => d \notin tab'.won
    OBVIOUS
  <2>1. Behind(tab'.queue[k], c, d) /\ (Stands(tab.queue[k], d) /\ d \in tab'.won => d \in tab.won)
    BY StepInTurn DEF InTurn
  <2>2. d \in tab.won => ~Stands(tab.queue[k], d)  BY DEF IInv, PlaceInv, PlaceOf
  <2> QED BY <2>1, <2>2
<1>2. IInv /\ [Next]_vars => [A]_vars  BY <1>1
<1>3. Spec => [][A]_vars  BY <1>2, Inductive, PTL DEF Spec
<1> QED BY <1>3 DEF Fifo

-----------------------------------------------------------------------------
(* Waits never form a loop, where no lease runs out though its owner is at  *)
(* work or waits here                                                       *)

\* NoLoop, of any Table.
NoLoopIn(t) == \A o \in Owners : o \notin Reached(t, WaitsFor(t, o))

\* Whoever waits does so under a lease that lasts.
OrderLive == \A o \in Owners : tab.waiting[o] # Nobody => Live(tab, o)

\* A set of owners that wait only for one another.
Closed(t, S) == \A p \in S : WaitsFor(t, p) \subseteq S

\* An owner is out of reach when a closed set has those it starts from, and not the owner.
LEMMA ReachedIs ==
    ASSUME NEW t, NEW from, NEW o \in Owners
    PROVE  o \notin Reached(t, from) <=> \E S \in SUBSET Owners : from \subseteq S /\ Closed(t, S) /\ o \notin S
BY DEF Reached, Closed

LEMMA WaitsOwners == ASSUME NEW t, Well(t), NEW o \in Owners PROVE WaitsFor(t, o) \subseteq Owners
<1>1. \A k \in Keys : Ahead(t, k, o) \subseteq Owners
  BY OwnerIn DEF Ahead, Well, Table0
<1> QED BY <1>1 DEF WaitsFor, Well, Table0

\* A step after which nobody waits for more makes no loop.
LEMMA ShrinksNoLoop ==
    ASSUME NEW t, NEW u, NoLoopIn(t), Shrinks(t, u)
    PROVE  NoLoopIn(u)
<1> SUFFICES ASSUME NEW o \in Owners PROVE o \notin Reached(u, WaitsFor(u, o))  BY DEF NoLoopIn
<1>1. CASE u.waiting[o] = Nobody
  <2>1. WaitsFor(u, o) \subseteq {} /\ Closed(u, {}) /\ o \notin {}  BY <1>1 DEF WaitsFor, Closed
  <2> QED BY <2>1, ReachedIs
<1>2. CASE u.waiting[o] # Nobody
  <2>1. o \notin Reached(t, WaitsFor(t, o))  BY DEF NoLoopIn
  <2> PICK S \in SUBSET Owners : WaitsFor(t, o) \subseteq S /\ Closed(t, S) /\ o \notin S  BY <2>1, ReachedIs
  <2> DEFINE Z == {p \in Owners : u.waiting[p] = Nobody}
  <2>2. S \cup Z \in SUBSET Owners /\ o \notin S \cup Z  BY <1>2
  <2>3. WaitsFor(u, o) \subseteq S \cup Z  BY DEF Shrinks
  <2>4. ASSUME NEW p \in S \cup Z PROVE WaitsFor(u, p) \subseteq S \cup Z
    <3>1. CASE p \in Z  BY <3>1 DEF WaitsFor
    <3>2. CASE p \in S
      <4>1. p \in Owners  BY <3>2
      <4>2. WaitsFor(u, p) \subseteq WaitsFor(t, p) \cup Z  BY <4>1 DEF Shrinks
      <4>3. WaitsFor(t, p) \subseteq S  BY <3>2 DEF Closed
      <4> QED BY <4>2, <4>3
    <3> QED BY <3>1, <3>2
  <2>5. Closed(u, S \cup Z)  BY <2>4 DEF Closed
  <2> DEFINE V == S \cup Z
  <2> HIDE DEF Z
  <2>6. V \in SUBSET Owners /\ WaitsFor(u, o) \subseteq V /\ Closed(u, V) /\ o \notin V  BY <2>2, <2>3, <2>5
  <2> HIDE DEF V
  <2> QED BY <2>6, ReachedIs
<1> QED BY <1>1, <1>2

\* One that comes to wait closes no loop if none of those before it waits for it.
LEMMA QueueNoLoop ==
    ASSUME NEW u, NEW v, NEW o \in Owners, NEW from, NoLoopIn(u), o \notin Reached(u, from),
           \A p \in Owners : p # o => WaitsFor(v, p) = WaitsFor(u, p), WaitsFor(v, o) = from
    PROVE  NoLoopIn(v)
<1> PICK S \in SUBSET Owners : from \subseteq S /\ Closed(u, S) /\ o \notin S  BY ReachedIs
<1>1. Closed(v, S)  BY DEF Closed
<1>2. o \notin Reached(v, WaitsFor(v, o))  BY <1>1, ReachedIs
<1>3. ASSUME NEW x \in Owners, x # o PROVE x \notin Reached(v, WaitsFor(v, x))
  <2>1. x \notin Reached(u, WaitsFor(u, x))  BY DEF NoLoopIn
  <2> PICK T \in SUBSET Owners : WaitsFor(u, x) \subseteq T /\ Closed(u, T) /\ x \notin T  BY <2>1, ReachedIs
  <2>2. WaitsFor(v, x) = WaitsFor(u, x)  BY <1>3
  <2>3. CASE o \notin T
    <3>1. Closed(v, T)  BY <2>3 DEF Closed
    <3> QED BY <3>1, <2>2, ReachedIs
  <2>4. CASE o \in T /\ x \in S
    <3> PICK V \in SUBSET Owners : V = T \cap S  OBVIOUS
    <3>1. WaitsFor(u, x) \subseteq V  BY <2>4 DEF Closed
    <3>2. \A p \in V : p # o /\ WaitsFor(u, p) \subseteq V  BY DEF Closed
    <3>3. Closed(v, V)  BY <3>2 DEF Closed
    <3> QED BY <3>1, <3>3, <2>2, ReachedIs
  <2>5. CASE o \in T /\ x \notin S
    <3> PICK V \in SUBSET Owners : V = T \cup S  OBVIOUS
    <3>1. \A p \in V : p # o => WaitsFor(u, p) \subseteq V  BY DEF Closed
    <3>2. Closed(v, V)  BY <3>1 DEF Closed
    <3> QED BY <3>2, <2>2, <2>5, ReachedIs
  <2> QED BY <2>3, <2>4, <2>5
<1>4. \A x \in Owners : x \notin Reached(v, WaitsFor(v, x))  BY <1>2, <1>3
<1> QED BY <1>4 DEF NoLoopIn

\* An ask makes none: the one that would is refused.
LEMMA AskNoLoop ==
    ASSUME TypeInv, TabInv, CallInv, PlaceInv, OrderLive, NoLoopIn(tab), NEW c \in Calls, Ask(c)
    PROVE  NoLoopIn(tab')
<1> PICK o \in Owners : o = OwnerOf(c)  BY OwnerIn
<1>0. call[c].step = "asking"  BY DEF Ask, At
<1> PICK k \in Keys : k = KeyOf(c) /\ k \in call[c].left  BY <1>0, KeyIs
<1> PICK t : t = Asked(tab, o, k)  OBVIOUS
<1> PICK u : u = Unwait(t, o)  OBVIOUS
<1> DEFINE from == Ahead(u, k, o)
<1>1. \/ IsEnded(tab, o) /\ tab' = tab
      \/ ~IsEnded(tab, o) /\ Free(t, o, k) /\ tab' = (IF t.holder[k] = o THEN t ELSE Grant(t, o, k))
      \/ ~IsEnded(tab, o) /\ ~Free(t, o, k) /\ tab' = u
      \/ ~IsEnded(tab, o) /\ ~Free(t, o, k) /\ tab' = Queue(u, c, k) /\ o \notin Reached(u, from)
  BY DEF Ask, Loops
<1>w. Well(tab) /\ \A j \in Keys : Given(tab, j)  BY DEF TabInv
<1>2. CASE IsEnded(tab, o) /\ tab' = tab  BY <1>2
<1>3. CASE ~IsEnded(tab, o)
  <2>1. /\ Well(t) /\ \A j \in Keys : Given(t, j)
        /\ t.leases[o] = Lease /\ ~Lapsed(t, k)
        /\ Shrinks(tab, t)
    BY <1>3, <1>w, AskedIs DEF OrderLive
  <2>2. /\ Well(u) /\ Moves(t, u) /\ Shrinks(t, u)
        /\ u.waiting[o] = Nobody
    BY <2>1, UnwaitWell
  <2>3. NoLoopIn(t) /\ NoLoopIn(u)  BY <2>1, <2>2, ShrinksNoLoop
  <2>4. CASE t.holder[k] = Nobody /\ tab' = Grant(t, o, k)
    <3>1. Given(t, k) /\ t.holder[k] = Nobody /\ Well(t)  BY <2>1, <2>4
    <3> DEFINE g == Grant(t, o, k)
    <3>2. /\ \A j \in Keys : g.holder[j] = IF j = k THEN o ELSE t.holder[j]
          /\ \A p \in Owners : g.leases[p] = IF p = o THEN Lease ELSE t.leases[p]
          /\ g.queue = t.queue /\ g.waiting = t.waiting
          /\ \A p \in Owners : t.waiting[p] # Nobody => t.waiting[p][1] # k
      <4>1. /\ Well(g)
            /\ \A j \in Keys : g.holder[j] = IF j = k THEN o ELSE t.holder[j]
            /\ \A p \in Owners : g.leases[p] = IF p = o THEN Lease ELSE t.leases[p]
            /\ \A p \in Owners : g.held[p] = IF p = o THEN t.held[o] \cup {k} ELSE t.held[p]
            /\ g.queue = t.queue /\ g.waiting = t.waiting /\ g.won = t.won
            /\ g.ended = t.ended /\ g.flying = t.flying /\ g.closed = t.closed /\ g.swept = t.swept
            /\ \A j \in Keys : Given(t, j) => Given(g, j)
            /\ \A p \in Owners : t.waiting[p] # Nobody => t.waiting[p][1] # k
        BY <3>1, GrantIs, SMTT(60)
      <4> QED BY <4>1
    <3> HIDE DEF g
    <3>3. \A p \in Owners : g.leases[p] = t.leases[p]  BY <2>1, <3>2
    <3>4. ASSUME NEW p \in Owners PROVE WaitsFor(g, p) \subseteq WaitsFor(t, p)
      <4>1. CASE t.waiting[p] = Nobody  BY <4>1, <3>2 DEF WaitsFor
      <4>2. CASE t.waiting[p] # Nobody
        <5> PICK j \in Keys : j = t.waiting[p][1]  BY <4>2, <2>1 DEF Well, Table0
        <5>1. j # k  BY <4>2, <3>2
        <5>2. g.holder[j] = t.holder[j] /\ g.queue[j] = t.queue[j]  BY <5>1, <3>2
        <5>3. Ahead(g, j, p) = Ahead(t, j, p)  BY <5>2, <3>3, AheadSame
        <5> QED BY <5>3, <4>2, <3>2 DEF WaitsFor
      <4> QED BY <4>1, <4>2
    <3>5. Shrinks(t, g)  BY <3>4 DEF Shrinks
    <3> QED BY <3>5, <2>3, <2>4, ShrinksNoLoop DEF g
  <2>5. CASE ~Free(t, o, k) /\ tab' = Queue(u, c, k) /\ o \notin Reached(u, from)
    <3>1. t.holder[k] \notin {o, Nobody}  BY <2>5 DEF Free
    <3>2. u.holder[k] \notin {o, Nobody}  BY <2>1, <2>2, <3>1, HolderStays
    <3> DEFINE v == Queue(u, c, k)
    <3>q. /\ \A p \in Owners : p # OwnerOf(c) => WaitsFor(v, p) = WaitsFor(u, p)
          /\ WaitsFor(v, OwnerOf(c)) = Ahead(u, k, OwnerOf(c))
      <4>1. Well(u) /\ u.waiting[OwnerOf(c)] = Nobody /\ u.holder[k] \notin {OwnerOf(c), Nobody}  BY <2>2, <3>2
      <4> HIDE DEF from
      <4>2. /\ Well(v)
            /\ v.waiting = [u.waiting EXCEPT ![OwnerOf(c)] = <<k, c>>]
            /\ v.holder = u.holder /\ v.held = u.held /\ v.leases = u.leases /\ v.won = u.won
            /\ v.ended = u.ended /\ v.flying = u.flying /\ v.closed = u.closed /\ v.swept = u.swept
            /\ \A j \in Keys : Given(u, j) => Given(v, j)
            /\ \A j \in Keys : \A d : Stands(v.queue[j], d) <=> Stands(u.queue[j], d) \/ (j = k /\ d = c)
            /\ \A j \in Keys : \A d, e : Behind(u.queue[j], d, e) => Behind(v.queue[j], d, e)
            /\ \A p \in Owners : p # OwnerOf(c) => WaitsFor(v, p) = WaitsFor(u, p)
            /\ WaitsFor(v, OwnerOf(c)) = Ahead(u, k, OwnerOf(c))
        BY <4>1, QueueIs, SMTT(60)
      <4> QED BY <4>2
    <3>3. /\ \A p \in Owners : p # o => WaitsFor(v, p) = WaitsFor(u, p)
          /\ WaitsFor(v, o) = from
      BY <3>q
    <3> HIDE DEF v
    <3>4. NoLoopIn(v)  BY <3>3, <2>3, <2>5, QueueNoLoop
    <3> QED BY <3>4, <2>5 DEF v
  <2> QED BY <1>1, <1>3, <2>3, <2>4, <2>5 DEF Free
<1> QED BY <1>1, <1>2, <1>3

\* No step makes one, where whoever waits has a lease that lasts ...
LEMMA StepNoLoop == ASSUME IInv, OrderLive, NoLoopIn(tab), [Next]_vars PROVE NoLoopIn(tab')
<1> USE DEF IInv
<1>l. \A p \in Owners : tab.waiting[p] # Nobody => Live(tab, p)  BY DEF OrderLive
<1>r. ASSUME Rest, tab'.leases = tab.leases PROVE Shrinks(tab, tab')
  BY <1>r, RestShrinks DEF Live
<1>1. ASSUME NEW c \in Calls, CallStep(c) PROVE NoLoopIn(tab')
  <2>1. CASE Ask(c)  BY <2>1, AskNoLoop
  <2>2. CASE Wait(c)  BY <2>2, WaitDoes, ShrinksNoLoop
  <2>3. CASE Receive(c)  BY <2>3, ReceiveDoes, ShrinksNoLoop
  <2>4. CASE Look(c)  BY <2>4, <1>l, LookDoes, ShrinksNoLoop
  <2>5. CASE PlaceGone(c) \/ DontWait(c) \/ GiveUp(c)  BY <2>5, <1>l, LeaveDoes, ShrinksNoLoop
  <2>6. CASE Enter(c)  BY <2>6, <1>l, EnterDoes, ShrinksNoLoop
  <2> QED BY <1>1, <2>1, <2>2, <2>3, <2>4, <2>5, <2>6 DEF CallStep
<1>2. ASSUME NEW o \in Owners, OwnerStep(o) PROVE NoLoopIn(tab')
  <2>1. CASE LetGo(o)  BY <2>1, LetGoDoes, ShrinksNoLoop
  <2>2. CASE Upkeep(o)  BY <2>2, <1>l, UpkeepDoes, ShrinksNoLoop
  <2>3. CASE tab' = tab  BY <2>3
  <2> QED BY <1>2, <2>1, <2>2, <2>3
        DEF OwnerStep, Begin, BeginNowait, Retry, Answer, SendAppend, Appended, End, Die
<1>3. ASSUME NEW who \in Owners \cup {Nobody}, Close(who) PROVE NoLoopIn(tab')
  BY <1>3, <1>r, CloseDoes, ShrinksNoLoop
<1>4. ASSUME NEW k \in Keys, SweepKey(k) PROVE NoLoopIn(tab')  BY <1>4, SweepKeyDoes, ShrinksNoLoop
<1>5. OpenGate => NoLoopIn(tab')  BY <1>r, OpenGateDoes, ShrinksNoLoop
<1>6. Sweep => NoLoopIn(tab')  BY SweepDoes, ShrinksNoLoop
<1>7. Tick => NoLoopIn(tab')  BY TickDoes, ShrinksNoLoop
<1>8. PassGate \/ UNCHANGED vars => NoLoopIn(tab')  BY DEF PassGate, vars
<1> QED BY <1>1, <1>2, <1>3, <1>4, <1>5, <1>6, <1>7, <1>8 DEF Next

\* What a step does to an owner's lease and place.
LEMMA StepTurned ==
    ASSUME IInv, [Next]_vars, NEW p \in Owners
    PROVE  Turned(tab, tab', p) \/ (LetGo(p) /\ tab'.waiting[p] = Nobody) \/ Tick
<1> USE DEF IInv
<1>1. ASSUME NEW c \in Calls, CallStep(c) PROVE Turned(tab, tab', p)
  BY <1>1, AskDoes, WaitDoes, ReceiveDoes, LookDoes, LeaveDoes, EnterDoes DEF CallStep, Effect
<1>2. ASSUME NEW o \in Owners, OwnerStep(o) PROVE Turned(tab, tab', p) \/ (LetGo(p) /\ tab'.waiting[p] = Nobody)
  <2>1. CASE LetGo(o)  BY <2>1, LetGoDoes
  <2>2. CASE Upkeep(o)  BY <2>2, UpkeepDoes DEF Effect
  <2>3. CASE tab' = tab  BY <2>3, SameTurned
  <2> QED BY <1>2, <2>1, <2>2, <2>3
        DEF OwnerStep, Begin, BeginNowait, Retry, Answer, SendAppend, Appended, End, Die
<1>3. ASSUME NEW who \in Owners \cup {Nobody}, Close(who) PROVE Turned(tab, tab', p)  BY <1>3, CloseDoes DEF Effect
<1>4. ASSUME NEW k \in Keys, SweepKey(k) PROVE Turned(tab, tab', p)  BY <1>4, SweepKeyDoes DEF Effect
<1>5. OpenGate => Turned(tab, tab', p)  BY OpenGateDoes DEF Effect
<1>6. Sweep => Turned(tab, tab', p)  BY SweepDoes DEF Effect
<1>8. PassGate \/ UNCHANGED vars => Turned(tab, tab', p)  BY SameTurned DEF PassGate, vars
<1> QED BY <1>1, <1>2, <1>3, <1>4, <1>5, <1>6, <1>8 DEF Next

\* ... as they all have unless one is stalled.
LEMMA StepOrderLive == ASSUME ~Stalls, IInv, OrderLive, [Next]_vars PROVE OrderLive'
<1> SUFFICES ASSUME NEW p \in Owners, tab'.waiting[p] # Nobody PROVE Live(tab', p)
  BY DEF OrderLive, Live
<1>1. CASE Turned(tab, tab', p)
  BY <1>1, LeaseIs DEF Turned, Live, OrderLive
<1>2. CASE Tick
  <2>1. /\ Rest /\ \A o \in Owners : tab'.leases[o] = Less(tab.leases[o])
        /\ \A o \in Owners : Attended(o) => tab.leases[o] # 1
    BY <1>2, TickDoes DEF IInv
  <2>2. tab.waiting[p] # Nobody  BY <2>1 DEF Rest
  <2>3. Attended(p)
    <3> PICK k \in Keys, c \in Calls : tab.waiting[p] = <<k, c>>  BY <2>2 DEF IInv, TabInv, Well, Table0
    <3>1. OwnerOf(c) = p /\ call[c].step \in {"queued", "waiting"}
      BY DEF IInv, TabInv, Well, Indexed, PlaceInv, PlaceOf
    <3>2. c = <<p, c[2]>> /\ c[2] \in 1 .. Tries  BY <3>1 DEF Calls, OwnerOf
    <3>3. call[<<p, c[2]>>].step \in {"queued", "waiting", "entering"}  BY <3>1, <3>2
    <3> QED BY <3>2, <3>3 DEF Attended
  <2> PICK n \in Nat : n = tab.leases[p]  BY DEF IInv, TabInv, Well, Table0, Left
  <2>4. n # 1 /\ n > 0  BY <2>1, <2>2, <2>3 DEF OrderLive, Live
  <2>5. Less(n) > 0  BY <2>4 DEF Less
  <2> QED BY <2>1, <2>5 DEF Live
<1> QED BY <1>1, <1>2, StepTurned

\* Waits never form a loop, so no wait goes on for another of its own (locks.rs, Table::loops), where
\* no lease runs out though its owner is at work or waits here.
THEOREM NeverALoop == ~Stalls => (Spec => []NoLoop)
<1> SUFFICES ASSUME ~Stalls PROVE Spec => []NoLoop  OBVIOUS
<1> DEFINE I == IInv /\ OrderLive /\ NoLoopIn(tab)
<1>1. Init => I
  <2> SUFFICES ASSUME Init PROVE I  OBVIOUS
  <2>1. \A o \in Owners : tab.waiting[o] = Nobody  BY DEF Init
  <2>2. OrderLive  BY <2>1 DEF OrderLive
  <2>3. NoLoopIn(tab)
    <3> SUFFICES ASSUME NEW o \in Owners PROVE o \notin Reached(tab, WaitsFor(tab, o))  BY DEF NoLoopIn
    <3>1. WaitsFor(tab, o) \subseteq {} /\ Closed(tab, {}) /\ o \notin {}  BY <2>1 DEF WaitsFor, Closed
    <3> QED BY <3>1, ReachedIs
  <2> QED BY <2>2, <2>3, InitHolds
<1>2. I /\ [Next]_vars => I'
  <2> SUFFICES ASSUME I, [Next]_vars PROVE I'  OBVIOUS
  <2>1. NoLoopIn(tab')  BY StepNoLoop
  <2>2. (NoLoopIn(tab))'  BY <2>1 DEF NoLoopIn, Reached, WaitsFor, Ahead, Live
  <2> QED BY <2>2, StepKeeps, StepOrderLive
<1>3. I => NoLoop  BY DEF NoLoopIn, NoLoop
<1> QED BY <1>1, <1>2, <1>3, PTL DEF Spec

-----------------------------------------------------------------------------
(* The gate, where autocommitted writes run next to the Table               *)

\* A write that may append is flying, if its lease never ran out ...
FlyOf(o) ==
    own[o].sure =>
        /\ own[o].step \in {"open", "appending", "lost"} => o \in tab.flying[TableOf[o]]
        /\ own[o].step = "taking" /\ call[Last(o)].step = "granted" => o \in tab.flying[TableOf[o]]

\* ... and none is where a writer has passed the gate.
InsideOf(o) ==
    gate.step = "inside" /\ TableOf[o] \in gate.tables /\ own[o].sure /\ Asks(o) => o \notin tab.flying[TableOf[o]]

FlyInv == \A o \in Autos : FlyOf(o) /\ InsideOf(o)

\* What a request's step does to whether a write may append, and flies.
FlyMoves(o) ==
    /\ own'[o] = own[o]
    /\ own[o].step = "taking" /\ call'[Last(o)].step = "granted" =>
           call[Last(o)].step = "granted" \/ o \in tab'.flying[TableOf[o]]
    /\ o \in tab.flying[TableOf[o]] => o \in tab'.flying[TableOf[o]] \/ ~own[o].sure
                                       \/ (own[o].step = "taking" /\ call'[Last(o)].step # "granted")
                                       \/ own[o].step \notin {"taking", "open", "appending", "lost"}

LEMMA FlyKept ==
    ASSUME FlyInv, NEW o \in Autos, FlyMoves(o)
    PROVE  FlyOf(o)'
BY DEF FlyInv, FlyOf, FlyMoves, Last

LEMMA InsideKept ==
    ASSUME FlyInv, NEW o \in Autos, own'[o].sure /\ Asks(o)' => own[o].sure /\ Asks(o), gate' = gate,
           TableOf[o] \in gate.tables /\ o \in tab'.flying[TableOf[o]] => o \in tab.flying[TableOf[o]]
    PROVE  InsideOf(o)'
BY DEF FlyInv, InsideOf

LEMMA AutoIs == ASSUME NEW o \in Autos PROVE o \in Owners /\ TableOf[o] \in Tables
BY OwnersAssumption, TablesAssumption

\* The call a write next to the Table has, if it has one, is the one it listens to.
LEMMA OwnCall ==
    ASSUME CallInv, NEW o \in Owners, o \notin Remote, NEW c \in Calls, OwnerOf(c) = o, call[c].step # "unused"
    PROVE  own[o].step = "taking" /\ Last(o) = c
<1>1. c = <<c[1], c[2]>>  BY DEF Calls
<1> QED BY <1>1 DEF CallInv, CallOf, Heard, Last, OwnerOf

\* A request's steps, an owner's, the gate's and the others' keep appends out of a closed table.
LEMMA CallStepFly ==
    ASSUME IInv, FlyInv, Autos \cap Remote = {}, NEW c \in Calls, CallStep(c)
    PROVE  FlyInv'
<1> USE DEF IInv
<1> SUFFICES ASSUME NEW o \in Autos PROVE FlyOf(o)' /\ InsideOf(o)'  BY DEF FlyInv
<1>a. o \in Owners /\ TableOf[o] \in Tables /\ o \notin Remote  BY AutoIs
<1>s. UNCHANGED <<sweeping, own, gate>>
  BY DEF CallStep, Ask, Wait, DontWait, Receive, PlaceGone, Look, GiveUp, Enter
<1>l. own[o].step = "taking" => Last(o) \in Calls /\ OwnerOf(Last(o)) = o  BY <1>a, LastIs
<1>1. ASSUME tab'.flying = tab.flying, \A d \in Calls : d # c => call'[d] = call[d],
             OwnerOf(c) = o => call'[c].step # "granted"
      PROVE  FlyOf(o)' /\ InsideOf(o)'
  <2>1. FlyMoves(o)  BY <1>1, <1>s, <1>l DEF FlyMoves
  <2>2. InsideOf(o)'  BY <1>1, <1>s, InsideKept DEF Asks
  <2> QED BY <2>1, <2>2, FlyKept
<1>2. CASE Ask(c)
  <2> PICK k \in Keys : k = KeyOf(c)
    <3>1. call[c].step = "asking"  BY <1>2 DEF Ask, At
    <3> QED BY <3>1, KeyIs
  <2>1. SameRest /\ (Over(c, "refused") \/ Has(c, k) \/ call' = [call EXCEPT ![c].step = "queued"])  BY <1>2, AskDoes
  <2>2. CASE Over(c, "refused")  BY <2>1, <2>2, <1>1, OverIs DEF SameRest
  <2>3. CASE Has(c, k)  BY <2>1, <2>3, <1>1, HasIs DEF SameRest
  <2>4. CASE call' = [call EXCEPT ![c].step = "queued"]
    <3>1. /\ \A d \in Calls : d # c => call'[d] = call[d]
          /\ call'[c].step = "queued"
      BY <2>4 DEF TypeInv, Call
    <3> QED BY <3>1, <2>1, <1>1 DEF SameRest
  <2> QED BY <2>1, <2>2, <2>3, <2>4
<1>3. CASE Receive(c)
  <2>1. SameRest /\ call[c].step = "waiting" /\ Has(c, KeyOf(c))  BY <1>3, ReceiveDoes
  <2> PICK k \in Keys : k = KeyOf(c)  BY <2>1, KeyIs
  <2> QED BY <2>1, <1>1, HasIs DEF SameRest
<1>4. CASE Look(c)
  <2>1. SameRest /\ call[c].step = "waiting" /\ (call' = call \/ Has(c, KeyOf(c)))  BY <1>4, LookDoes
  <2> PICK k \in Keys : k = KeyOf(c)  BY <2>1, KeyIs
  <2>2. CASE call' = call  BY <2>1, <2>2, <1>1 DEF SameRest
  <2>3. CASE Has(c, k)  BY <2>1, <2>3, <1>1, HasIs DEF SameRest
  <2> QED BY <2>1, <2>2, <2>3
<1>5. CASE PlaceGone(c) \/ DontWait(c) \/ GiveUp(c)  BY <1>5, <1>1, LeaveDoes, OverIs DEF SameRest
<1>6. CASE Wait(c)
  <2>1. /\ \A x \in Tables : tab'.flying[x] \subseteq tab.flying[x]
        /\ \A x \in Tables, p \in Owners : p \in tab.flying[x] /\ p # OwnerOf(c) => p \in tab'.flying[x]
        /\ call[c].step = "queued" /\ call' = [call EXCEPT ![c].step = "waiting"]
    BY <1>6, WaitDoes
  <2>2. /\ \A d \in Calls : d # c => call'[d] = call[d]
        /\ call'[c].step = "waiting"
    BY <2>1 DEF TypeInv, Call
  <2>3. FlyMoves(o)
    <3>1. CASE OwnerOf(c) = o
      <4>1. own[o].step = "taking" /\ Last(o) = c  BY <2>1, <3>1, <1>a, OwnCall
      <4> QED BY <4>1, <2>2, <1>s DEF FlyMoves
    <3>2. CASE OwnerOf(c) # o  BY <3>2, <2>1, <2>2, <1>a, <1>l, <1>s DEF FlyMoves
    <3> QED BY <3>1, <3>2
  <2>4. InsideOf(o)'  BY <2>1, <1>a, <1>s, InsideKept DEF Asks
  <2> QED BY <2>3, <2>4, FlyKept
<1>7. CASE Enter(c)
  <2> PICK p \in Owners : p = OwnerOf(c)  BY OwnerIn
  <2>1. /\ p \in Autos /\ tab'.closed = tab.closed
        /\ \/ call' = call /\ tab'.flying = tab.flying
           \/ /\ MayEnter(tab, p, TableOf[p]) /\ Over(c, "granted")
              /\ \A x \in Tables : tab'.flying[x] = IF x = TableOf[p] THEN tab.flying[x] \cup {p} ELSE tab.flying[x]
    BY <1>7, EnterDoes
  <2>2. CASE call' = call /\ tab'.flying = tab.flying
    <3>1. FlyMoves(o)  BY <2>2, <1>s DEF FlyMoves
    <3>2. InsideOf(o)'  BY <2>2, <1>s, InsideKept DEF Asks
    <3> QED BY <3>1, <3>2, FlyKept
  <2>3. CASE /\ MayEnter(tab, p, TableOf[p]) /\ Over(c, "granted")
             /\ \A x \in Tables : tab'.flying[x] = IF x = TableOf[p] THEN tab.flying[x] \cup {p} ELSE tab.flying[x]
    <3>1. \A d \in Calls : d # c => call'[d] = call[d]  BY <2>3, OverIs
    <3>2. p = o => o \in tab'.flying[TableOf[o]]  BY <2>3, <1>a
    <3>3. o \in tab.flying[TableOf[o]] => o \in tab'.flying[TableOf[o]]  BY <2>3, <1>a
    <3>4. FlyMoves(o)  BY <3>1, <3>2, <3>3, <1>l, <1>s DEF FlyMoves
    <3>5. ASSUME TableOf[o] \in gate.tables, o \in tab'.flying[TableOf[o]] PROVE o \in tab.flying[TableOf[o]]
      <4>1. tab.closed[TableOf[o]] # 0  BY <3>5, <1>a DEF GateInv
      <4> QED BY <4>1, <3>5, <2>3, <1>a DEF MayEnter
    <3>6. InsideOf(o)'  BY <3>5, <1>s, InsideKept DEF Asks
    <3> QED BY <3>4, <3>6, FlyKept
  <2> QED BY <2>1, <2>2, <2>3
<1> QED BY <1>2, <1>3, <1>4, <1>5, <1>6, <1>7 DEF CallStep

LEMMA OwnerStepFly ==
    ASSUME IInv, FlyInv, Autos \cap Remote = {}, NEW p \in Owners, OwnerStep(p)
    PROVE  FlyInv'
<1> USE DEF IInv
<1> SUFFICES ASSUME NEW o \in Autos PROVE FlyOf(o)' /\ InsideOf(o)'  BY DEF FlyInv
<1>a. o \in Owners /\ TableOf[o] \in Tables /\ o \notin Remote  BY AutoIs
<1>l. own[o].step = "taking" => Last(o) \in Calls /\ OwnerOf(Last(o)) = o  BY <1>a, LastIs
<1>g. gate' = gate
  BY DEF OwnerStep, Begin, BeginNowait, Retry, Answer, SendAppend, Appended, End, Die, LetGo, Upkeep
<1>1. ASSUME own'[o] = own[o], tab'.flying = tab.flying, own[o].step = "taking" => call'[Last(o)] = call[Last(o)]
      PROVE  FlyOf(o)' /\ InsideOf(o)'
  <2>1. FlyMoves(o)  BY <1>1 DEF FlyMoves
  <2>2. InsideOf(o)'  BY <1>1, <1>g, InsideKept DEF Asks
  <2> QED BY <2>1, <2>2, FlyKept
<1>2. CASE LetGo(p)
  <2>1. /\ \A x \in Tables : tab'.flying[x] = tab.flying[x] \ {p}
        /\ own' = [own EXCEPT ![p] = Done(p, "over")] /\ call' = call
    BY <1>2, LetGoDoes
  <2>2. CASE p = o
    <3>1. own'[o].step = "over"  BY <2>1, <2>2, DoneIs
    <3> QED BY <3>1 DEF FlyOf, InsideOf, Asks
  <2>3. CASE p # o
    <3>1. own'[o] = own[o]  BY <2>1, <2>3, <1>a, DoneIs
    <3>2. FlyMoves(o)  BY <3>1, <2>1, <2>3, <1>a DEF FlyMoves
    <3>3. InsideOf(o)'  BY <3>1, <2>1, <1>a, <1>g, InsideKept DEF Asks
    <3> QED BY <3>2, <3>3, FlyKept
  <2> QED BY <2>2, <2>3
<1>3. CASE Upkeep(p)
  <2>1. SameRest /\ own' = own /\ call' = call  BY <1>3, UpkeepDoes DEF Upkeep
  <2> QED BY <2>1, <1>1 DEF SameRest
<1>4. CASE End(p) \/ Die(p)
  <2>1. PICK s \in {"ending", "dead"} : own' = [own EXCEPT ![p] = Done(p, s)]  BY <1>4 DEF End, Die
  <2>2. tab' = tab /\ call' = call  BY <1>4 DEF End, Die
  <2>3. CASE p = o
    <3>1. own'[o].step \in {"ending", "dead"}  BY <2>1, <2>3, DoneIs
    <3> QED BY <3>1 DEF FlyOf, InsideOf, Asks
  <2>4. CASE p # o
    <3>1. own'[o] = own[o]  BY <2>1, <2>4, <1>a, DoneIs
    <3> QED BY <3>1, <2>2, <1>1
  <2> QED BY <2>3, <2>4
<1>5. CASE SendAppend(p) \/ Appended(p)
  <2>1. \/ own[p].step \in {"open", "appending"} /\ (own' = [own EXCEPT ![p].step = "appending"] \/ own' = [own EXCEPT ![p].step = "lost"])
        \/ own' = [own EXCEPT ![p] = Done(p, "ending")]
    BY <1>5 DEF SendAppend, Appended
  <2>2. tab' = tab /\ call' = call  BY <1>5 DEF SendAppend, Appended
  <2>3. CASE own' = [own EXCEPT ![p] = Done(p, "ending")]
    <3>1. CASE p = o
      <4>1. own'[o].step = "ending"  BY <2>3, <3>1, DoneIs
      <4> QED BY <4>1 DEF FlyOf, InsideOf, Asks
    <3>2. CASE p # o
      <4>1. own'[o] = own[o]  BY <2>3, <3>2, <1>a, DoneIs
      <4> QED BY <4>1, <2>2, <1>1
    <3> QED BY <3>1, <3>2
  <2>4. CASE own[p].step \in {"open", "appending"} /\ (own' = [own EXCEPT ![p].step = "appending"] \/ own' = [own EXCEPT ![p].step = "lost"])
    <3>1. /\ \A q \in Owners : q # p => own'[q] = own[q]
          /\ own'[p].step \in {"appending", "lost"} /\ own'[p].sure = own[p].sure
      BY <2>4, StepIs
    <3>2. CASE p # o  BY <3>1, <3>2, <2>2, <1>a, <1>1
    <3>3. CASE p = o
      <4>1. FlyOf(o)'  BY <3>1, <3>3, <2>2, <2>4 DEF FlyOf, FlyInv
      <4>2. Asks(o)  BY <2>4, <3>3 DEF Asks
      <4>3. InsideOf(o)'  BY <4>2, <3>1, <3>3, <2>2, <1>g, InsideKept
      <4> QED BY <4>1, <4>3
    <3> QED BY <3>2, <3>3
  <2> QED BY <2>1, <2>3, <2>4
<1>6. CASE Answer(p)
  <2>1. /\ tab' = tab /\ own[p].step = "taking"
        /\ call' = [call EXCEPT ![Last(p)] = NewCall]
        /\ \A q \in Owners : q # p => own'[q] = own[q]
        /\ \/ own'[p].step = "ending"
           \/ own'[p].step = "open" /\ own'[p].sure = own[p].sure /\ p \notin Autos
           \/ own'[p].step = "open" /\ own'[p].sure = own[p].sure /\ call[Last(p)].step = "granted"
    BY <1>6, AnswerIs
  <2>2. CASE p = o
    <3>1. CASE own'[o].step = "ending"  BY <3>1 DEF FlyOf, InsideOf, Asks
    <3>2. CASE own'[o].step = "open" /\ own'[o].sure = own[o].sure /\ call[Last(o)].step = "granted"
      <4>1. FlyOf(o)'  BY <2>1, <2>2, <3>2 DEF FlyOf, FlyInv
      <4>2. Asks(o)  BY <2>1, <2>2 DEF Asks
      <4>3. InsideOf(o)'  BY <4>2, <2>1, <3>2, <1>g, InsideKept
      <4> QED BY <4>1, <4>3
    <3> QED BY <2>1, <2>2, <3>1, <3>2
  <2>3. CASE p # o
    <3>1. own[o].step = "taking" => call'[Last(o)] = call[Last(o)]
      <4> SUFFICES ASSUME own[o].step = "taking" PROVE call'[Last(o)] = call[Last(o)]  OBVIOUS
      <4> PICK d \in Calls : d = Last(o) /\ OwnerOf(d) = o  BY <1>l
      <4> PICK e \in Calls : e = Last(p) /\ OwnerOf(e) = p  BY <2>1, LastIs
      <4>1. d # e  BY <2>3
      <4> QED BY <4>1, <2>1 DEF TypeInv
    <3> QED BY <3>1, <2>1, <2>3, <1>a, <1>1
  <2> QED BY <2>2, <2>3
<1>7. CASE Begin(p) \/ BeginNowait(p) \/ Retry(p)
  <2> DEFINE c == <<p, own[p].last + 1>>
  <2>1. PICK n \in [step : {"asking", "refused"}, keys : SUBSET Keys, left : SUBSET Keys, nowait : BOOLEAN] :
            call' = [call EXCEPT ![c] = n]
    <3> DEFINE Sends == [step : {"asking", "refused"}, keys : SUBSET Keys, left : SUBSET Keys, nowait : BOOLEAN]
    <3>1. CASE Begin(p)
      <4>1. PICK keys \in (SUBSET Keys) \ {{}} : Send(p, keys, FALSE)  BY <3>1 DEF Begin
      <4> DEFINE n == [step |-> "asking", keys |-> keys, left |-> keys, nowait |-> FALSE]
      <4>2. call' = [call EXCEPT ![c] = n]  BY <4>1 DEF Send
      <4>3. n \in Sends  OBVIOUS
      <4> HIDE DEF n
      <4> QED BY <4>2, <4>3
    <3>2. CASE BeginNowait(p)
      <4>1. PICK keys \in (SUBSET Keys) \ {{}}, s \in {"asking", "refused"} :
                call' = [call EXCEPT ![c] = [step |-> s, keys |-> keys, left |-> keys, nowait |-> TRUE]]
        BY <3>2 DEF BeginNowait, Send
      <4> DEFINE n == [step |-> s, keys |-> keys, left |-> keys, nowait |-> TRUE]
      <4>2. call' = [call EXCEPT ![c] = n]  BY <4>1
      <4>3. n \in Sends  OBVIOUS
      <4> HIDE DEF n
      <4> QED BY <4>2, <4>3
    <3>3. CASE Retry(p)
      <4> DEFINE keys == call[Last(p)].keys
      <4> DEFINE n == [step |-> "asking", keys |-> keys, left |-> keys, nowait |-> FALSE]
      <4>1. call' = [call EXCEPT ![c] = n]  BY <3>3 DEF Retry, Send, Last
      <4>2. own[p].step = "taking"  BY <3>3 DEF Retry
      <4> PICK d \in Calls : d = Last(p) /\ OwnerOf(d) = p  BY <4>2, LastIs
      <4>3. keys \in SUBSET Keys  BY DEF TypeInv, Call
      <4> HIDE DEF keys
      <4>4. n \in Sends  BY <4>3
      <4> HIDE DEF n
      <4> QED BY <4>1, <4>4
    <3> QED BY <1>7, <3>1, <3>2, <3>3
  <2>2. /\ own[p].last < Tries /\ own[p].step \in {"idle", "open", "taking"} /\ tab' = tab
        /\ own[p].step = "taking" => p \in Remote
        /\ own' = [own EXCEPT ![p].step = "taking", ![p].last = @ + 1, ![p].limit = IF p \in Remote THEN Lease ELSE 0]
    BY <1>7 DEF Begin, BeginNowait, Retry, Send
  <2>3. c \in Calls  BY <2>2, NextCall
  <2>4. own[p] \in Owner  BY DEF TypeInv
  <2>5. /\ \A q \in Owners : q # p => own'[q] = own[q]
        /\ own'[p].step = "taking" /\ own'[p].last = own[p].last + 1 /\ own'[p].sure = own[p].sure
    BY <2>2, <2>4 DEF TypeInv, Owner
  <2>6. CASE p = o
    <3>1. call'[Last(o)'].step # "granted"
      <4>1. Last(o)' = c  BY <2>5, <2>6 DEF Last
      <4>2. call'[c] = n  BY <2>1, <2>3 DEF TypeInv
      <4> QED BY <4>1, <4>2, <2>1
    <3>2. FlyOf(o)'  BY <3>1, <2>5, <2>6 DEF FlyOf
    <3>3. CASE own[o].step = "idle"
      <4>1. o \notin tab'.flying[TableOf[o]]  BY <3>3, <2>2, <1>a DEF OwnInv, OwnOf
      <4> QED BY <3>2, <4>1 DEF InsideOf
    <3>4. CASE own[o].step = "open"
      <4>1. Asks(o)  BY <3>4 DEF Asks
      <4>2. InsideOf(o)'  BY <4>1, <2>2, <2>5, <2>6, <1>g, InsideKept
      <4> QED BY <3>2, <4>2
    <3> QED BY <2>2, <2>6, <3>3, <3>4, <1>a
  <2>7. CASE p # o
    <3>1. own[o].step = "taking" => call'[Last(o)] = call[Last(o)]
      <4> SUFFICES ASSUME own[o].step = "taking" PROVE call'[Last(o)] = call[Last(o)]  OBVIOUS
      <4> PICK d \in Calls : d = Last(o) /\ OwnerOf(d) = o  BY <1>l
      <4>1. d # c  BY <2>7 DEF OwnerOf
      <4> QED BY <4>1, <2>1 DEF TypeInv
    <3> QED BY <3>1, <2>2, <2>5, <2>7, <1>a, <1>1
  <2> QED BY <2>6, <2>7
<1> QED BY <1>2, <1>3, <1>4, <1>5, <1>6, <1>7 DEF OwnerStep

LEMMA GateStepFly ==
    ASSUME IInv, FlyInv, Autos \cap Remote = {},
           PassGate \/ OpenGate \/ \E who \in Owners \cup {Nobody} : Close(who)
    PROVE  FlyInv'
<1> USE DEF IInv
<1> SUFFICES ASSUME NEW o \in Autos PROVE FlyOf(o)' /\ InsideOf(o)'  BY DEF FlyInv
<1>a. o \in Owners /\ TableOf[o] \in Tables /\ o \notin Remote  BY AutoIs
<1>1. ASSUME own'[o] = own[o], tab'.flying = tab.flying, call' = call PROVE FlyOf(o)'
  <2>1. FlyMoves(o)  BY <1>1 DEF FlyMoves
  <2> QED BY <2>1, FlyKept
<1>2. CASE PassGate
  <2>1. /\ UNCHANGED <<tab, sweeping, call, own>> /\ gate' = [gate EXCEPT !.step = "inside"]
        /\ \A x \in gate.tables : ~Appending(tab, x)
    BY <1>2 DEF PassGate
  <2>2. gate'.tables = gate.tables  BY <2>1 DEF TypeInv, Gate
  <2>3. ASSUME TableOf[o] \in gate.tables, own[o].sure, Asks(o), o \in tab.flying[TableOf[o]] PROVE FALSE
    <3>1. Live(tab, o)  BY <2>3, <1>a DEF LeaseInv, LeaseOf, Asks
    <3> QED BY <3>1, <2>1, <2>3 DEF Appending
  <2>4. InsideOf(o)'  BY <2>1, <2>2, <2>3 DEF InsideOf, Asks
  <2> QED BY <2>1, <2>4, <1>1
<1>3. CASE OpenGate
  <2>1. /\ tab'.flying = tab.flying /\ gate' = Open /\ call' = call
        /\ \/ own' = own
           \/ gate.who \in Owners /\ own' = [own EXCEPT ![gate.who] = Done(gate.who, "ending")]
    BY <1>3, OpenGateDoes
  <2>2. InsideOf(o)'  BY <2>1 DEF InsideOf, Open
  <2>3. own'[o] = own[o] \/ own'[o].step = "ending"
    <3>1. CASE own' = own  BY <3>1
    <3>2. CASE gate.who \in Owners /\ own' = [own EXCEPT ![gate.who] = Done(gate.who, "ending")]
      <4> PICK p \in Owners : p = gate.who  BY <3>2
      <4> QED BY <3>2, DoneIs, <1>a
    <3> QED BY <2>1, <3>1, <3>2
  <2>4. FlyOf(o)'
    <3>1. CASE own'[o].step = "ending"  BY <3>1 DEF FlyOf
    <3> QED BY <3>1, <2>1, <2>3, <1>1
  <2> QED BY <2>2, <2>4
<1>4. CASE \E who \in Owners \cup {Nobody} : Close(who)
  <2> PICK who \in Owners \cup {Nobody} : Close(who)  BY <1>4
  <2>1. /\ tab'.flying = tab.flying /\ gate'.step = "waiting" /\ call' = call
        /\ \/ own' = own
           \/ who \in Owners \ Autos /\ own' = [own EXCEPT ![who].step = "committing"]
    BY CloseDoes
  <2>2. own'[o] = own[o]
    <3>1. CASE who \in Owners \ Autos /\ own' = [own EXCEPT ![who].step = "committing"]
      BY <3>1, StepIs, <1>a
    <3> QED BY <2>1, <3>1
  <2>3. InsideOf(o)'  BY <2>1 DEF InsideOf
  <2> QED BY <2>1, <2>2, <2>3, <1>1
<1> QED BY <1>2, <1>3, <1>4

LEMMA RestStepFly ==
    ASSUME IInv, FlyInv, \/ Sweep
                         \/ Tick
                         \/ \E k \in Keys : SweepKey(k)
                         \/ UNCHANGED vars
    PROVE  FlyInv'
<1> USE DEF IInv
<1> SUFFICES ASSUME NEW o \in Autos PROVE FlyOf(o)' /\ InsideOf(o)'  BY DEF FlyInv
<1>a. o \in Owners /\ TableOf[o] \in Tables  BY AutoIs
<1>1. ASSUME own' = own, call' = call, gate' = gate, tab'.flying = tab.flying PROVE FlyOf(o)' /\ InsideOf(o)'
  <2>1. FlyMoves(o)  BY <1>1 DEF FlyMoves
  <2>2. InsideOf(o)'  BY <1>1, InsideKept DEF Asks
  <2> QED BY <2>1, <2>2, FlyKept
<1>2. CASE \E k \in Keys : SweepKey(k)  BY <1>2, <1>1, SweepKeyDoes DEF SameRest
<1>3. CASE UNCHANGED vars  BY <1>3, <1>1 DEF vars
<1>4. CASE Sweep
  <2>1. /\ \A x \in Tables : tab'.flying[x] = {p \in tab.flying[x] : Live(tab, p)}
        /\ UNCHANGED <<call, own, gate>>
    BY <1>4, SweepDoes
  <2>2. FlyMoves(o)
    <3>1. ASSUME o \in tab.flying[TableOf[o]], own[o].sure, own[o].step \in {"taking", "open", "appending", "lost"}
          PROVE  o \in tab'.flying[TableOf[o]]
      <4>1. Live(tab, o)  BY <3>1, <1>a DEF LeaseInv, LeaseOf
      <4> QED BY <4>1, <3>1, <2>1, <1>a
    <3> QED BY <3>1, <2>1 DEF FlyMoves
  <2>3. InsideOf(o)'  BY <2>1, <1>a, InsideKept DEF Asks
  <2> QED BY <2>2, <2>3, FlyKept
<1>5. CASE Tick
  <2>1. /\ SameRest /\ UNCHANGED <<sweeping, call, gate>>
        /\ own'[o] = [own[o] EXCEPT !.limit = Less(@), !.sure = @ /\ (tab.leases[o] # 1 \/ ~Asks(o))]
    BY <1>5, <1>a, TickDoes
  <2>2. own'[o].step = own[o].step /\ own'[o].last = own[o].last /\ (own'[o].sure => own[o].sure)
    <3>1. own[o] \in Owner  BY <1>a DEF TypeInv
    <3> QED BY <3>1, <2>1 DEF Owner
  <2>3. FlyOf(o)'  BY <2>1, <2>2 DEF FlyOf, FlyInv, SameRest, Last
  <2>4. InsideOf(o)'  BY <2>1, <2>2, InsideKept DEF Asks, SameRest
  <2> QED BY <2>3, <2>4
<1> QED BY <1>2, <1>3, <1>4, <1>5

\* While a writer is inside the gate, no autocommitted write next to the Table whose lease never ran
\* out has an append on its way to a table the writer closed (locks.rs, enter, close).
THEOREM NeverInBetween == Autos \cap Remote = {} => (Spec => []NeverBetween)
<1> SUFFICES ASSUME Autos \cap Remote = {} PROVE Spec => []NeverBetween  OBVIOUS
<1>1. Init => FlyInv
  <2> SUFFICES ASSUME Init, NEW o \in Autos PROVE FlyOf(o) /\ InsideOf(o)  BY DEF FlyInv
  <2>1. own[o].step = "idle"  BY AutoIs DEF Init
  <2> QED BY <2>1 DEF FlyOf, InsideOf, Asks
<1>2. IInv /\ FlyInv /\ [Next]_vars => FlyInv'
  BY CallStepFly, OwnerStepFly, GateStepFly, RestStepFly DEF Next
<1>3. IInv /\ FlyInv => NeverBetween
  <2> SUFFICES ASSUME FlyInv, NEW o \in Autos, gate.step = "inside", TableOf[o] \in gate.tables,
                      own[o].step \in {"appending", "lost"}, own[o].sure
               PROVE  FALSE
    BY DEF NeverBetween
  <2>1. Asks(o)  BY DEF Asks
  <2> QED BY <2>1 DEF FlyInv, FlyOf, InsideOf
<1> QED BY <1>1, <1>2, <1>3, Inductive, PTL DEF Spec

=============================================================================
