------------------------ MODULE Transactions_proofs ------------------------
(***************************************************************************)
(* What holds of transactions, autocommitted writes and the writers under  *)
(* the lake's lock, for any sessions, rows and bounds: an autocommitted    *)
(* write has its rows to itself until it lands, no checked writer loses an *)
(* update, and a transaction that kept its locks is refused only for what  *)
(* a writer without locks did.                                             *)
(*                                                                         *)
(* Two facts carry it.  A row's locks: since owner o was granted row k     *)
(* nobody who kept its own locks wrote it (Alone), for as long as o's      *)
(* lease lasts; every step leaves an owner that (Steady) but the one that  *)
(* lets it go (Lets).  A row's check: a row that a transaction keeps is    *)
(* checked from before the first commit that its version doesn't have      *)
(* (KeptFits), in a log that still goes back that far.  The statement at   *)
(* work hands both on to what its transaction keeps (StmtInv, SlotInv,     *)
(* KeptMore), a savepoint and a COMMIT take them along (TxnInv,            *)
(* PendingInv), and the check under the gate uses them up (CheckFinds).    *)
(*                                                                         *)
(* Assumed, and needed: the log is kept as long as something is to be      *)
(* checked against it (Retained; `expire` asks nobody), and, for           *)
(* sessions, a client over a connection, which waits for each answer       *)
(* (Serial, Overlap = 1; over HTTP nothing makes it).                      *)
(***************************************************************************)
EXTENDS Transactions, FiniteSetTheorems, SequenceTheorems, WellFoundedInduction, TLAPS

\* Every set of numbers up to k has a greatest one, which `Max` picks; and of two, `Min` the least.
LEMMA LeastNatural ==
    ASSUME NEW T \in SUBSET Nat, T # {}
    PROVE  \E d \in T : \A y \in T : d <= y
<1>1. IsWellFoundedOn(OpToRel(<, Nat), Nat)
  BY NatLessThanWellFounded
<1>2. PICK d \in T : \A y \in T : ~ (<<y, d>> \in OpToRel(<, Nat))
  BY <1>1, WFMin
<1>3. \A y \in T : ~ (y < d)
  BY <1>2 DEF OpToRel
<1> QED
  BY <1>3

LEMMA MaxIs ==
    ASSUME NEW n \in Nat, NEW S \in SUBSET (0 .. n), S # {}
    PROVE  Max(S) \in S /\ \A y \in S : y <= Max(S)
<1> DEFINE T == {n - x : x \in S}
<1>1. \A x \in S : x \in Int /\ 0 <= x /\ x <= n
  OBVIOUS
<1>2. T \in SUBSET Nat
  <2>1. \A x \in S : n - x \in Nat
     BY <1>1
  <2> QED
    BY <2>1
<1>3. T # {}
  OBVIOUS
<1> HIDE DEF T
<1>4. PICK d \in T : \A y \in T : d <= y
  BY <1>2, <1>3, LeastNatural
<1>5. PICK x \in S : d = n - x
  BY DEF T
<1>6. \A y \in S : x >= y
  <2> TAKE y \in S
  <2>1. n - y \in T
    BY DEF T
  <2>2. d <= n - y
    BY <2>1, <1>4
  <2> QED
    BY <2>2, <1>1, <1>5
<1>7. Max(S) \in S /\ \A y \in S : Max(S) >= y
  BY <1>6 DEF Max
<1> QED
  BY <1>7, <1>1

LEMMA MinOfTwo ==
    ASSUME NEW a \in Nat, NEW b \in Nat
    PROVE  Min({a, b}) = IF a <= b THEN a ELSE b
<1>1. \E x \in {a, b} : \A y \in {a, b} : x =< y
  OBVIOUS
<1> QED
  BY <1>1 DEF Min

-----------------------------------------------------------------------------
(* Types.                                                                   *)

TypeInv ==
    /\ TypeOK
    /\ \A s \in Sessions : txn[s].step = "open" => txn[s].n \in 1 .. MaxTxns

LEMMA Numbers == /\ MaxN \in Nat /\ MaxTxns \in Nat \ {0} /\ Overlap \in Nat \ {0} /\ MaxLosses \in Nat
                 /\ Commits = 0 .. MaxN /\ None = MaxN + 1 /\ Points = 0 .. MaxN + 1 /\ Commits \subseteq Points
                 /\ 0 \in Commits /\ None \in Points /\ None \in Nat /\ \A p \in Points : p <= None /\ p \in Nat
BY BoundsAssumption DEF Commits, None, Points

LEMMA NoneIn ==
    /\ NoBase \in Bases /\ Nothing \in Kept /\ NoTxn \in Txn /\ NoStmt \in Stmt /\ Free \in Gate
    /\ \A s \in Sessions : TypeOK => Over(s) \in Txn
<1>1. NoBase \in Bases
  BY Numbers DEF NoBase, Bases
<1>2. Nothing \in Kept
  BY Numbers, <1>1 DEF Nothing, Kept
<1>3. NoTxn \in Txn
  BY Numbers, <1>2 DEF NoTxn, Txn
<1>4. NoStmt \in Stmt
  BY Numbers, <1>1 DEF NoStmt, Stmt
<1>5. Free \in Gate
  BY Numbers, <1>2 DEF Free, Gate, Request
<1>6. ASSUME NEW s \in Sessions, TypeOK PROVE Over(s) \in Txn
  BY <1>3, <1>6 DEF Over, Txn, TypeOK
<1> QED
  BY <1>1, <1>2, <1>3, <1>4, <1>5, <1>6

\* Whose statements, transactions and commits there are.
LEMMA Places ==
    /\ \A w \in Slots : SessionOf(w) \in Sessions /\ w \in Stmts
    /\ \A w \in Autos : w \in Stmts /\ w \in Owners
    /\ \A w \in Stmts : w \in Autos \/ w \in Slots
    /\ \A w \in Autos : w \notin Slots
    /\ TypeInv => \A s \in Sessions : txn[s].step = "open" => /\ IdOf(s) \in Txns
                                                              /\ IdOf(s) \in Owners /\ IdOf(s) \notin Autos /\ IdOf(s) # Nobody
    /\ \A c \in Request : c.id \in Txns \cup {Nobody} /\ c.id \notin Autos /\ (c.id # Nobody => c.id \in Owners)
    /\ TypeInv => gate.c \in Request /\ asked \subseteq Request
    /\ \A o \in Txns : o \in Owners /\ o \notin Autos
    /\ \A o \in Owners : o # Nobody /\ (o \notin Autos => o \in Txns)
<1>1. \A w \in Slots : SessionOf(w) \in Sessions /\ w \in Stmts /\ w \in Sessions \X Nat
  BY Numbers DEF Slots, SessionOf, Stmts
<1>2. \A o \in Txns : o \in Owners /\ o \in Sessions \X Nat
  BY Numbers DEF Owners, Txns
<1>3. TypeInv => \A s \in Sessions : txn[s].step = "open" => IdOf(s) \in Txns
  BY DEF IdOf, TypeInv, Txns
<1>4. /\ \A w \in Autos : w \in Stmts /\ w \in Owners
      /\ \A w \in Stmts : w \in Autos \/ w \in Slots
      /\ \A o \in Owners : o # Nobody /\ (o \notin Autos => o \in Txns)
  BY NobodyAssumption DEF Stmts, Owners
<1>5. \A o \in Sessions \X Nat : o \notin Autos
  BY NobodyAssumption
<1>6. Nobody \notin Autos
  BY NobodyAssumption DEF Owners
<1>7. \A c \in Request : c.id \in Txns \cup {Nobody}
  BY DEF Request
<1>8. TypeInv => gate.c \in Request /\ asked \subseteq Request
  BY DEF TypeInv, TypeOK, Gate
<1> QED
  BY <1>1, <1>2, <1>3, <1>4, <1>5, <1>6, <1>7, <1>8

LEMMA VersionIs ==
    ASSUME TypeOK, NEW k \in Keys, NEW n \in Commits
    PROVE  /\ Version(k, n) \in Commits /\ Version(k, n) <= n
           /\ \A i \in 1 .. Len(log) : k \in log[i].keys /\ i > Version(k, n) => i > n
<1> DEFINE S == {0} \cup {i \in 1 .. n : k \in log[i].keys}
<1>1. n \in Nat /\ n <= MaxN /\ Len(log) \in Nat
  BY Numbers DEF TypeOK
<1>2. S \in SUBSET (0 .. n) /\ S # {}
  BY <1>1
<1>3. Version(k, n) = Max(S)
  BY DEF Version
<1>4. Max(S) \in S /\ \A y \in S : y <= Max(S)
  BY <1>1, <1>2, MaxIs
<1>5. Max(S) \in 0 .. n
  BY <1>2, <1>4
<1>6. \A i \in 1 .. Len(log) : k \in log[i].keys /\ i <= n => i \in S
  BY <1>1
<1> HIDE DEF S
<1>7. \A i \in 1 .. Len(log) : k \in log[i].keys /\ i > Max(S) => i > n
  BY <1>1, <1>4, <1>5, <1>6
<1> QED
  BY <1>1, <1>3, <1>5, <1>7, Numbers

LEMMA HereIs ==
    ASSUME TypeOK
    PROVE  /\ \A w \in Sessions \cup Autos : Visible(w) \in 0 .. Len(log) /\ Visible(w) \in Commits
           /\ \A w \in Stmts : Here(w) \in 0 .. Len(log) /\ Here(w) \in Commits
<1>1. Len(log) \in Nat /\ Len(log) <= MaxN /\ seen \in 0 .. Len(log)
  BY DEF TypeOK
<1>2. \A w : Visible(w) \in 0 .. Len(log) /\ Visible(w) \in Commits
  BY <1>1, Numbers DEF Visible
<1> QED
  BY <1>2 DEF Here

LEMMA NoteTypes ==
    ASSUME NEW r \in Kept, NEW ks \in SUBSET Keys, NEW at \in Commits
    PROVE  NoteKeys(r, ks, at) \in Kept /\ NoteFloor(r, at) \in Kept
<1> DEFINE p(k) == IF k \notin ks THEN r.point[k] ELSE Min({at, IF r.point[k] # None THEN r.point[k] ELSE r.floor})
<1>1. r.floor \in Points /\ r.point \in [Keys -> Points] /\ at \in Nat /\ at \in Points
  BY Numbers DEF Kept
<1>2. \A q \in Points : Min({at, q}) \in Points /\ Min({q, at}) \in Points
  <2> TAKE q \in Points
  <2>1. q \in Nat
    BY Numbers
  <2> QED
    BY <1>1, <2>1, MinOfTwo
<1>3. \A k \in Keys : p(k) \in Points
  BY <1>1, <1>2
<1> HIDE DEF p
<1>4. [k \in Keys |-> p(k)] \in [Keys -> Points]
  BY <1>3
<1>5. NoteKeys(r, ks, at) = [r EXCEPT !.point = [k \in Keys |-> p(k)]]
  BY DEF NoteKeys, p
<1>6. NoteFloor(r, at) = [r EXCEPT !.floor = Min({r.floor, at})]
  BY DEF NoteFloor
<1>7. [r EXCEPT !.point = [k \in Keys |-> p(k)]] \in Kept
  BY <1>4 DEF Kept
<1>8. [r EXCEPT !.floor = Min({r.floor, at})] \in Kept
  BY <1>1, <1>2 DEF Kept
<1> QED
  BY <1>5, <1>6, <1>7, <1>8

\* What a statement's fields are.
LEMMA StmtIs ==
    ASSUME NEW x \in Stmt
    PROVE  /\ x.step \in {"idle", "working", "waiting", "granted", "done", "over"} /\ x.id \in Owners \cup {Nobody}
           /\ x.read \in BOOLEAN /\ x.locking \in BOOLEAN /\ x.rc \in BOOLEAN /\ x.locked \in BOOLEAN
           /\ x.at \in Commits /\ x.granted \in Commits /\ x.keys \in SUBSET Keys /\ x.held \in SUBSET Keys
           /\ x.base \in Bases /\ x.at \in Nat /\ x.granted \in Nat
           /\ \A k \in Keys : x.base[k] \in Nat
BY Numbers DEF Stmt, Bases

LEMMA KeptIs ==
    ASSUME NEW r \in Kept
    PROVE  /\ r.floor \in Points /\ r.point \in [Keys -> Points] /\ r.writes \in SUBSET Keys /\ r.base \in Bases
           /\ r.locked \in BOOLEAN /\ r.floor \in Nat
           /\ \A k \in Keys : /\ r.point[k] \in Points /\ r.point[k] \in Nat /\ r.base[k] \in Commits /\ r.base[k] \in Nat
                              /\ PointOf(r, k) \in Nat
<1>1. /\ r.floor \in Points /\ r.point \in [Keys -> Points] /\ r.writes \in SUBSET Keys /\ r.base \in Bases
      /\ r.locked \in BOOLEAN
  BY DEF Kept
<1>2. \A k \in Keys : r.point[k] \in Points /\ r.base[k] \in Commits
  BY <1>1 DEF Bases
<1> QED
  BY <1>1, <1>2, Numbers DEF PointOf

LEMMA KeepTypes ==
    ASSUME NEW r \in Kept, NEW x \in Stmt
    PROVE  KeepRows(r, x) \in Kept
<1> DEFINE b == [k \in Keys |-> IF k \in x.keys THEN x.base[k] ELSE r.base[k]]
           rows == [r EXCEPT !.writes = r.writes \cup x.keys, !.base = b, !.locked = r.locked /\ x.locked]
<1>1. b \in Bases
  BY StmtIs, KeptIs DEF Bases
<1> HIDE DEF b
<1>2. rows \in Kept
  BY <1>1, StmtIs DEF Kept
<1>3. KeepRows(r, x) = IF x.locked THEN NoteKeys(rows, x.keys, x.at) ELSE NoteFloor(rows, x.at)
  BY DEF KeepRows, b
<1> HIDE DEF rows
<1> QED
  BY <1>2, <1>3, NoteTypes, StmtIs

\* A statement's own version of a row.
LEMMA OwnIs ==
    ASSUME TypeOK, NEW w \in Stmts
    PROVE  /\ Own(w) \in Kept
           /\ \A k \in Keys, n \in Commits : BaseAt(w, k, n) \in Commits
<1>1. Own(w) \in Kept
  BY NoneIn, Places DEF Own, TypeOK, Txn
<1>2. \A k \in Keys : Own(w).base[k] \in Commits
  BY <1>1, KeptIs
<1> QED
  BY <1>1, <1>2, VersionIs DEF BaseAt

LEMMA WorkedType ==
    ASSUME TypeOK, NEW w \in Stmts, NEW ks \in SUBSET Keys
    PROVE  Worked(w, ks) \in Stmt
<1> DEFINE b == [k \in Keys |-> IF k \in ks THEN BaseAt(w, k, stmt[w].at) ELSE 0]
<1>1. stmt[w] \in Stmt
  BY DEF TypeOK
<1>2. stmt[w].at \in Commits
  BY <1>1, StmtIs
<1>3. b \in Bases
  BY <1>2, OwnIs, Numbers DEF Bases
<1>4. Worked(w, ks) = [stmt[w] EXCEPT !.keys = ks, !.held = stmt[w].held \cup ks, !.locked = TRUE, !.base = b]
  BY DEF Worked
<1> HIDE DEF b
<1>5. stmt[w].held \cup ks \in SUBSET Keys
  BY <1>1, StmtIs
<1> QED
  BY <1>1, <1>3, <1>4, <1>5, ZenonT(60) DEF Stmt

\* What a step leaves of a type.
LEMMA ReleaseTypes ==
    ASSUME TypeOK, NEW o \in Owners, Release(o)
    PROVE  lock' \in [Keys -> Owners \cup {Nobody}] /\ flying' \subseteq Autos /\ over' \subseteq Owners \ Autos
<1>1. lock \in [Keys -> Owners \cup {Nobody}] /\ flying \subseteq Autos /\ over \subseteq Owners \ Autos
  BY DEF TypeOK
<1>2. lock' = [k \in Keys |-> IF lock[k] = o THEN Nobody ELSE lock[k]] /\ flying' = flying \ {o} /\ over' = over \cup ({o} \ Autos)
  BY DEF Release, Unlocked
<1> QED
  BY <1>1, <1>2

LEMMA FailsTypes ==
    ASSUME TypeOK, NEW w \in Stmts, Fails(w)
    PROVE  /\ stmt' \in [Stmts -> Stmt] /\ txn' \in [Sessions -> Txn]
           /\ lock' \in [Keys -> Owners \cup {Nobody}] /\ flying' \subseteq Autos /\ over' \subseteq Owners \ Autos
           /\ \A s \in Sessions : txn'[s].step = txn[s].step /\ txn'[s].n = txn[s].n
<1>1. stmt \in [Stmts -> Stmt] /\ txn \in [Sessions -> Txn]
  BY DEF TypeOK
<1>2. NoStmt \in Stmt /\ [NoStmt EXCEPT !.step = "over"] \in Stmt
  BY NoneIn DEF Stmt
<1>3. stmt' \in [Stmts -> Stmt]
  BY <1>1, <1>2 DEF Fails, Set
<1>4. CASE w \in Autos
  <2>1. Release(w) /\ UNCHANGED txn
    BY <1>4 DEF Fails
  <2> QED
    BY <1>1, <1>3, <2>1, <1>4, ReleaseTypes, Places
<1>5. CASE w \notin Autos
  <2> DEFINE s == SessionOf(w)
             t == [txn[s] EXCEPT !.failed = TRUE, !.kept = Nothing]
  <2>1. s \in Sessions
    BY <1>5, Places
  <2>2. UNCHANGED <<lock, flying, over>> /\ (txn' = txn \/ txn' = [txn EXCEPT ![s] = t])
    BY <1>1, <1>5, <2>1 DEF Fails
  <2>3. t \in Txn /\ t.step = txn[s].step /\ t.n = txn[s].n
    BY <1>1, <2>1, NoneIn DEF Txn
  <2> HIDE DEF s, t
  <2>4. txn' \in [Sessions -> Txn] /\ \A z \in Sessions : txn'[z].step = txn[z].step /\ txn'[z].n = txn[z].n
    BY <1>1, <2>1, <2>2, <2>3
  <2> QED
    BY <1>3, <2>2, <2>4 DEF TypeOK
<1> QED
  BY <1>4, <1>5

LEMMA LetGoTypes ==
    ASSUME TypeOK, NEW s, NEW o \in Owners, LetGo(s, o)
    PROVE  lock' \in [Keys -> Owners \cup {Nobody}] /\ flying' \subseteq Autos /\ over' \subseteq Owners \ Autos
BY ReleaseTypes DEF LetGo, TypeOK

LEMMA LeaveTypes ==
    ASSUME TypeOK, Leave
    PROVE  /\ lock' \in [Keys -> Owners \cup {Nobody}] /\ flying' \subseteq Autos /\ over' \subseteq Owners \ Autos
           /\ gate' \in Gate
<1>1. gate.c.id \in Owners \cup {Nobody}
  <2>1. gate.c \in Request
    BY DEF TypeOK, Gate
  <2> QED
    BY <2>1, Places
<1> QED
  BY <1>1, ReleaseTypes, NoneIn DEF Leave, TypeOK

LEMMA SequencedTypes ==
    ASSUME TypeOK, NEW e \in Entry, Sequenced(e)
    PROVE  /\ log' = Append(log, e) /\ log' \in Seq(Entry) /\ Len(log') = Len(log) + 1 /\ Len(log') <= MaxN
           /\ gone \in 0 .. Len(log') /\ seen \in 0 .. Len(log')
<1>1. log \in Seq(Entry) /\ Len(log) \in Nat /\ Len(log) < MaxN /\ log' = Append(log, e)
  BY DEF TypeOK, Sequenced
<1>2. gone \in 0 .. Len(log) /\ seen \in 0 .. Len(log)
  BY DEF TypeOK
<1>3. log' \in Seq(Entry) /\ Len(log') = Len(log) + 1
  BY <1>1
<1> QED
  BY <1>1, <1>2, <1>3, Numbers

\* The types, as each kind of step leaves them.
TypesOfLog  == log' \in Seq(Entry) /\ Len(log') <= MaxN /\ gone' \in 0 .. Len(log') /\ seen' \in 0 .. Len(log')
TypesOfLocks == /\ lock' \in [Keys -> Owners \cup {Nobody}] /\ flying' \subseteq Autos /\ over' \subseteq Owners \ Autos
                /\ lapsed' \subseteq Owners /\ restarts' \in 0 .. MaxLosses
TypesOfTxns == /\ txn' \in [Sessions -> Txn]
               /\ \A s \in Sessions : txn'[s].step = "open" => txn'[s].n \in 1 .. MaxTxns
TypesOfWork == stmt' \in [Stmts -> Stmt] /\ asked' \subseteq Request /\ gate' \in Gate

LEMMA TypesTogether == TypesOfLog /\ TypesOfLocks /\ TypesOfTxns /\ TypesOfWork => TypeInv'
BY DEF TypesOfLog, TypesOfLocks, TypesOfTxns, TypesOfWork, TypeInv, TypeOK

LEMMA TypesStay ==
    ASSUME TypeInv
    PROVE  /\ UNCHANGED <<log, gone, seen>> => TypesOfLog
           /\ UNCHANGED <<lock, flying, over, lapsed, restarts>> => TypesOfLocks
           /\ UNCHANGED txn => TypesOfTxns
           /\ UNCHANGED <<stmt, asked, gate>> => TypesOfWork
BY DEF TypesOfLog, TypesOfLocks, TypesOfTxns, TypesOfWork, TypeInv, TypeOK

\* One session's transaction, and one statement.
LEMMA TxnSet ==
    ASSUME TypeInv, NEW s \in Sessions, NEW t \in Txn, txn' = [txn EXCEPT ![s] = t],
           t.step = "open" => t.n \in 1 .. MaxTxns
    PROVE  TypesOfTxns
<1>1. txn \in [Sessions -> Txn] /\ \A z \in Sessions : txn[z].step = "open" => txn[z].n \in 1 .. MaxTxns
  BY DEF TypeInv, TypeOK
<1>2. txn' \in [Sessions -> Txn]
  BY <1>1
<1>3. \A z \in Sessions : txn'[z] = IF z = s THEN t ELSE txn[z]
  BY <1>1
<1> QED
  BY <1>1, <1>2, <1>3 DEF TypesOfTxns

LEMMA StmtSet ==
    ASSUME TypeInv, NEW w \in Stmts, NEW x \in Stmt, Set(w, x), UNCHANGED <<asked, gate>>
    PROVE  TypesOfWork
<1>1. stmt \in [Stmts -> Stmt] /\ asked \subseteq Request /\ gate \in Gate
  BY DEF TypeInv, TypeOK
<1>2. stmt' = [stmt EXCEPT ![w] = x]
  BY DEF Set
<1>3. stmt' \in [Stmts -> Stmt]
  BY <1>1, <1>2
<1> QED
  BY <1>1, <1>3 DEF TypesOfWork

LEMMA FailsTogether ==
    ASSUME TypeInv, NEW w \in Stmts, Fails(w), UNCHANGED <<lapsed, restarts, asked, gate>>
    PROVE  TypesOfTxns /\ TypesOfLocks /\ TypesOfWork
<1>1. TypeOK /\ \A z \in Sessions : txn[z].step = "open" => txn[z].n \in 1 .. MaxTxns
  BY DEF TypeInv
<1>2. /\ stmt' \in [Stmts -> Stmt] /\ txn' \in [Sessions -> Txn]
      /\ lock' \in [Keys -> Owners \cup {Nobody}] /\ flying' \subseteq Autos /\ over' \subseteq Owners \ Autos
      /\ \A s \in Sessions : txn'[s].step = txn[s].step /\ txn'[s].n = txn[s].n
  BY <1>1, FailsTypes
<1> QED
  BY <1>1, <1>2 DEF TypesOfTxns, TypesOfLocks, TypesOfWork, TypeOK

-----------------------------------------------------------------------------

LEMMA SessionTypes ==
    ASSUME TypeInv, NEW s \in Sessions,
           Begin(s) \/ Rollback(s) \/ Savepoint(s) \/ RollbackTo(s) \/ Commit(s)
    PROVE  TypeInv'
<1>1. TypeOK /\ txn \in [Sessions -> Txn] /\ txn[s] \in Txn
  BY DEF TypeInv, TypeOK
<1>2. txn[s].step = "open" => txn[s].n \in 1 .. MaxTxns /\ IdOf(s) \in Owners /\ IdOf(s) \in Txns
  BY Places DEF TypeInv
<1>3. txn[s].n \in 0 .. MaxTxns /\ txn[s].kept \in Kept /\ txn[s].mark \subseteq Kept
  BY <1>1 DEF Txn
<1>4. Over(s) \in Txn /\ Over(s).step = "none"
  BY <1>1, NoneIn DEF Over, NoTxn
<1>5. CASE Begin(s)
  <2>1. PICK level \in {"committed", "repeatable"} :
             txn' = [txn EXCEPT ![s] = [NoTxn EXCEPT !.step = "open", !.n = txn[s].n + 1, !.level = level]]
    BY <1>5 DEF Begin
  <2> DEFINE t == [NoTxn EXCEPT !.step = "open", !.n = txn[s].n + 1, !.level = level]
  <2>2. txn[s].n + 1 \in 0 .. MaxTxns /\ txn[s].n + 1 \in 1 .. MaxTxns
    BY <1>3, <1>5, Numbers, SMTT(60) DEF Begin
  <2>3. t \in Txn /\ t.n = txn[s].n + 1
    BY <2>2, NoneIn DEF Txn
  <2> HIDE DEF t
  <2>4. txn' = [txn EXCEPT ![s] = t]
    BY <2>1 DEF t
  <2>5. TypesOfTxns
    BY <2>2, <2>3, <2>4, TxnSet
  <2> QED
    BY <1>5, <2>5, TypesStay, TypesTogether DEF Begin
<1>6. CASE Rollback(s)
  <2>1. TypesOfTxns
    BY <1>4, <1>6, TxnSet DEF Rollback
  <2>2. TypesOfLocks
    BY <1>1, <1>2, <1>6, LetGoTypes DEF Rollback, TypesOfLocks, TypeOK
  <2> QED
    BY <1>6, <2>1, <2>2, TypesStay, TypesTogether DEF Rollback
<1>7. CASE Savepoint(s)
  <2> DEFINE t == [txn[s] EXCEPT !.mark = {txn[s].kept}]
  <2>1. t \in Txn /\ t.n = txn[s].n
    BY <1>1, <1>3 DEF Txn
  <2>2. txn' = [txn EXCEPT ![s] = t]
    BY <1>1, <1>7 DEF Savepoint
  <2> HIDE DEF t
  <2>3. TypesOfTxns
    BY <1>2, <1>7, <2>1, <2>2, TxnSet DEF Savepoint
  <2> QED
    BY <1>7, <2>3, TypesStay, TypesTogether DEF Savepoint
<1>8. CASE RollbackTo(s)
  <2>1. PICK m \in txn[s].mark : txn' = [txn EXCEPT ![s].kept = m, ![s].failed = FALSE]
    BY <1>8 DEF RollbackTo
  <2> DEFINE t == [txn[s] EXCEPT !.kept = m, !.failed = FALSE]
  <2>2. t \in Txn /\ t.n = txn[s].n
    BY <1>1, <1>3 DEF Txn
  <2>3. txn' = [txn EXCEPT ![s] = t]
    BY <1>1, <2>1
  <2> HIDE DEF t
  <2>4. TypesOfTxns
    BY <1>2, <1>8, <2>2, <2>3, TxnSet DEF RollbackTo
  <2> QED
    BY <1>8, <2>4, TypesStay, TypesTogether DEF RollbackTo
<1>9. CASE Commit(s)
  <2>1. TypesOfTxns
    BY <1>4, <1>9, TxnSet DEF Commit
  <2>2. TypesOfLocks /\ asked' \subseteq Request
    <3>1. [id |-> IdOf(s), kept |-> txn[s].kept] \in Request
      BY <1>2, <1>3, <1>9 DEF Commit, Request, Txns
    <3> QED
      BY <1>1, <1>2, <1>9, <3>1, LetGoTypes DEF Commit, TypesOfLocks, TypeOK
  <2>3. TypesOfWork
    BY <1>1, <1>9, <2>2 DEF Commit, TypesOfWork, TypeOK
  <2> QED
    BY <1>9, <2>1, <2>2, <2>3, TypesStay, TypesTogether DEF Commit
<1> QED
  BY <1>5, <1>6, <1>7, <1>8, <1>9

LEMMA StmtTypes ==
    ASSUME TypeInv, NEW w \in Stmts, Pass(w) \/ Moved(w) \/ Grant(w) \/ Refuse(w) \/ Check(w)
    PROVE  TypeInv'
<1> DEFINE x == stmt[w]
<1>1. TypeOK /\ stmt \in [Stmts -> Stmt] /\ x \in Stmt
  BY DEF TypeInv, TypeOK
<1>2. Len(log) \in Commits /\ Here(w) \in Commits
  BY <1>1, HereIs, Numbers DEF TypeOK
<1>3. ASSUME UNCHANGED <<log, gone, seen, lapsed, restarts, asked, gate>>, Fails(w) PROVE TypeInv'
  BY <1>3, FailsTogether, TypesStay, TypesTogether
<1>4. ASSUME UNCHANGED <<log, gone, seen, lock, flying, over, lapsed, txn, asked, gate, restarts>>,
             NEW y \in Stmt, Set(w, y)
      PROVE  TypeInv'
  BY <1>4, StmtSet, TypesStay, TypesTogether
<1>5. CASE Pass(w)
  <2>1. PICK ks \in SUBSET Keys :
             Set(w, [Worked(w, ks) EXCEPT !.step = "done", !.held = x.held, !.locked = ~(~x.locking \/ ks = {})])
    BY <1>5 DEF Pass
  <2>2. [Worked(w, ks) EXCEPT !.step = "done", !.held = x.held, !.locked = ~(~x.locking \/ ks = {})] \in Stmt
    <3>1. PICK u \in Stmt : u = Worked(w, ks)
      BY <1>1, WorkedType
    <3>2. PICK locked \in BOOLEAN : locked = ~(~x.locking \/ ks = {})
      OBVIOUS
    <3>3. PICK held \in SUBSET Keys : held = x.held
      BY <1>1, StmtIs
    <3>4. [u EXCEPT !.step = "done", !.held = held, !.locked = locked] \in Stmt
      BY ONLY u \in Stmt, held \in SUBSET Keys, locked \in BOOLEAN DEF Stmt
    <3> QED
      BY <3>1, <3>2, <3>3, <3>4
  <2> QED
    BY <1>4, <1>5, <2>1, <2>2 DEF Pass
<1>6. CASE Moved(w)
  <2>1. CASE x.rc
    <3>1. [x EXCEPT !.at = Here(w)] \in Stmt
      BY <1>1, <1>2 DEF Stmt
    <3> QED
      BY <1>4, <1>6, <2>1, <3>1 DEF Moved
  <2>2. CASE ~x.rc
    BY <1>3, <1>6, <2>2 DEF Moved
  <2> QED
    BY <2>1, <2>2
<1>7. CASE Grant(w)
  <2>1. PICK ks \in SUBSET Keys :
             /\ lock' = [k \in Keys |-> IF k \in ks THEN x.id ELSE lock[k]]
             /\ Set(w, [Worked(w, ks) EXCEPT !.step = IF w \in Autos THEN "waiting" ELSE "granted",
                                             !.granted = IF w \in Autos THEN 0 ELSE Len(log)])
    BY <1>7 DEF Grant
  <2>2. [Worked(w, ks) EXCEPT !.step = IF w \in Autos THEN "waiting" ELSE "granted",
                              !.granted = IF w \in Autos THEN 0 ELSE Len(log)] \in Stmt
    <3>1. PICK u \in Stmt : u = Worked(w, ks)
      BY <1>1, WorkedType
    <3>2. PICK granted \in Commits : granted = IF w \in Autos THEN 0 ELSE Len(log)
      BY <1>2, Numbers
    <3>3. PICK step \in {"waiting", "granted"} : step = IF w \in Autos THEN "waiting" ELSE "granted"
      OBVIOUS
    <3>4. [u EXCEPT !.step = step, !.granted = granted] \in Stmt
      BY ONLY u \in Stmt, granted \in Commits, step \in {"waiting", "granted"} DEF Stmt
    <3> QED
      BY <3>1, <3>2, <3>3, <3>4
  <2>3. lock' \in [Keys -> Owners \cup {Nobody}]
    BY <1>1, <2>1, StmtIs DEF TypeOK
  <2>4. TypesOfLocks
    BY <1>1, <1>7, <2>3 DEF TypesOfLocks, Grant, TypeOK
  <2>5. TypesOfWork
    BY <1>7, <2>1, <2>2, StmtSet DEF Grant
  <2> QED
    BY <1>7, <2>4, <2>5, TypesStay, TypesTogether DEF Grant
<1>8. CASE Refuse(w)
  BY <1>3, <1>8 DEF Refuse
<1>9. CASE Check(w)
  <2>1. [x EXCEPT !.step = "done", !.at = x.granted, !.granted = 0] \in Stmt
    BY <1>1, Numbers DEF Stmt
  <2>2. [x EXCEPT !.step = "working", !.at = x.granted, !.granted = 0, !.keys = {}, !.base = NoBase] \in Stmt
    BY <1>1, NoneIn, Numbers DEF Stmt
  <2> QED
    BY <1>3, <1>4, <1>9, <2>1, <2>2 DEF Check
<1> QED
  BY <1>5, <1>6, <1>7, <1>8, <1>9

LEMMA SlotTypes ==
    ASSUME TypeInv, NEW w \in Slots, Start(w) \/ Keep(w) \/ KeepLocks(w)
    PROVE  TypeInv'
<1> DEFINE x == stmt[w]
           s == SessionOf(w)
<1>1. TypeOK /\ stmt \in [Stmts -> Stmt] /\ x \in Stmt /\ s \in Sessions /\ w \in Stmts
      /\ txn \in [Sessions -> Txn] /\ txn[s] \in Txn
  BY Places DEF TypeInv, TypeOK
<1>2. /\ txn[s].step = "open" => txn[s].n \in 1 .. MaxTxns /\ IdOf(s) \in Owners
      /\ txn[s].kept \in Kept /\ txn[s].snapshot \in Commits
  BY <1>1, Places DEF TypeInv, Txn
<1> HIDE DEF s
<1>3. CASE Start(w)
  <2> DEFINE rc == txn[s].level = "committed"
             at == ReadAt(s)
             t  == [txn[s] EXCEPT !.snapshot = IF rc THEN 0 ELSE at, !.ran = TRUE]
  <2>1. at \in Commits
    BY <1>1, <1>2, HereIs DEF ReadAt
  <2>2. t \in Txn /\ t.step = txn[s].step /\ t.n = txn[s].n
    BY <1>1, <2>1, Numbers DEF Txn
  <2>3. txn' = [txn EXCEPT ![s] = t]
    BY <1>1, <1>3 DEF Start, s
  <2>4. PICK kind \in Kinds :
            Set(w, [NoStmt EXCEPT !.step = "working", !.id = IdOf(s), !.rc = rc, !.at = at, !.read = kind = "lock",
                                  !.locking = kind = "lock" \/ (kind = "update" /\ rc)])
    BY <1>3 DEF Start, s
  <2>5. [NoStmt EXCEPT !.step = "working", !.id = IdOf(s), !.rc = rc, !.at = at, !.read = kind = "lock",
                       !.locking = kind = "lock" \/ (kind = "update" /\ rc)] \in Stmt
    BY <1>2, <1>3, <2>1, NoneIn, ZenonT(60) DEF Stmt, Start, s
  <2> HIDE DEF t, at, rc
  <2>6. TypesOfTxns
    BY <1>1, <1>2, <1>3, <2>2, <2>3, TxnSet DEF Start, s
  <2>7. TypesOfWork
    BY <1>1, <1>3, <2>4, <2>5, StmtSet DEF Start
  <2> QED
    BY <1>3, <2>6, <2>7, TypesStay, TypesTogether DEF Start
<1>4. CASE Keep(w)
  <2>1. CASE txn[s].step = "open" /\ IdOf(s) = x.id
    <3> DEFINE t == [txn[s] EXCEPT !.kept = KeepRows(txn[s].kept, x)]
    <3>1. t \in Txn /\ t.step = txn[s].step /\ t.n = txn[s].n
      BY <1>1, <1>2, KeepTypes DEF Txn
    <3>2. txn' = [txn EXCEPT ![s] = t]
      BY <1>1, <1>4, <2>1 DEF Keep, s
    <3> HIDE DEF t
    <3>3. TypesOfTxns
      BY <1>1, <1>2, <2>1, <3>1, <3>2, TxnSet
    <3>4. TypesOfWork
      BY <1>1, <1>4, <2>1, NoneIn, StmtSet DEF Keep, s
    <3> QED
      BY <1>4, <2>1, <3>3, <3>4, TypesStay, TypesTogether DEF Keep, s
  <2>2. CASE ~(txn[s].step = "open" /\ IdOf(s) = x.id)
    BY <1>1, <1>4, <2>2, FailsTogether, TypesStay, TypesTogether DEF Keep, s
  <2> QED
    BY <2>1, <2>2
<1>5. CASE KeepLocks(w)
  <2>1. TypesOfWork
    BY <1>1, <1>5, NoneIn, StmtSet DEF KeepLocks
  <2>2. TypesOfTxns
    <3>1. CASE txn[s].step # "open"
      BY <1>5, <3>1, TypesStay DEF KeepLocks, s
    <3>2. CASE txn[s].step = "open"
      <4> DEFINE r == NoteKeys(txn[s].kept, x.keys, x.at)
                 q == [r EXCEPT !.locked = r.locked /\ IdOf(s) = x.id]
                 t == [txn[s] EXCEPT !.kept = q]
      <4>1. r \in Kept
        BY <1>1, <1>2, NoteTypes, StmtIs
      <4> HIDE DEF r
      <4>2. q \in Kept
        BY <4>1 DEF Kept
      <4>3. txn' = [txn EXCEPT ![s] = t]
        <5>1. txn' = [txn EXCEPT ![s].kept = [r EXCEPT !.locked = @ /\ IdOf(s) = x.id]]
          BY <1>1, <1>5, <3>2 DEF KeepLocks, s, r
        <5>2. [r EXCEPT !.locked = @ /\ IdOf(s) = x.id] = q
          BY <4>1 DEF Kept
        <5> HIDE DEF q
        <5> QED
          BY <1>1, <5>1, <5>2
      <4> HIDE DEF q
      <4>4. t \in Txn /\ t.step = txn[s].step /\ t.n = txn[s].n
        BY <1>1, <4>2 DEF Txn
      <4> HIDE DEF t
      <4> QED
        BY <1>1, <1>2, <3>2, <4>3, <4>4, TxnSet
    <3> QED
      BY <3>1, <3>2
  <2> QED
    BY <1>5, <2>1, <2>2, TypesStay, TypesTogether DEF KeepLocks
<1> QED
  BY <1>3, <1>4, <1>5

LEMMA AutoTypes ==
    ASSUME TypeInv, NEW w \in Autos, StartAuto(w) \/ Enter(w) \/ Land(w)
    PROVE  TypeInv'
<1> DEFINE x == stmt[w]
<1>1. TypeOK /\ stmt \in [Stmts -> Stmt] /\ x \in Stmt /\ w \in Stmts /\ w \in Owners
  BY Places DEF TypeInv, TypeOK
<1>2. Len(log) \in Commits /\ Here(w) \in Commits
  BY <1>1, HereIs, Numbers DEF TypeOK
<1>3. CASE StartAuto(w)
  <2>1. PICK kind \in Kinds \ {"lock"} :
          Set(w, [NoStmt EXCEPT !.step = "working", !.id = w, !.at = Here(w), !.locking = kind = "update"])
    BY <1>3 DEF StartAuto
  <2>2. [NoStmt EXCEPT !.step = "working", !.id = w, !.at = Here(w), !.locking = kind = "update"] \in Stmt
    BY <1>1, <1>2, NoneIn DEF Stmt
  <2>3. TypesOfWork
    BY <1>1, <1>3, <2>1, <2>2, StmtSet DEF StartAuto
  <2> QED
    BY <1>3, <2>3, TypesStay, TypesTogether DEF StartAuto
<1>4. CASE Enter(w)
  <2>1. [x EXCEPT !.step = "granted", !.granted = Len(log)] \in Stmt
    BY <1>1, <1>2 DEF Stmt
  <2>2. TypesOfWork
    BY <1>1, <1>4, <2>1, StmtSet DEF Enter
  <2>3. TypesOfLocks
    BY <1>1, <1>4 DEF Enter, TypesOfLocks, TypeOK
  <2> QED
    BY <1>4, <2>2, <2>3, TypesStay, TypesTogether DEF Enter
<1>5. CASE Land(w)
  <2> DEFINE e == [keys |-> x.keys, how |-> "auto", sure |-> x.locked /\ w \notin lapsed]
  <2>1. e \in Entry /\ Sequenced(e)
    BY <1>1, <1>5, StmtIs DEF Entry, Land
  <2> HIDE DEF e
  <2>2. TypesOfLog
    BY <1>1, <1>5, <2>1, SequencedTypes DEF Land, TypesOfLog
  <2>3. [NoStmt EXCEPT !.step = "over"] \in Stmt
    BY NoneIn DEF Stmt
  <2>4. TypesOfWork
    BY <1>1, <1>5, <2>3, StmtSet DEF Land
  <2>5. TypesOfLocks
    BY <1>1, <1>5, ReleaseTypes DEF Land, TypesOfLocks, TypeOK
  <2> QED
    BY <1>5, <2>2, <2>4, <2>5, TypesStay, TypesTogether DEF Land
<1> QED
  BY <1>3, <1>4, <1>5

LEMMA GateTypes ==
    ASSUME TypeInv,
           \/ \E c \in asked \cup {gate.c} : SendFails(c)
           \/ \E k \in Keys : Close(Change(k))
           \/ \E c \in asked : Close(c)
           \/ PassCheck \/ Conflict \/ GateTimeout \/ Flush
    PROVE  TypeInv'
<1>1. TypeOK /\ gate \in Gate /\ asked \subseteq Request /\ gate.c \in Request /\ Len(log) \in Commits
  BY Numbers DEF TypeInv, TypeOK, Gate
<1>2. CASE \E c \in asked \cup {gate.c} : SendFails(c)
  <2>1. PICK c \in asked \cup {gate.c} : SendFails(c)
    BY <1>2
  <2>2. c \in Request /\ c.id \in Owners
    BY <1>1, <2>1, Places DEF SendFails
  <2>3. TypesOfLocks
    BY <1>1, <2>1, <2>2, ReleaseTypes DEF SendFails, TypesOfLocks, TypeOK
  <2>4. TypesOfWork
    BY <1>1, <2>1 DEF SendFails, TypesOfWork, TypeOK
  <2> QED
    BY <2>1, <2>3, <2>4, TypesStay, TypesTogether DEF SendFails
<1>3. ASSUME NEW c \in Request, Close(c) PROVE TypeInv'
  <2>1. [Free EXCEPT !.step = "closing", !.c = c] \in Gate
    BY NoneIn DEF Gate
  <2>2. TypesOfWork
    BY <1>1, <1>3, <2>1 DEF Close, TypesOfWork, TypeOK
  <2> QED
    BY <1>3, <2>2, TypesStay, TypesTogether DEF Close
<1>4. \A k \in Keys : Change(k) \in Request
  BY NoneIn DEF Change, Request, Kept
<1>5. CASE PassCheck
  <2> DEFINE b == IF gate.c.id # Nobody THEN gate.c.kept.base
                  ELSE [k \in Keys |-> IF k \in gate.c.kept.writes THEN Version(k, Len(log)) ELSE 0]
  <2>1. gate.c.kept \in Kept
    BY <1>1 DEF Request
  <2>2. b \in Bases
    BY <1>1, <2>1, KeptIs, VersionIs, Numbers DEF Bases
  <2>3. gate' = [gate EXCEPT !.step = "inside", !.checked = Len(log), !.c.kept.base = b]
    BY <1>1, <1>5 DEF PassCheck
  <2> HIDE DEF b
  <2>4. gate' \in Gate
    <3>1. [gate.c.kept EXCEPT !.base = b] \in Kept
      BY <2>1, <2>2 DEF Kept
    <3>2. [gate.c EXCEPT !.kept.base = b] \in Request
      BY <1>1, <2>1, <3>1 DEF Request
    <3> QED
      BY <1>1, <2>3, <3>2 DEF Gate
  <2>5. TypesOfWork
    BY <1>1, <1>5, <2>4 DEF PassCheck, TypesOfWork, TypeOK
  <2> QED
    BY <1>5, <2>5, TypesStay, TypesTogether DEF PassCheck
<1>6. ASSUME Leave, UNCHANGED <<lapsed, txn, stmt, asked, restarts>>, TypesOfLog PROVE TypeInv'
  <2>1. TypesOfLocks /\ TypesOfWork
    BY <1>1, <1>6, LeaveTypes DEF TypesOfLocks, TypesOfWork, TypeOK
  <2> QED
    BY <1>6, <2>1, TypesStay, TypesTogether
<1>7. CASE Conflict \/ GateTimeout
  BY <1>6, <1>7, TypesStay DEF Conflict, GateTimeout
<1>8. CASE Flush
  <2> DEFINE c == gate.c
             e == [keys |-> c.kept.writes, how |-> "gated",
                   sure |-> c.id # Nobody /\ c.kept.locked /\ c.id \notin lapsed]
  <2>1. e \in Entry /\ Sequenced(e)
    BY <1>1, <1>8, KeptIs DEF Entry, Flush, Request
  <2> HIDE DEF e
  <2>2. TypesOfLog
    BY <1>1, <1>8, <2>1, SequencedTypes DEF Flush, TypesOfLog
  <2> QED
    BY <1>6, <1>8, <2>2 DEF Flush
<1> QED
  BY <1>1, <1>2, <1>3, <1>4, <1>5, <1>7, <1>8

LEMMA OwnersFinite == IsFiniteSet(Owners)
<1>1. IsFiniteSet(1 .. MaxTxns)
  BY Numbers, FS_Interval
<1>2. IsFiniteSet(Sessions \X (1 .. MaxTxns))
  BY <1>1, WritersAssumption, FS_Product
<1> QED
  BY <1>2, WritersAssumption, FS_Union DEF Owners, Txns

\* While something may still be lost, there is room for it in `restarts`.
LEMMA LossesBounded ==
    ASSUME TypeOK, Cardinality(lapsed) + restarts < MaxLosses
    PROVE  restarts + 1 \in 0 .. MaxLosses
<1>1. IsFiniteSet(lapsed)
  BY OwnersFinite, FS_Subset DEF TypeOK
<1>2. Cardinality(lapsed) \in Nat
  BY <1>1, FS_CardinalityType
<1> QED
  BY <1>2, Numbers DEF TypeOK

LEMMA OtherTypes ==
    ASSUME TypeInv, (\E k \in Keys : Load(k)) \/ See \/ Expire \/ Restart \/ \E o \in Owners : Lapse(o)
    PROVE  TypeInv'
<1>1. TypeOK /\ Len(log) \in Nat
  BY DEF TypeInv, TypeOK
<1>2. CASE \E k \in Keys : Load(k)
  <2>1. PICK k \in Keys : Load(k)
    BY <1>2
  <2> DEFINE e == [keys |-> {k}, how |-> "blind", sure |-> FALSE]
  <2>2. e \in Entry /\ Sequenced(e)
    BY <2>1 DEF Entry, Load
  <2> HIDE DEF e
  <2>3. TypesOfLog
    BY <1>1, <2>1, <2>2, SequencedTypes DEF Load, TypesOfLog
  <2> QED
    BY <2>1, <2>3, TypesStay, TypesTogether DEF Load
<1>3. CASE See
  <2>1. TypesOfLog
    BY <1>1, <1>3 DEF See, TypesOfLog, TypeOK
  <2> QED
    BY <1>3, <2>1, TypesStay, TypesTogether DEF See
<1>4. CASE Expire
  <2>1. TypesOfLog
    BY <1>1, <1>4 DEF Expire, TypesOfLog, TypeOK
  <2> QED
    BY <1>4, <2>1, TypesStay, TypesTogether DEF Expire
<1>5. CASE Restart
  <2>1. txn' \in [Sessions -> Txn]
    BY <1>1, <1>5, NoneIn DEF Restart, TypeOK
  <2>2. \A s \in Sessions : txn'[s].step = "open" => txn'[s].n \in 1 .. MaxTxns
    BY <1>5 DEF Restart, TypeInv, Over, NoTxn
  <2>3. TypesOfTxns
    BY <2>1, <2>2 DEF TypesOfTxns
  <2>4. stmt' \in [Stmts -> Stmt]
    <3>1. NoStmt \in Stmt /\ [NoStmt EXCEPT !.step = "over"] \in Stmt
      BY NoneIn DEF Stmt
    <3> QED
      BY <1>1, <1>5, <3>1 DEF Restart, TypeOK
  <2>5. TypesOfWork
    BY <1>5, <2>4, NoneIn DEF TypesOfWork, Restart
  <2>6. TypesOfLocks
    <3>1. restarts' \in 0 .. MaxLosses
      BY <1>1, <1>5, LossesBounded DEF Restart
    <3> QED
      BY <1>1, <1>5, <3>1 DEF Restart, TypesOfLocks, TypeOK
  <2> QED
    BY <1>5, <2>3, <2>5, <2>6, TypesStay, TypesTogether DEF Restart
<1>6. CASE \E o \in Owners : Lapse(o)
  <2>1. PICK o \in Owners : Lapse(o)
    BY <1>6
  <2>2. TypesOfLocks
    BY <1>1, <2>1 DEF Lapse, Unlocked, TypesOfLocks, TypeOK
  <2> QED
    BY <2>1, <2>2, TypesStay, TypesTogether DEF Lapse
<1> QED
  BY <1>2, <1>3, <1>4, <1>5, <1>6

LEMMA TypesStart == Init => TypeInv
<1>1. 0 \in 0 .. MaxN /\ <<>> \in Seq(Entry) /\ Len(<<>>) = 0
  BY Numbers
<1>2. Init => TypeOK
  BY <1>1, NoneIn, Numbers DEF Init, TypeOK
<1> QED
  BY <1>2 DEF Init, TypeInv, NoTxn

\* Every step keeps the types.
LEMMA TypesStep == TypeInv /\ [Next]_vars => TypeInv'
<1> SUFFICES ASSUME TypeInv, [Next]_vars PROVE TypeInv'
  OBVIOUS
<1>1. CASE UNCHANGED vars
  BY <1>1, TypesStay, TypesTogether DEF vars
<1>2. CASE Next
  BY <1>2, Places, SessionTypes, StmtTypes, SlotTypes, AutoTypes, GateTypes, OtherTypes DEF Next
<1> QED
  BY <1>1, <1>2

\* Type correctness.
THEOREM TypeCorrect == Spec => []TypeOK
<1>1. TypeInv => TypeOK
  BY DEF TypeInv
<1> QED
  BY <1>1, TypesStart, TypesStep, PTL DEF Spec

-----------------------------------------------------------------------------
(* A statement, at work.                                                    *)

\* The commits that wrote row k.
Written(k) == {i \in 1 .. Len(log) : k \in log[i].keys}

\* After commit n, no writer that kept its locks wrote row k; and none under the
\* lake's lock, if it is an autocommitted write that holds it.
Alone(k, n, o) == \A i \in Written(k) : i > n => ~log[i].sure /\ (o \in Autos => log[i].how # "gated")

Busy(w) == stmt[w].step \notin {"idle", "over"}

\* What it has read as of is in its node's view, and the log goes back to it; what it holds
\* when it was granted, and when it is done.
Reads(w) ==
    LET x == stmt[w]
    IN  /\ x.at <= Here(w) /\ gone <= x.at
        /\ x.step = "granted" => x.at <= x.granted /\ x.granted <= Len(log)
        /\ x.step \in {"waiting", "granted"} => x.locking /\ x.locked
        /\ x.step \in {"waiting", "granted"} \/ (x.step = "done" /\ x.locked) => x.keys \subseteq x.held
        /\ x.read => x.locking
        /\ x.step = "done" /\ x.read /\ ~x.locked => x.keys = {}

\* Its rows' versions: its transaction's own, or the lake's as of its read point.
Rests(w) ==
    LET x == stmt[w]
    IN  x.step \in {"waiting", "granted", "done"} =>
            \A k \in x.keys : IF k \in Own(w).writes THEN x.base[k] = Own(w).base[k]
                              ELSE \A i \in Written(k) : i > x.base[k] => i > x.at

\* Its locks, while its lease lasts: nobody else has written its rows since they were
\* granted, or, in a next pass, since its read point.
Holds(w) ==
    LET x == stmt[w]
    IN  x.id \notin lapsed =>
            /\ \A k \in x.held : lock[k] = x.id
            /\ x.step = "granted" => \A k \in x.held : Alone(k, x.granted, x.id)
            /\ x.step = "working" => \A k \in x.held : Alone(k, x.at, x.id)
            /\ x.step = "done" /\ x.locked => \A k \in x.keys : Alone(k, x.at, x.id)

StmtInv(w) == Busy(w) => stmt[w].id \in Owners /\ Reads(w) /\ Rests(w) /\ Holds(w)

\* What any step leaves as it was.
Grows ==
    /\ Len(log) \in Nat /\ Len(log') \in Nat /\ Len(log) <= Len(log')
    /\ \A i \in 1 .. Len(log) : log'[i] = log[i]
    /\ seen \in Nat /\ seen' \in Nat /\ seen <= seen' /\ lapsed \subseteq lapsed'

\* What a step leaves an owner.
Steady(o) ==
    o \notin lapsed' =>
        /\ \A k \in Keys : lock[k] = o => lock'[k] = o
        /\ o \in flying => o \in flying'
        /\ \A i \in Len(log) + 1 .. Len(log') : \A k \in log'[i].keys :
               lock[k] = o /\ (o \in Autos => o \in flying) =>
                   ~log'[i].sure /\ (o \in Autos => log'[i].how # "gated")

\* The log only grows: what wrote a row before did, and what else did is new.
LEMMA WrittenGrows ==
    ASSUME Grows
    PROVE  \A k : /\ \A i \in Written(k) : i \in 1 .. Len(log) /\ i \in Written(k)' /\ log'[i] = log[i]
                  /\ \A i \in Written(k)' : i \in 1 .. Len(log') /\ (i \in Written(k) \/ i \in Len(log) + 1 .. Len(log'))
<1> TAKE k
<1>1. Len(log) \in Nat /\ Len(log') \in Nat /\ Len(log) <= Len(log') /\ \A i \in 1 .. Len(log) : log'[i] = log[i]
  BY DEF Grows
<1>2. Written(k) = {i \in 1 .. Len(log) : k \in log[i].keys}
  BY DEF Written
<1>3. Written(k)' = {i \in 1 .. Len(log') : k \in log'[i].keys}
  BY DEF Written
<1>4. \A i \in 1 .. Len(log') : i \in 1 .. Len(log) \/ i \in Len(log) + 1 .. Len(log')
  BY <1>1
<1>5. \A i \in 1 .. Len(log) : i \in 1 .. Len(log')
  BY <1>1
<1> QED
  BY <1>1, <1>2, <1>3, <1>4, <1>5

\* A row whose locks are kept stays its owner's alone.
LEMMA AloneStays ==
    ASSUME Grows, NEW o, Steady(o), o \notin lapsed', NEW k \in Keys, lock[k] = o, o \in Autos => o \in flying,
           NEW n \in Nat, Alone(k, n, o)
    PROVE  Alone(k, n, o)'
<1> SUFFICES ASSUME NEW i \in Written(k)', i > n
             PROVE  ~log'[i].sure /\ (o \in Autos => log'[i].how # "gated")
  BY DEF Alone
<1>1. CASE i \in Written(k)
  BY <1>1, WrittenGrows DEF Alone
<1>2. CASE i \in Len(log) + 1 .. Len(log')
  <2>1. k \in log'[i].keys
    BY DEF Written
  <2> QED
    BY <1>2, <2>1 DEF Steady
<1> QED
  BY <1>1, <1>2, WrittenGrows

\* Views only move up.
LEMMA HereGrows ==
    ASSUME Grows
    PROVE  /\ \A w : Visible(w) \in Nat /\ Visible(w)' \in Nat /\ Visible(w) <= Visible(w)'
           /\ \A w : Here(w) \in Nat /\ Here(w)' \in Nat /\ Here(w) <= Here(w)'
<1>1. \A w : Visible(w) \in Nat /\ Visible(w)' \in Nat /\ Visible(w) <= Visible(w)'
  BY DEF Visible, Grows
<1> QED
  BY <1>1 DEF Here

\* A statement that a step leaves alone.
LEMMA StmtFrame ==
    ASSUME TypeOK, Grows, NEW w \in Stmts, StmtInv(w), stmt'[w] = stmt[w],
           Busy(w) => /\ Own(w)' = Own(w) /\ Steady(stmt[w].id) /\ gone' <= stmt[w].at
                      /\ stmt[w].id \in Autos /\ stmt[w].id \notin lapsed /\ stmt[w].held # {}
                            /\ (stmt[w].step = "done" => stmt[w].locked) /\ stmt[w].step # "waiting" =>
                         stmt[w].id \in flying
    PROVE  StmtInv(w)'
<1> DEFINE x == stmt[w]
           o == stmt[w].id
<1> SUFFICES ASSUME Busy(w) PROVE o \in Owners /\ Reads(w)' /\ Rests(w)' /\ Holds(w)'
  BY DEF StmtInv, Busy
<1>1. x \in Stmt /\ Reads(w) /\ Rests(w) /\ Holds(w) /\ o \in Owners
  BY DEF TypeOK, StmtInv
<1>2. x.at \in Nat /\ x.granted \in Nat /\ x.keys \subseteq Keys /\ x.held \subseteq Keys /\ \A k \in Keys : x.base[k] \in Nat
  BY <1>1, StmtIs
<1>3. Reads(w)'
  <2>1. x.at <= Here(w)'
    BY <1>1, <1>2, HereGrows DEF Reads
  <2>2. x.step = "granted" => x.granted <= Len(log')
    BY <1>1, <1>2 DEF Reads, Grows
  <2> QED
    BY <1>1, <2>1, <2>2 DEF Reads
<1>4. Rests(w)'
  <2> SUFFICES ASSUME x.step \in {"waiting", "granted", "done"}, NEW k \in x.keys
               PROVE  IF k \in Own(w).writes THEN x.base[k] = Own(w).base[k]
                      ELSE \A i \in Written(k)' : i > x.base[k] => i > x.at
    BY DEF Rests
  <2>1. CASE k \in Own(w).writes
    BY <1>1, <2>1 DEF Rests
  <2>2. CASE k \notin Own(w).writes
    <3>1. \A i \in Written(k) : i > x.base[k] => i > x.at
      BY <1>1, <2>2 DEF Rests
    <3>2. x.at <= Len(log)
      BY <1>1, <1>2, HereIs DEF Reads, TypeOK
    <3>3. \A i \in Len(log) + 1 .. Len(log') : i > x.at
      BY <1>2, <3>2 DEF Grows
    <3> QED
      BY <2>2, <3>1, <3>3, WrittenGrows
  <2> QED
    BY <2>1, <2>2
<1>5. Holds(w)'
  <2> SUFFICES ASSUME o \notin lapsed'
               PROVE  /\ \A k \in x.held : lock'[k] = o
                      /\ x.step = "granted" => \A k \in x.held : Alone(k, x.granted, o)'
                      /\ x.step = "working" => \A k \in x.held : Alone(k, x.at, o)'
                      /\ x.step = "done" /\ x.locked => \A k \in x.keys : Alone(k, x.at, o)'
    <3>1. \A k, n : Alone(k, n, o)' <=> \A i \in Written(k)' : i > n => ~log'[i].sure /\ (o \in Autos => log'[i].how # "gated")
      BY DEF Alone
    <3> QED
      BY <3>1 DEF Holds, Alone
  <2>1. o \notin lapsed /\ Steady(o)
    BY DEF Grows
  <2>2. \A k \in x.held : lock[k] = o /\ lock'[k] = o
    BY <1>1, <1>2, <2>1 DEF Holds, Steady
  <2>3. ASSUME NEW k \in x.held, NEW n \in Nat, Alone(k, n, o), x.step = "done" => x.locked, x.step # "waiting"
        PROVE  Alone(k, n, o)'
    BY <1>2, <2>1, <2>2, <2>3, AloneStays
  <2>4. x.step = "granted" => \A k \in x.held : Alone(k, x.granted, o)'
    BY <1>1, <1>2, <2>1, <2>3 DEF Holds
  <2>5. x.step = "working" => \A k \in x.held : Alone(k, x.at, o)'
    BY <1>1, <1>2, <2>1, <2>3 DEF Holds
  <2>6. x.step = "done" /\ x.locked => \A k \in x.keys : Alone(k, x.at, o)'
    <3> HAVE x.step = "done" /\ x.locked
    <3> TAKE k \in x.keys
    <3>1. k \in x.held /\ Alone(k, x.at, o)
      BY <1>1, <2>1 DEF Holds, Reads
    <3> QED
      BY <1>2, <2>3, <3>1
  <2> QED
    BY <2>2, <2>4, <2>5, <2>6
<1> QED
  BY <1>1, <1>3, <1>4, <1>5

\* A step of its own that it goes on after.
LEMMA WorkedIs ==
    ASSUME TypeOK, NEW w \in Stmts, NEW ks \in SUBSET Keys
    PROVE  LET x == stmt[w]
               y == Worked(w, ks)
           IN  /\ y.keys = ks /\ y.held = x.held \cup ks /\ y.at = x.at /\ y.id = x.id /\ y.locking = x.locking
               /\ y.read = x.read /\ y.rc = x.rc /\ y.locked
               /\ \A k \in ks : y.base[k] = BaseAt(w, k, x.at)
BY DEF Worked, TypeOK, Stmt

\* A version worked out as of `at`.
LEMMA BaseIs ==
    ASSUME TypeOK, NEW w \in Stmts, NEW k \in Keys, NEW n \in Commits
    PROVE  IF k \in Own(w).writes THEN BaseAt(w, k, n) = Own(w).base[k]
           ELSE \A i \in Written(k) : i > BaseAt(w, k, n) => i > n
BY VersionIs DEF BaseAt, Written

\* A pass that stands: its rows are those it holds, or none are locked.
LEMMA PassIs ==
    ASSUME TypeInv, NEW w \in Stmts, Pass(w)
    PROVE  /\ UNCHANGED <<log, gone, seen, lock, flying, over, lapsed, txn, asked, gate, restarts>>
           /\ stmt[w].step = "working" /\ stmt'[w].step = "done" /\ stmt'[w].at = stmt[w].at /\ stmt'[w].id = stmt[w].id
           /\ stmt'[w].read = stmt[w].read /\ stmt'[w].rc = stmt[w].rc /\ (stmt'[w].locked => stmt[w].held # {})
<1> DEFINE x == stmt[w]
<1>1. TypeOK /\ x \in Stmt
  BY DEF TypeInv, TypeOK
<1>2. PICK ks \in SUBSET Keys :
        /\ ~x.locking \/ ks = {} \/ (x.held # {} /\ ks \subseteq x.held)
        /\ Set(w, [Worked(w, ks) EXCEPT !.step = "done", !.held = x.held, !.locked = ~(~x.locking \/ ks = {})])
  BY DEF Pass
<1> DEFINE y == [Worked(w, ks) EXCEPT !.step = "done", !.held = x.held, !.locked = ~(~x.locking \/ ks = {})]
<1>3. Worked(w, ks) \in Stmt
  BY <1>1, WorkedType
<1>4. y.step = "done" /\ y.locked = ~(~x.locking \/ ks = {}) /\ y.id = Worked(w, ks).id /\ y.read = Worked(w, ks).read
      /\ y.rc = Worked(w, ks).rc /\ y.at = Worked(w, ks).at
  BY <1>3 DEF Stmt
<1>5. stmt'[w] = y
  BY <1>1, <1>2 DEF Set, TypeOK
<1> HIDE DEF y
<1>6. y.id = x.id /\ y.read = x.read /\ y.rc = x.rc /\ y.at = x.at
  BY <1>1, <1>4, WorkedIs
<1>7. UNCHANGED <<log, gone, seen, lock, flying, over, lapsed, txn, asked, gate, restarts>> /\ x.step = "working"
  BY DEF Pass
<1>8. y.locked => x.held # {}
  BY <1>2, <1>4
<1> QED
  BY <1>4, <1>5, <1>6, <1>7, <1>8

\* A pass keeps what a statement at work has.
LEMMA PassKeeps ==
    ASSUME TypeInv, NEW w \in Stmts, StmtInv(w), Pass(w)
    PROVE  StmtInv(w)'
<1> DEFINE x == stmt[w]
<1>1. TypeOK /\ x \in Stmt /\ x.step = "working" /\ Reads(w) /\ Holds(w) /\ x.id \in Owners
  BY DEF TypeInv, TypeOK, StmtInv, Busy, Pass
<1>2. PICK ks \in SUBSET Keys :
          /\ ~x.locking \/ ks = {} \/ (x.held # {} /\ ks \subseteq x.held)
          /\ Set(w, [Worked(w, ks) EXCEPT !.step = "done", !.held = x.held, !.locked = ~(~x.locking \/ ks = {})])
  BY DEF Pass
<1> DEFINE y == [Worked(w, ks) EXCEPT !.step = "done", !.held = x.held, !.locked = ~(~x.locking \/ ks = {})]
<1>3. Worked(w, ks) \in Stmt
  BY <1>1, WorkedType
<1>4. stmt'[w] = y
  BY <1>1, <1>2 DEF Set, TypeOK
<1>5. /\ y.step = "done" /\ y.held = x.held /\ y.locked = ~(~x.locking \/ ks = {}) /\ y.keys = ks /\ y.at = x.at
      /\ y.id = x.id /\ y.read = x.read /\ y.locking = x.locking
      /\ \A k \in ks : y.base[k] = BaseAt(w, k, x.at)
  <2>1. /\ y.step = "done" /\ y.held = x.held /\ y.locked = ~(~x.locking \/ ks = {})
        /\ y.keys = Worked(w, ks).keys /\ y.at = Worked(w, ks).at /\ y.id = Worked(w, ks).id
        /\ y.read = Worked(w, ks).read /\ y.locking = Worked(w, ks).locking /\ y.base = Worked(w, ks).base
    BY <1>3 DEF Stmt
  <2> HIDE DEF y
  <2> QED
    BY <1>1, <2>1, WorkedIs
<1> HIDE DEF y
<1>6. UNCHANGED <<log, gone, seen, lock, flying, over, lapsed, txn, asked, gate, restarts>>
  BY DEF Pass
<1>7. Own(w)' = Own(w) /\ Here(w)' = Here(w) /\ \A k : Written(k)' = Written(k)
  BY <1>6 DEF Own, Here, Visible, Written
<1>8. \A k, n, o : Alone(k, n, o)' <=> Alone(k, n, o)
  BY <1>6, <1>7 DEF Alone
<1>9. x.at \in Commits /\ (y.locked => ks \subseteq x.held /\ x.locking) /\ (x.locking /\ ~y.locked => ks = {})
  BY <1>1, <1>2, <1>5, StmtIs
<1>10. Reads(w)'
  <2>1. x.at <= Here(w) /\ gone <= x.at /\ (x.read => x.locking)
    BY <1>1 DEF Reads
  <2> QED
    BY <1>4, <1>5, <1>6, <1>7, <1>9, <2>1 DEF Reads
<1>11. Rests(w)'
  <2>1. \A k \in ks : IF k \in Own(w).writes THEN y.base[k] = Own(w).base[k]
                      ELSE \A i \in Written(k) : i > y.base[k] => i > y.at
    BY <1>1, <1>5, <1>9, BaseIs
  <2> QED
    BY <1>4, <1>5, <1>7, <2>1 DEF Rests
<1>12. Holds(w)'
  BY <1>1, <1>4, <1>5, <1>6, <1>8, <1>9 DEF Holds
<1> QED
  BY <1>1, <1>4, <1>5, <1>10, <1>11, <1>12 DEF StmtInv

\* A read point that moves up.
LEMMA AloneLater ==
    ASSUME NEW k, NEW o, NEW m \in Nat, NEW n \in Nat, m <= n, Len(log) \in Nat, Alone(k, m, o)
    PROVE  Alone(k, n, o)
<1>1. \A i \in Written(k) : i \in Nat
  BY DEF Written
<1> QED
  BY <1>1 DEF Alone

\* So does a lookup that found its row newer, which reads again,
LEMMA MovedKeeps ==
    ASSUME TypeInv, NEW w \in Stmts, StmtInv(w), Moved(w), stmt[w].rc
    PROVE  StmtInv(w)' /\ stmt'[w] = [stmt[w] EXCEPT !.at = Here(w)]
<1> DEFINE x == stmt[w]
           y == [x EXCEPT !.at = Here(w)]
<1>1. TypeOK /\ x \in Stmt /\ x.step = "working" /\ Reads(w) /\ Holds(w) /\ x.id \in Owners
  BY DEF TypeInv, TypeOK, StmtInv, Busy, Moved
<1>2. stmt'[w] = y /\ UNCHANGED <<log, gone, seen, lock, flying, over, lapsed, txn, asked, gate, restarts>>
  BY <1>1 DEF Moved, Set, TypeOK
<1>3. /\ y.step = "working" /\ y.held = x.held /\ y.locked = x.locked /\ y.keys = x.keys /\ y.at = Here(w)
      /\ y.id = x.id /\ y.read = x.read /\ y.locking = x.locking
  BY <1>1 DEF Stmt
<1> HIDE DEF y
<1>4. Own(w)' = Own(w) /\ Here(w)' = Here(w) /\ \A k : Written(k)' = Written(k)
  BY <1>2 DEF Own, Here, Visible, Written
<1>5. \A k, n, o : Alone(k, n, o)' <=> Alone(k, n, o)
  BY <1>2, <1>4 DEF Alone
<1>6. x.at \in Nat /\ x.held \subseteq Keys /\ Here(w) \in Nat /\ gone \in Nat /\ Len(log) \in Nat
  BY <1>1, StmtIs, HereIs DEF TypeOK
<1>7. x.at <= Here(w) /\ gone <= Here(w) /\ (x.read => x.locking)
  BY <1>1, <1>6 DEF Reads
<1>8. Reads(w)'
  BY <1>2, <1>3, <1>4, <1>6, <1>7 DEF Reads
<1>9. Rests(w)'
  BY <1>2, <1>3 DEF Rests
<1>10. x.id \notin lapsed => \A k \in x.held : lock[k] = x.id /\ Alone(k, Here(w), x.id)
  <2> HAVE x.id \notin lapsed
  <2> TAKE k \in x.held
  <2>1. lock[k] = x.id /\ Alone(k, x.at, x.id)
    BY <1>1 DEF Holds
  <2> QED
    BY <1>6, <1>7, <2>1, AloneLater
<1>11. Holds(w)'
  BY <1>2, <1>3, <1>5, <1>10 DEF Holds
<1> QED
  BY <1>1, <1>2, <1>3, <1>8, <1>9, <1>11 DEF StmtInv, y

\* a grant of more rows,
LEMMA GrantIs ==
    ASSUME TypeInv, NEW w \in Stmts, Grant(w)
    PROVE  \E ks \in SUBSET Keys :
               /\ \A k \in ks : lock[k] \in {Nobody, stmt[w].id}
               /\ ks \notin SUBSET stmt[w].held
               /\ lock' = [k \in Keys |-> IF k \in ks THEN stmt[w].id ELSE lock[k]]
               /\ LET y == stmt'[w]
                  IN  /\ y \in Stmt /\ y.step = (IF w \in Autos THEN "waiting" ELSE "granted")
                      /\ y.granted = (IF w \in Autos THEN 0 ELSE Len(log))
                      /\ y.keys = ks /\ y.held = stmt[w].held \cup ks /\ y.at = stmt[w].at /\ y.id = stmt[w].id
                      /\ y.locking = stmt[w].locking /\ y.read = stmt[w].read /\ y.rc = stmt[w].rc /\ y.locked
                      /\ \A k \in ks : y.base[k] = BaseAt(w, k, stmt[w].at)
<1>1. TypeOK /\ stmt[w] \in Stmt
  BY DEF TypeInv, TypeOK
<1>2. PICK ks \in (SUBSET Keys) \ (SUBSET stmt[w].held) :
          /\ Grantable(stmt[w].id, ks)
          /\ lock' = [k \in Keys |-> IF k \in ks THEN stmt[w].id ELSE lock[k]]
          /\ Set(w, [Worked(w, ks) EXCEPT !.step = IF w \in Autos THEN "waiting" ELSE "granted",
                                          !.granted = IF w \in Autos THEN 0 ELSE Len(log)])
  BY DEF Grant
<1> DEFINE y == [Worked(w, ks) EXCEPT !.step = IF w \in Autos THEN "waiting" ELSE "granted",
                                      !.granted = IF w \in Autos THEN 0 ELSE Len(log)]
<1>3. Worked(w, ks) \in Stmt /\ Len(log) \in Commits
  BY <1>1, WorkedType, Numbers DEF TypeOK
<1>4. /\ y \in Stmt /\ y.step = (IF w \in Autos THEN "waiting" ELSE "granted")
      /\ y.granted = (IF w \in Autos THEN 0 ELSE Len(log))
      /\ y.keys = Worked(w, ks).keys /\ y.at = Worked(w, ks).at /\ y.id = Worked(w, ks).id
      /\ y.held = Worked(w, ks).held /\ y.rc = Worked(w, ks).rc /\ (y.locked <=> Worked(w, ks).locked)
      /\ y.read = Worked(w, ks).read /\ y.locking = Worked(w, ks).locking /\ y.base = Worked(w, ks).base
  BY <1>3, Numbers DEF Stmt
<1>5. stmt'[w] = y
  BY <1>1, <1>2 DEF Set, TypeOK
<1> HIDE DEF y
<1>6. ks \in SUBSET Keys /\ ks \notin SUBSET stmt[w].held /\ \A k \in ks : lock[k] \in {Nobody, stmt[w].id}
  BY <1>2 DEF Grantable
<1>7. /\ y.keys = ks /\ y.held = stmt[w].held \cup ks /\ y.at = stmt[w].at /\ y.id = stmt[w].id
      /\ y.locking = stmt[w].locking /\ y.read = stmt[w].read /\ y.rc = stmt[w].rc /\ y.locked
      /\ \A k \in ks : y.base[k] = BaseAt(w, k, stmt[w].at)
  BY <1>1, <1>4, <1>6, WorkedIs
<1> QED
  BY <1>2, <1>4, <1>5, <1>6, <1>7

\* which nobody else holds from here on,
LEMMA GrantKeeps ==
    ASSUME TypeInv, NEW w \in Stmts, StmtInv(w), Grant(w)
    PROVE  StmtInv(w)'
<1> DEFINE x == stmt[w]
           y == stmt'[w]
<1>1. TypeOK /\ x \in Stmt /\ x.step = "working" /\ x.locking /\ Reads(w) /\ Holds(w) /\ x.id \in Owners
  BY DEF TypeInv, TypeOK, StmtInv, Busy, Grant
<1>2. PICK ks \in SUBSET Keys :
               /\ lock' = [k \in Keys |-> IF k \in ks THEN x.id ELSE lock[k]]
               /\ y.step = (IF w \in Autos THEN "waiting" ELSE "granted")
               /\ y.granted = (IF w \in Autos THEN 0 ELSE Len(log))
               /\ y.keys = ks /\ y.held = x.held \cup ks /\ y.at = x.at /\ y.id = x.id
               /\ y.locking = x.locking /\ y.read = x.read /\ y.locked
               /\ \A k \in ks : y.base[k] = BaseAt(w, k, x.at)
  BY GrantIs, ZenonT(60)
<1>3. UNCHANGED <<log, gone, seen, flying, over, lapsed, txn, asked, gate, restarts>>
  BY DEF Grant
<1> HIDE DEF y
<1>4. Own(w)' = Own(w) /\ Here(w)' = Here(w) /\ \A k : Written(k)' = Written(k)
  BY <1>3 DEF Own, Here, Visible, Written
<1>5. \A k, n, o : Alone(k, n, o)' <=> Alone(k, n, o)
  BY <1>3, <1>4 DEF Alone
<1>6. x.at \in Nat /\ x.at \in Commits /\ x.held \subseteq Keys /\ Here(w) \in 0 .. Len(log) /\ Len(log) \in Nat
  BY <1>1, StmtIs, HereIs DEF TypeOK
<1>7. x.at <= Here(w) /\ gone <= x.at /\ x.at <= Len(log)
  BY <1>1, <1>6 DEF Reads
<1>8. \A k, o : Alone(k, Len(log), o)
  BY <1>6 DEF Alone, Written
<1>9. Reads(w)'
  BY <1>1, <1>2, <1>3, <1>4, <1>6, <1>7 DEF Reads, y
<1>10. Rests(w)'
  <2>1. \A k \in ks : IF k \in Own(w).writes THEN y.base[k] = Own(w).base[k]
                      ELSE \A i \in Written(k) : i > y.base[k] => i > y.at
    BY <1>1, <1>2, <1>6, BaseIs
  <2> QED
    BY <1>2, <1>4, <2>1 DEF Rests, y
<1>11. Holds(w)'
  <2>1. x.id \notin lapsed => \A k \in x.held \cup ks : lock'[k] = x.id
    BY <1>1, <1>2, <1>6 DEF Holds
  <2> QED
    BY <1>2, <1>3, <1>5, <1>8, <2>1 DEF Holds, y
<1> QED
  BY <1>1, <1>2, <1>9, <1>10, <1>11 DEF StmtInv, y

\* None of its rows moved: they rest on what it holds at the commit it was granted them.
LEMMA RowsRested ==
    ASSUME TypeOK, NEW w \in Stmts, Reads(w), stmt[w].step = "granted", Here(w) >= stmt[w].granted,
           RowsMoved(w) = {}, NEW k \in stmt[w].keys, NEW i \in Written(k), i > stmt[w].at
    PROVE  i > stmt[w].granted /\ i > Here(w)
<1>1. stmt[w].at \in Nat /\ stmt[w].granted \in Nat /\ Here(w) \in Nat /\ gone \in Nat /\ i \in Nat
  BY StmtIs, HereIs DEF TypeOK, Written
<1>2. gone <= stmt[w].at
  BY DEF Reads
<1>3. CASE i <= Here(w)
  <2>1. i \in stmt[w].at + 1 .. Here(w) /\ i > gone /\ k \in log[i].keys
    BY <1>1, <1>2, <1>3 DEF Written
  <2>2. Since(k, stmt[w].at, Here(w)) # {}
    BY <2>1 DEF Since
  <2> QED
    BY <2>2 DEF RowsMoved
<1> QED
  BY <1>1, <1>3

\* and the check for rows that moved since the pass.
LEMMA CheckKeeps ==
    ASSUME TypeInv, NEW w \in Stmts, StmtInv(w), Check(w), ~Fails(w)
    PROVE  /\ StmtInv(w)'
           /\ UNCHANGED <<log, gone, seen, lock, flying, over, lapsed, txn, asked, gate, restarts>>
           /\ \/ /\ RowsMoved(w) = {}
                 /\ stmt'[w] = [stmt[w] EXCEPT !.step = "done", !.at = stmt[w].granted, !.granted = 0]
              \/ /\ stmt[w].rc
                 /\ stmt'[w] = [stmt[w] EXCEPT !.step = "working", !.at = stmt[w].granted, !.granted = 0,
                                               !.keys = {}, !.base = NoBase]
<1> DEFINE x == stmt[w]
           y == [x EXCEPT !.step = "done", !.at = x.granted, !.granted = 0]
           z == [x EXCEPT !.step = "working", !.at = x.granted, !.granted = 0, !.keys = {}, !.base = NoBase]
<1>1. TypeOK /\ x \in Stmt /\ x.step = "granted" /\ Here(w) >= x.granted /\ Reads(w) /\ Rests(w) /\ Holds(w) /\ x.id \in Owners
  BY DEF TypeInv, TypeOK, StmtInv, Busy, Check
<1>2. UNCHANGED <<log, gone, seen, lock, flying, over, lapsed, txn, asked, gate, restarts>>
      /\ ((RowsMoved(w) = {} /\ stmt'[w] = y) \/ (x.rc /\ stmt'[w] = z))
  <2> HIDE DEF y, z
  <2>1. UNCHANGED <<log, gone, seen, lapsed, asked, gate, restarts>>
    BY DEF Check
  <2>2. \/ RowsMoved(w) = {} /\ Set(w, y) /\ UNCHANGED <<lock, flying, over, txn>>
        \/ x.rc /\ Set(w, z) /\ UNCHANGED <<lock, flying, over, txn>>
    BY DEF Check, y, z
  <2>3. \A r : Set(w, r) => stmt'[w] = r
    BY <1>1 DEF Set, TypeOK
  <2> QED
    BY <2>1, <2>2, <2>3
<1>3. /\ y.step = "done" /\ y.held = x.held /\ y.locked = x.locked /\ y.keys = x.keys /\ y.at = x.granted
      /\ y.id = x.id /\ y.read = x.read /\ y.locking = x.locking /\ y.base = x.base
  BY <1>1 DEF Stmt
<1>4. /\ z.step = "working" /\ z.held = x.held /\ z.locked = x.locked /\ z.keys = {} /\ z.at = x.granted
      /\ z.id = x.id /\ z.read = x.read /\ z.locking = x.locking
  BY <1>1 DEF Stmt
<1> HIDE DEF y, z
<1>5. Own(w)' = Own(w) /\ Here(w)' = Here(w) /\ \A k : Written(k)' = Written(k)
  BY <1>2 DEF Own, Here, Visible, Written
<1>6. \A k, n, o : Alone(k, n, o)' <=> Alone(k, n, o)
  BY <1>2, <1>5 DEF Alone
<1>7. x.at \in Nat /\ x.granted \in Nat /\ x.held \subseteq Keys /\ Here(w) \in Nat /\ gone \in Nat
  BY <1>1, StmtIs, HereIs DEF TypeOK
<1>8. x.granted <= Here(w) /\ gone <= x.granted /\ x.keys \subseteq x.held /\ x.locking /\ x.locked
  BY <1>1, <1>7 DEF Reads
<1>9. x.id \notin lapsed => \A k \in x.held : lock[k] = x.id /\ Alone(k, x.granted, x.id)
  BY <1>1 DEF Holds
<1>10. CASE RowsMoved(w) = {} /\ stmt'[w] = y
  <2>1. Reads(w)'
    BY <1>2, <1>3, <1>5, <1>8, <1>10 DEF Reads
  <2>2. Rests(w)'
    <3>1. \A k \in x.keys : IF k \in Own(w).writes THEN x.base[k] = Own(w).base[k]
                            ELSE \A i \in Written(k) : i > x.base[k] => i > x.granted
      BY <1>1, <1>10, RowsRested DEF Rests
    <3> QED
      BY <1>3, <1>5, <1>10, <3>1 DEF Rests
  <2>3. Holds(w)'
    BY <1>2, <1>3, <1>6, <1>8, <1>9, <1>10 DEF Holds
  <2> QED
    BY <1>1, <1>2, <1>3, <1>10, <2>1, <2>2, <2>3 DEF StmtInv, y
<1>11. CASE x.rc /\ stmt'[w] = z
  <2>1. Reads(w)'
    BY <1>2, <1>4, <1>5, <1>8, <1>11 DEF Reads
  <2>2. Rests(w)'
    BY <1>4, <1>11 DEF Rests
  <2>3. Holds(w)'
    BY <1>2, <1>4, <1>6, <1>9, <1>11 DEF Holds
  <2> QED
    BY <1>1, <1>2, <1>4, <1>11, <2>1, <2>2, <2>3 DEF StmtInv, z
<1> QED
  BY <1>2, <1>10, <1>11

\* What a step does to a statement.
Goes(v) == \/ v \in Slots /\ Start(v)
           \/ v \in Autos /\ (StartAuto(v) \/ Enter(v))
           \/ Pass(v) \/ (Moved(v) /\ stmt[v].rc) \/ Grant(v) \/ (Check(v) /\ ~Fails(v))

\* A statement's step leaves the others' alone.
LEMMA SetLeaves ==
    ASSUME TypeOK, NEW w \in Stmts
    PROVE  /\ \A x : Set(w, x) => stmt'[w] = x /\ \A v \in Stmts : v # w => stmt'[v] = stmt[v]
           /\ Fails(w) => stmt'[w].step \in {"idle", "over"} /\ \A v \in Stmts : v # w => stmt'[v] = stmt[v]
<1>1. \A x : Set(w, x) => stmt'[w] = x /\ \A v \in Stmts : v # w => stmt'[v] = stmt[v]
  BY DEF Set, TypeOK
<1>2. NoStmt.step = "idle" /\ [NoStmt EXCEPT !.step = "over"].step = "over"
  BY DEF NoStmt
<1>3. Fails(w) => Set(w, NoStmt) \/ Set(w, [NoStmt EXCEPT !.step = "over"])
  BY DEF Fails
<1> QED
  BY <1>1, <1>2, <1>3

\* A step ends a statement, leaves it, or is its own.
LEMMA StmtMoves ==
    ASSUME TypeOK, Next, NEW v \in Stmts
    PROVE  ~Busy(v)' \/ stmt'[v] = stmt[v] \/ Goes(v)
<1>1. NoStmt.step = "idle" /\ [NoStmt EXCEPT !.step = "over"].step = "over"
  BY DEF NoStmt
<1>2. CASE UNCHANGED stmt
  BY <1>2
<1>3. CASE \E w \in Slots : Start(w) \/ Keep(w) \/ KeepLocks(w)
  <2>1. PICK w \in Slots : Start(w) \/ Keep(w) \/ KeepLocks(w)
    BY <1>3
  <2>2. w \in Stmts
    BY Places
  <2>3. CASE Start(w)
    <3>1. CASE v = w
      BY <2>1, <2>3, <3>1 DEF Goes
    <3>2. CASE v # w
      <4>1. \E x : Set(w, x)
        BY <2>3 DEF Start
      <4> QED
        BY <2>2, <3>2, <4>1, SetLeaves
    <3> QED
      BY <3>1, <3>2
  <2>4. CASE Keep(w)
    <3>1. Set(w, NoStmt) \/ Fails(w)
      BY <2>4 DEF Keep
    <3> QED
      BY <1>1, <2>2, <3>1, SetLeaves DEF Busy
  <2>5. CASE KeepLocks(w)
    BY <1>1, <2>2, <2>5, SetLeaves DEF KeepLocks, Busy
  <2> QED
    BY <2>1, <2>3, <2>4, <2>5
<1>4. CASE \E w \in Autos : StartAuto(w) \/ Enter(w) \/ Land(w)
  <2>1. PICK w \in Autos : StartAuto(w) \/ Enter(w) \/ Land(w)
    BY <1>4
  <2>2. w \in Stmts
    BY Places
  <2>3. CASE StartAuto(w)
    <3>1. CASE v = w
      BY <2>1, <2>3, <3>1 DEF Goes
    <3>2. CASE v # w
      <4>1. \E x : Set(w, x)
        BY <2>3 DEF StartAuto
      <4> QED
        BY <2>2, <3>2, <4>1, SetLeaves
    <3> QED
      BY <3>1, <3>2
  <2>4. CASE Enter(w)
    BY <2>1, <2>2, <2>4, SetLeaves DEF Enter, Goes
  <2>5. CASE Land(w)
    BY <1>1, <2>2, <2>5, SetLeaves, ZenonT(60) DEF Land, Busy
  <2> QED
    BY <2>1, <2>3, <2>4, <2>5
<1>5. CASE \E w \in Stmts : Pass(w) \/ Moved(w) \/ Grant(w) \/ Refuse(w) \/ Check(w)
  <2>1. PICK w \in Stmts : Pass(w) \/ Moved(w) \/ Grant(w) \/ Refuse(w) \/ Check(w)
    BY <1>5
  <2>2. CASE Fails(w)
    BY <2>2, SetLeaves DEF Busy
  <2>3. CASE ~Fails(w)
    <3>1. Goes(w)
      BY <2>1, <2>3 DEF Goes, Moved, Refuse
    <3>2. \E x : Set(w, x)
      BY <2>1, <2>3 DEF Pass, Moved, Grant, Refuse, Check
    <3> QED
      BY <3>1, <3>2, SetLeaves
  <2> QED
    BY <2>2, <2>3
<1>6. CASE Restart
  BY <1>1, <1>6 DEF Restart, Busy
<1>7. CASE \E s \in Sessions : Begin(s) \/ Rollback(s) \/ Savepoint(s) \/ RollbackTo(s) \/ Commit(s)
  BY <1>2, <1>7 DEF Begin, Rollback, Savepoint, RollbackTo, Commit
<1>8. CASE \/ \E c \in asked \cup {gate.c} : SendFails(c)
           \/ \E k \in Keys : Load(k) \/ Close(Change(k))
           \/ \E c \in asked : Close(c)
           \/ PassCheck \/ Conflict \/ GateTimeout \/ Flush
           \/ See \/ Expire
           \/ \E o \in Owners : Lapse(o)
  BY <1>2, <1>8 DEF SendFails, Load, Close, PassCheck, Conflict, GateTimeout, Flush, See, Expire, Lapse
<1> QED
  BY <1>3, <1>4, <1>5, <1>6, <1>7, <1>8 DEF Next

-----------------------------------------------------------------------------
(* What a step leaves an owner.                                             *)

\* No step takes anything from the log, a view or what lapsed.
LEMMA NextGrows ==
    ASSUME TypeInv, Next
    PROVE  Grows
<1>1. /\ log \in Seq(Entry) /\ Len(log) \in Nat /\ seen \in Nat
      /\ \A e : Sequenced(e) => log' = Append(log, e)
  BY DEF TypeInv, TypeOK, Sequenced
<1>2. CASE UNCHANGED <<log, seen>> /\ lapsed \subseteq lapsed'
  BY <1>1, <1>2 DEF Grows
<1>3. ASSUME NEW e \in Entry, log' = Append(log, e), UNCHANGED <<seen, lapsed>> PROVE Grows
  <2>1. Len(log') = Len(log) + 1 /\ \A i \in 1 .. Len(log) : log'[i] = log[i]
    BY <1>1, <1>3
  <2> QED
    BY <1>1, <1>3, <2>1 DEF Grows
<1>4. CASE \E w \in Autos : Land(w)
  <2>1. PICK w \in Autos : Land(w)
    BY <1>4
  <2>2. stmt[w] \in Stmt
    BY Places DEF TypeInv, TypeOK
  <2>3. [keys |-> stmt[w].keys, how |-> "auto", sure |-> stmt[w].locked /\ w \notin lapsed] \in Entry
    BY <2>2, StmtIs DEF Entry
  <2> QED
    BY <1>1, <1>3, <2>1, <2>3 DEF Land
<1>5. CASE \E k \in Keys : Load(k)
  <2>1. PICK k \in Keys : Load(k)
    BY <1>5
  <2>2. [keys |-> {k}, how |-> "blind", sure |-> FALSE] \in Entry
    BY DEF Entry
  <2> QED
    BY <1>1, <1>3, <2>1, <2>2 DEF Load
<1>6. CASE Flush
  <2>1. gate.c.kept \in Kept
    BY DEF TypeInv, TypeOK, Gate, Request
  <2>2. [keys |-> gate.c.kept.writes, how |-> "gated",
         sure |-> gate.c.id # Nobody /\ gate.c.kept.locked /\ gate.c.id \notin lapsed] \in Entry
    BY <2>1, KeptIs DEF Entry
  <2> QED
    BY <1>1, <1>3, <1>6, <2>2 DEF Flush
<1>7. CASE See
  BY <1>1, <1>7 DEF See, Grows
<1>8. CASE \E s \in Sessions : Begin(s) \/ Rollback(s) \/ Savepoint(s) \/ RollbackTo(s) \/ Commit(s)
  BY <1>2, <1>8 DEF Begin, Rollback, Savepoint, RollbackTo, Commit
<1>9. CASE \/ \E w \in Slots : Start(w) \/ Keep(w) \/ KeepLocks(w)
           \/ \E w \in Autos : StartAuto(w) \/ Enter(w)
           \/ \E w \in Stmts : Pass(w) \/ Moved(w) \/ Grant(w) \/ Refuse(w) \/ Check(w)
  BY <1>2, <1>9, ZenonT(60) DEF Start, Keep, KeepLocks, StartAuto, Enter, Pass, Moved, Grant, Refuse, Check
<1>10. CASE \/ \E c \in asked \cup {gate.c} : SendFails(c)
            \/ \E k \in Keys : Close(Change(k))
            \/ \E c \in asked : Close(c)
            \/ PassCheck \/ Conflict \/ GateTimeout \/ Expire \/ Restart
            \/ \E o \in Owners : Lapse(o)
  BY <1>2, <1>10 DEF SendFails, Close, PassCheck, Conflict, GateTimeout, Expire, Restart, Lapse
<1> QED
  BY <1>4, <1>5, <1>6, <1>7, <1>8, <1>9, <1>10 DEF Next

\* Who lets its locks go in this step.
Lets(o) ==
    \/ o \in Autos /\ ~Busy(o)'
    \/ \E s \in Sessions : txn[s].step = "open" /\ o = IdOf(s) /\ (Rollback(s) \/ Commit(s))
    \/ gate.step # "free" /\ gate.c.id = o /\ Leave /\ (Conflict \/ GateTimeout \/ Flush)

LocksStay(o) == (\A k \in Keys : lock[k] = o => lock'[k] = o) /\ (o \in flying => o \in flying')

\* One owner's release is no other's.
LEMMA ReleaseLeaves ==
    ASSUME NEW p, NEW o, Release(p), o # p
    PROVE  LocksStay(o)
BY DEF Release, Unlocked, LocksStay

\* No locks go but those of who lets them go.
LEMMA LocksLeft ==
    ASSUME TypeInv, Next, NEW o \in Owners, o \notin lapsed', ~Lets(o)
    PROVE  LocksStay(o)
<1>1. TypeOK /\ o # Nobody /\ (UNCHANGED <<lock, flying>> => LocksStay(o))
  BY Places DEF TypeInv, LocksStay
<1>2. CASE \E s \in Sessions : Begin(s) \/ Rollback(s) \/ Savepoint(s) \/ RollbackTo(s) \/ Commit(s)
  <2>1. PICK s \in Sessions : Begin(s) \/ Rollback(s) \/ Savepoint(s) \/ RollbackTo(s) \/ Commit(s)
    BY <1>2
  <2>2. CASE UNCHANGED <<lock, flying>>
    BY <1>1, <2>2
  <2>3. CASE Rollback(s) /\ Release(IdOf(s))
    BY <2>3, ReleaseLeaves DEF Lets, Rollback
  <2>4. CASE Commit(s) /\ Release(IdOf(s))
    BY <2>4, ReleaseLeaves DEF Lets, Commit
  <2> QED
    BY <2>1, <2>2, <2>3, <2>4 DEF Begin, Rollback, Savepoint, RollbackTo, Commit, LetGo
<1>3. CASE \E c \in asked \cup {gate.c} : SendFails(c)
  BY <1>3, ReleaseLeaves DEF SendFails
<1>4. CASE \E w \in Slots : Start(w) \/ Keep(w) \/ KeepLocks(w)
  <2>1. PICK w \in Slots : Start(w) \/ Keep(w) \/ KeepLocks(w)
    BY <1>4
  <2> QED
    BY <1>1, <2>1, Places DEF Start, Keep, KeepLocks, Fails
<1>5. CASE \E w \in Autos : StartAuto(w) \/ Enter(w) \/ Land(w)
  <2>1. PICK w \in Autos : StartAuto(w) \/ Enter(w) \/ Land(w)
    BY <1>5
  <2>2. CASE Land(w)
    <3>1. CASE w = o
      <4>1. ~Busy(w)'
        BY <1>1, <2>2, SetLeaves, Places DEF Land, Busy, NoStmt
      <4> QED
        BY <3>1, <4>1 DEF Lets
    <3>2. CASE w # o
      BY <1>1, <2>2, <3>2, ReleaseLeaves DEF Land
    <3> QED
      BY <3>1, <3>2
  <2>3. CASE StartAuto(w)
    BY <1>1, <2>3 DEF StartAuto
  <2>4. CASE Enter(w)
    BY <2>4 DEF Enter, LocksStay
  <2> QED
    BY <2>1, <2>2, <2>3, <2>4
<1>6. CASE \E w \in Stmts : Pass(w) \/ Moved(w) \/ Grant(w) \/ Refuse(w) \/ Check(w)
  <2>1. PICK w \in Stmts : Pass(w) \/ Moved(w) \/ Grant(w) \/ Refuse(w) \/ Check(w)
    BY <1>6
  <2>2. CASE Grant(w)
    <3>1. PICK ks \in SUBSET Keys : /\ \A k \in ks : lock[k] \in {Nobody, stmt[w].id}
                                    /\ lock' = [k \in Keys |-> IF k \in ks THEN stmt[w].id ELSE lock[k]]
      BY <2>2, GrantIs
    <3>2. flying' = flying
      BY <2>2 DEF Grant
    <3> QED
      BY <1>1, <3>1, <3>2 DEF LocksStay
  <2>3. CASE Fails(w)
    <3>1. CASE w \in Autos /\ w = o
      BY <1>1, <2>3, <3>1, SetLeaves DEF Lets, Busy
    <3>2. CASE w \in Autos /\ w # o
      BY <2>3, <3>2, ReleaseLeaves DEF Fails
    <3>3. CASE w \notin Autos
      BY <1>1, <2>3, <3>3 DEF Fails
    <3> QED
      BY <3>1, <3>2, <3>3
  <2>4. CASE UNCHANGED <<lock, flying>>
    BY <1>1, <2>4
  <2> QED
    BY <2>1, <2>2, <2>3, <2>4 DEF Pass, Moved, Refuse, Check
<1>7. CASE Conflict \/ GateTimeout \/ Flush
  <2>1. gate.step # "free" /\ Leave
    BY <1>7 DEF Conflict, GateTimeout, Flush
  <2>2. CASE gate.c.id = o
    BY <1>7, <2>1, <2>2 DEF Lets
  <2>3. CASE gate.c.id # o
    BY <1>1, <2>1, <2>3, ReleaseLeaves DEF Leave
  <2> QED
    BY <2>2, <2>3
<1>8. CASE \/ \E k \in Keys : Load(k) \/ Close(Change(k))
           \/ \E c \in asked : Close(c)
           \/ PassCheck \/ See \/ Expire
  BY <1>1, <1>8 DEF Load, Close, PassCheck, See, Expire
<1>9. CASE Restart
  BY <1>9 DEF Restart, LocksStay
<1>10. CASE \E p \in Owners : Lapse(p)
  BY <1>10 DEF Lapse, Unlocked, LocksStay
<1> QED
  BY <1>2, <1>3, <1>4, <1>5, <1>6, <1>7, <1>8, <1>9, <1>10 DEF Next

-----------------------------------------------------------------------------
(* Autocommitted writes.                                                    *)

\* Once it entered its table it stays among those that append.
Entering(w) ==
    LET x == stmt[w]
    IN  \/ x.step = "working" /\ x.held # {}
        \/ x.step = "granted"
        \/ x.step = "done" /\ x.locked

AutoFits(w) ==
    Busy(w) => /\ stmt[w].id = w /\ stmt[w].rc /\ ~stmt[w].read
               /\ w \notin lapsed /\ Entering(w) => w \in flying

AutoInv ==
    /\ gone <= seen
    /\ gate.step = "inside" => flying = {}
    /\ \A w \in Autos : StmtInv(w) /\ AutoFits(w)

\* What lands in the log.
LEMMA LogSteps ==
    ASSUME TypeInv, Next
    PROVE  \/ UNCHANGED log
           \/ \E e \in Entry : /\ log' = Append(log, e)
                               /\ Len(log') = Len(log) + 1 /\ log'[Len(log) + 1] = e
                               /\ \/ \E w \in Autos : Land(w) /\ e = [keys |-> stmt[w].keys, how |-> "auto", sure |-> stmt[w].locked /\ w \notin lapsed]
                                  \/ \E k \in Keys : Load(k) /\ e = [keys |-> {k}, how |-> "blind", sure |-> FALSE]
                                  \/ Flush /\ e = [keys |-> gate.c.kept.writes, how |-> "gated",
                                                   sure |-> gate.c.id # Nobody /\ gate.c.kept.locked /\ gate.c.id \notin lapsed]
<1>1. /\ log \in Seq(Entry) /\ Len(log) \in Nat
      /\ \A e \in Entry : Sequenced(e) => /\ log' = Append(log, e)
                                          /\ Len(log') = Len(log) + 1 /\ log'[Len(log) + 1] = e
  BY DEF TypeInv, TypeOK, Sequenced
<1>2. CASE \E w \in Autos : Land(w)
  <2>1. PICK w \in Autos : Land(w)
    BY <1>2
  <2>2. stmt[w] \in Stmt
    BY Places DEF TypeInv, TypeOK
  <2>3. [keys |-> stmt[w].keys, how |-> "auto", sure |-> stmt[w].locked /\ w \notin lapsed] \in Entry
    BY <2>2, StmtIs DEF Entry
  <2> QED
    BY <1>1, <2>1, <2>3 DEF Land
<1>3. CASE \E k \in Keys : Load(k)
  <2>1. PICK k \in Keys : Load(k)
    BY <1>3
  <2>2. [keys |-> {k}, how |-> "blind", sure |-> FALSE] \in Entry
    BY DEF Entry
  <2> QED
    BY <1>1, <2>1, <2>2 DEF Load
<1>4. CASE Flush
  <2>1. gate.c.kept \in Kept
    BY DEF TypeInv, TypeOK, Gate, Request
  <2>2. [keys |-> gate.c.kept.writes, how |-> "gated",
         sure |-> gate.c.id # Nobody /\ gate.c.kept.locked /\ gate.c.id \notin lapsed] \in Entry
    BY <2>1, KeptIs DEF Entry
  <2> QED
    BY <1>1, <1>4, <2>2 DEF Flush
<1>5. CASE \E s \in Sessions : Begin(s) \/ Rollback(s) \/ Savepoint(s) \/ RollbackTo(s) \/ Commit(s)
  BY <1>5 DEF Begin, Rollback, Savepoint, RollbackTo, Commit
<1>6. CASE \/ \E w \in Slots : Start(w) \/ Keep(w) \/ KeepLocks(w)
           \/ \E w \in Autos : StartAuto(w) \/ Enter(w)
           \/ \E w \in Stmts : Pass(w) \/ Moved(w) \/ Grant(w) \/ Refuse(w) \/ Check(w)
  BY <1>6 DEF Start, Keep, KeepLocks, StartAuto, Enter, Pass, Moved, Grant, Refuse, Check
<1>7. CASE \/ \E c \in asked \cup {gate.c} : SendFails(c)
           \/ \E k \in Keys : Close(Change(k))
           \/ \E c \in asked : Close(c)
           \/ PassCheck \/ Conflict \/ GateTimeout \/ See \/ Expire \/ Restart
           \/ \E o \in Owners : Lapse(o)
  BY <1>7 DEF SendFails, Close, PassCheck, Conflict, GateTimeout, See, Expire, Restart, Lapse
<1> QED
  BY <1>2, <1>3, <1>4, <1>5, <1>6, <1>7 DEF Next

\* An autocommitted write that held its locks to the end wrote rows it held.
LEMMA LandHeld ==
    ASSUME TypeInv, NEW w \in Autos, StmtInv(w), AutoFits(w), Land(w), stmt[w].locked, w \notin lapsed
    PROVE  \A k \in stmt[w].keys : lock[k] = w
BY DEF StmtInv, AutoFits, Land, Busy, Reads, Holds

\* Who doesn't let its locks go keeps its rows to itself: an autocommitted write,
LEMMA AutoSteady ==
    ASSUME TypeInv, AutoInv, Next, NEW o \in Autos, ~Lets(o)
    PROVE  Steady(o)
<1> SUFFICES ASSUME o \notin lapsed' PROVE Steady(o)
  BY DEF Steady
<1>1. LocksStay(o) /\ Grows
  BY LocksLeft, NextGrows, Places
<1>2. CASE UNCHANGED log
  <2>1. Len(log) + 1 .. Len(log') = {}
    BY <1>1, <1>2 DEF Grows
  <2> QED
    BY <1>1, <2>1 DEF Steady, LocksStay
<1>3. ASSUME NEW e \in Entry, Len(log') = Len(log) + 1, log'[Len(log) + 1] = e,
             \A k \in e.keys : lock[k] = o /\ o \in flying => ~e.sure /\ e.how # "gated"
      PROVE  Steady(o)
  <2>1. Len(log) + 1 .. Len(log') = {Len(log) + 1}
    BY <1>1, <1>3 DEF Grows
  <2> QED
    BY <1>1, <1>3, <2>1 DEF Steady, LocksStay
<1>4. ASSUME NEW e \in Entry, NEW w \in Autos, Land(w),
             e = [keys |-> stmt[w].keys, how |-> "auto", sure |-> stmt[w].locked /\ w \notin lapsed]
      PROVE  \A k \in e.keys : lock[k] = o /\ o \in flying => ~e.sure /\ e.how # "gated"
  <2>1. w # o
    BY <1>4, SetLeaves, Places DEF Land, Lets, Busy, NoStmt, TypeInv
  <2>2. StmtInv(w) /\ AutoFits(w)
    BY <1>4 DEF AutoInv
  <2>3. e.keys = stmt[w].keys /\ e.how = "auto" /\ (e.sure <=> stmt[w].locked /\ w \notin lapsed)
    BY <1>4
  <2> QED
    BY <1>4, <2>1, <2>2, <2>3, LandHeld
<1>5. ASSUME NEW e \in Entry, NEW k \in Keys, e = [keys |-> {k}, how |-> "blind", sure |-> FALSE]
      PROVE  ~e.sure /\ e.how # "gated"
  BY <1>5
<1>6. Flush => flying = {}
  BY DEF Flush, AutoInv
<1> QED
  BY <1>2, <1>3, <1>4, <1>5, <1>6, LogSteps

\* What the log is kept for.
LEMMA InUseIs ==
    /\ seen \in InUse
    /\ \A w \in Stmts : Busy(w) => stmt[w].at \in InUse
    /\ \A s \in Sessions : txn[s].ran /\ txn[s].level = "repeatable" => txn[s].snapshot \in InUse
    /\ \A s \in Sessions : \A r \in {txn[s].kept} \cup txn[s].mark : r.writes # {} => \A k \in Keys : PointOf(r, k) \in InUse
    /\ \A c \in asked \cup (IF gate.step = "closing" THEN {gate.c} ELSE {}) : \A k \in Keys : PointOf(c.kept, k) \in InUse
<1> DEFINE Rs == {r \in UNION {{txn[s].kept} \cup txn[s].mark : s \in Sessions} : r.writes # {}}
           Cs == {c.kept : c \in asked \cup (IF gate.step = "closing" THEN {gate.c} ELSE {})}
<1>1. \A s \in Sessions : \A r \in {txn[s].kept} \cup txn[s].mark : r.writes # {} => r \in Rs
  OBVIOUS
<1>2. PointsOf(Rs) \subseteq InUse /\ PointsOf(Cs) \subseteq InUse
  BY DEF InUse
<1>3. \A c \in asked \cup (IF gate.step = "closing" THEN {gate.c} ELSE {}) : c.kept \in Cs
  OBVIOUS
<1> HIDE DEF Rs, Cs
<1>4. /\ \A r \in Rs, k \in Keys : PointOf(r, k) \in InUse
      /\ \A r \in Cs, k \in Keys : PointOf(r, k) \in InUse
  BY <1>2 DEF PointsOf
<1>5. seen \in InUse
  BY DEF InUse
<1>6. \A w \in Stmts : Busy(w) => stmt[w].at \in InUse
  BY DEF InUse, Busy
<1>7. \A s \in Sessions : txn[s].ran /\ txn[s].level = "repeatable" => txn[s].snapshot \in InUse
  BY DEF InUse
<1> QED
  BY <1>1, <1>3, <1>4, <1>5, <1>6, <1>7

\* The log's old segments go only where nothing in use is older.
LEMMA GoneMoves ==
    ASSUME TypeInv, Next, Retained
    PROVE  \/ gone' = gone
           \/ /\ Expire /\ gone' = Len(log)
              /\ UNCHANGED <<log, seen, lock, flying, over, lapsed, txn, stmt, asked, gate>>
              /\ \A n \in InUse : n = Len(log)
<1>1. CASE Expire
  BY <1>1 DEF Expire
<1>2. CASE \E s \in Sessions : Begin(s) \/ Rollback(s) \/ Savepoint(s) \/ RollbackTo(s) \/ Commit(s)
  BY <1>2 DEF Begin, Rollback, Savepoint, RollbackTo, Commit
<1>3. CASE \/ \E w \in Slots : Start(w) \/ Keep(w) \/ KeepLocks(w)
           \/ \E w \in Autos : StartAuto(w) \/ Enter(w) \/ Land(w)
           \/ \E w \in Stmts : Pass(w) \/ Moved(w) \/ Grant(w) \/ Refuse(w) \/ Check(w)
  BY <1>3 DEF Start, Keep, KeepLocks, StartAuto, Enter, Land, Pass, Moved, Grant, Refuse, Check
<1>4. CASE \/ \E c \in asked \cup {gate.c} : SendFails(c)
           \/ \E k \in Keys : Load(k) \/ Close(Change(k))
           \/ \E c \in asked : Close(c)
           \/ PassCheck \/ Conflict \/ GateTimeout \/ Flush \/ See \/ Restart
           \/ \E o \in Owners : Lapse(o)
  BY <1>4 DEF SendFails, Close, Load, PassCheck, Conflict, GateTimeout, Flush, See, Restart, Lapse
<1> QED
  BY <1>1, <1>2, <1>3, <1>4 DEF Next

\* So they never go past what a statement at work reads as of.
LEMMA GoneBehind ==
    ASSUME TypeInv, Next, Retained
    PROVE  /\ gone <= seen => gone' <= seen'
           /\ \A w \in Stmts : Busy(w) /\ gone <= stmt[w].at => gone' <= stmt[w].at
<1>1. gone \in Nat /\ seen \in Nat /\ Len(log) \in Nat /\ Grows
  BY NextGrows DEF TypeInv, TypeOK
<1>2. CASE gone' = gone
  BY <1>1, <1>2 DEF Grows
<1>3. CASE gone' = Len(log) /\ UNCHANGED seen /\ \A n \in InUse : n = Len(log)
  <2>1. seen = Len(log) /\ \A w \in Stmts : Busy(w) => stmt[w].at = Len(log)
    BY <1>3, InUseIs
  <2> QED
    BY <1>1, <1>3, <2>1
<1> QED
  BY <1>2, <1>3, GoneMoves

\* A statement that starts has nothing yet.
LEMMA StartsEmpty ==
    ASSUME TypeOK, NEW w \in Stmts, stmt'[w].step = "working", stmt'[w].held = {}, stmt'[w].id \in Owners,
           stmt'[w].at <= Here(w)', gone' <= stmt'[w].at, stmt'[w].read => stmt'[w].locking
    PROVE  StmtInv(w)'
BY DEF StmtInv, Reads, Rests, Holds

\* An autocommitted write's own steps.
LEMMA AutoStmtKeeps ==
    ASSUME TypeInv, AutoInv, NEW w \in Autos, Goes(w)
    PROVE  StmtInv(w)' /\ AutoFits(w)'
<1> DEFINE x == stmt[w]
<1>1. /\ TypeOK /\ w \in Stmts /\ w \notin Slots /\ w \in Owners /\ x \in Stmt /\ gone <= seen /\ gone \in 0 .. Len(log)
      /\ StmtInv(w) /\ AutoFits(w)
  BY Places DEF TypeInv, TypeOK, AutoInv
<1>2. CASE StartAuto(w)
  <2>1. PICK kind \in Kinds \ {"lock"} :
           stmt'[w] = [NoStmt EXCEPT !.step = "working", !.id = w, !.at = Here(w), !.locking = kind = "update"]
    BY <1>1, <1>2, SetLeaves DEF StartAuto
  <2> DEFINE y == [NoStmt EXCEPT !.step = "working", !.id = w, !.at = Here(w), !.locking = kind = "update"]
  <2>2. /\ y.step = "working" /\ y.id = w /\ y.at = Here(w) /\ y.held = {} /\ ~y.read /\ y.rc
    BY DEF NoStmt
  <2> HIDE DEF y
  <2>3. UNCHANGED <<log, gone, seen>>
    BY <1>2 DEF StartAuto
  <2>4. Here(w)' = Here(w) /\ Here(w) \in Nat /\ gone <= Here(w)
    BY <1>1, <2>3, HereIs DEF Here, Visible, TypeOK
  <2>5. stmt'[w] = y /\ y.at <= Here(w)' /\ gone' <= y.at
    BY <1>1, <2>1, <2>2, <2>3, <2>4 DEF y
  <2>6. StmtInv(w)'
    BY <1>1, <2>2, <2>5, StartsEmpty
  <2> QED
    BY <2>2, <2>5, <2>6 DEF AutoFits, Entering
<1>3. CASE Enter(w)
  <2> DEFINE y == [x EXCEPT !.step = "granted", !.granted = Len(log)]
  <2>1. x.step = "waiting" /\ stmt'[w] = y /\ flying' = flying \cup {w}
        /\ UNCHANGED <<log, gone, seen, lock, over, lapsed, txn, asked, gate, restarts>>
    BY <1>1, <1>3, SetLeaves DEF Enter
  <2>2. /\ y.step = "granted" /\ y.granted = Len(log) /\ y.at = x.at /\ y.id = x.id /\ y.keys = x.keys /\ y.held = x.held
        /\ y.base = x.base /\ y.read = x.read /\ y.rc = x.rc /\ y.locking = x.locking /\ y.locked = x.locked
    BY <1>1 DEF Stmt
  <2> HIDE DEF y
  <2>3. Busy(w) /\ Reads(w) /\ Rests(w) /\ Holds(w) /\ x.id = w /\ x.rc /\ ~x.read
    BY <1>1, <2>1 DEF StmtInv, AutoFits, Busy
  <2>4. Own(w)' = Own(w) /\ Here(w)' = Here(w) /\ \A k : Written(k)' = Written(k)
    BY <2>1 DEF Own, Here, Visible, Written
  <2>5. \A k, o : Alone(k, Len(log), o)'
    BY <1>1, <2>1, <2>4 DEF Alone, Written
  <2>6. x.at \in Nat /\ Here(w) \in 0 .. Len(log) /\ Len(log) \in Nat
    BY <1>1, StmtIs, HereIs DEF TypeOK
  <2>7. Reads(w)'
    BY <2>1, <2>2, <2>3, <2>4, <2>6 DEF Reads
  <2>8. Rests(w)'
    BY <2>1, <2>2, <2>3, <2>4 DEF Rests
  <2>9. Holds(w)'
    BY <2>1, <2>2, <2>3, <2>5 DEF Holds
  <2> QED
    BY <1>1, <2>1, <2>2, <2>3, <2>7, <2>8, <2>9 DEF StmtInv, AutoFits
<1>4. CASE Pass(w)
  <2>1. StmtInv(w)'
    BY <1>1, <1>4, PassKeeps
  <2>2. /\ UNCHANGED <<lapsed, flying>> /\ x.step = "working" /\ stmt'[w].id = x.id /\ stmt'[w].read = x.read
        /\ stmt'[w].rc = x.rc /\ stmt'[w].step = "done" /\ (stmt'[w].locked => x.held # {})
    BY <1>1, <1>4, PassIs
  <2> QED
    BY <1>1, <2>1, <2>2 DEF AutoFits, Entering, Busy
<1>5. CASE Moved(w) /\ x.rc
  <2>1. StmtInv(w)' /\ stmt'[w] = [x EXCEPT !.at = Here(w)]
    BY <1>1, <1>5, MovedKeeps
  <2>2. UNCHANGED <<lapsed, flying>> /\ x.step = "working"
    BY <1>5 DEF Moved
  <2> DEFINE y == [x EXCEPT !.at = Here(w)]
  <2>3. y.step = "working" /\ y.held = x.held /\ y.id = x.id /\ y.read = x.read /\ y.rc = x.rc
    BY <1>1, <2>2 DEF Stmt
  <2> HIDE DEF y
  <2> QED
    BY <1>1, <2>1, <2>2, <2>3 DEF AutoFits, Entering, Busy, y
<1>6. CASE Grant(w)
  <2>1. StmtInv(w)'
    BY <1>1, <1>6, GrantKeeps
  <2>2. stmt'[w].step = "waiting" /\ stmt'[w].id = x.id /\ stmt'[w].read = x.read /\ stmt'[w].rc = x.rc
    BY <1>1, <1>6, GrantIs
  <2>3. UNCHANGED <<lapsed, flying>> /\ x.step = "working"
    BY <1>6 DEF Grant
  <2> QED
    BY <1>1, <2>1, <2>2, <2>3 DEF AutoFits, Entering, Busy
<1>7. CASE Check(w) /\ ~Fails(w)
  <2> DEFINE y == [x EXCEPT !.step = "done", !.at = x.granted, !.granted = 0]
             z == [x EXCEPT !.step = "working", !.at = x.granted, !.granted = 0, !.keys = {}, !.base = NoBase]
  <2>1. StmtInv(w)' /\ UNCHANGED <<lapsed, flying>> /\ (stmt'[w] = y \/ stmt'[w] = z)
    BY <1>1, <1>7, CheckKeeps
  <2>2. x.step = "granted"
    BY <1>7 DEF Check
  <2>3. y.id = x.id /\ y.read = x.read /\ y.rc = x.rc /\ z.id = x.id /\ z.read = x.read /\ z.rc = x.rc
    BY <1>1 DEF Stmt
  <2> HIDE DEF y, z
  <2> QED
    BY <1>1, <2>1, <2>2, <2>3 DEF AutoFits, Entering, Busy
<1> QED
  BY <1>1, <1>2, <1>3, <1>4, <1>5, <1>6, <1>7 DEF Goes

\* Nothing enters while a writer is inside.
LEMMA InsideAlone ==
    ASSUME TypeInv, Next, gate.step = "inside" => flying = {}
    PROVE  gate'.step = "inside" => flying' = {}
<1>1. gate \in Gate /\ Free.step = "free"
  BY DEF TypeInv, TypeOK, Free
<1>2. CASE UNCHANGED gate /\ flying' \subseteq flying
  BY <1>2
<1>3. CASE \E w \in Autos : Enter(w)
  BY <1>3 DEF Enter, Entered
<1>4. CASE PassCheck
  BY <1>4 DEF PassCheck
<1>5. CASE \E c : Close(c)
  <2>1. gate'.step = "closing"
    BY <1>5 DEF Close, Free
  <2> QED
    BY <2>1
<1>6. CASE Conflict \/ GateTimeout \/ Flush \/ Restart
  BY <1>1, <1>6 DEF Conflict, GateTimeout, Flush, Restart, Leave
<1>7. ASSUME NEW o, Release(o) PROVE flying' \subseteq flying
  BY <1>7 DEF Release
<1>8. ASSUME NEW w \in Stmts, Fails(w) PROVE flying' \subseteq flying
  BY <1>7, <1>8 DEF Fails
<1>9. CASE \E s \in Sessions : Begin(s) \/ Rollback(s) \/ Savepoint(s) \/ RollbackTo(s) \/ Commit(s)
  BY <1>2, <1>7, <1>9 DEF Begin, Rollback, Savepoint, RollbackTo, Commit, LetGo
<1>10. CASE \/ \E w \in Slots : Start(w) \/ Keep(w) \/ KeepLocks(w)
            \/ \E w \in Autos : StartAuto(w) \/ Land(w)
  BY <1>2, <1>7, <1>8, <1>10, Places DEF Start, Keep, KeepLocks, StartAuto, Land
<1>11. CASE \E w \in Stmts : Pass(w) \/ Moved(w) \/ Grant(w) \/ Refuse(w) \/ Check(w)
  BY <1>2, <1>8, <1>11 DEF Pass, Moved, Grant, Refuse, Check
<1>12. CASE \/ \E c \in asked \cup {gate.c} : SendFails(c)
            \/ \E k \in Keys : Load(k)
            \/ See \/ Expire
            \/ \E o \in Owners : Lapse(o)
  BY <1>2, <1>7, <1>12 DEF SendFails, Load, See, Expire, Lapse
<1> QED
  BY <1>3, <1>4, <1>5, <1>6, <1>9, <1>10, <1>11, <1>12 DEF Next

\* Every step keeps what autocommitted writes rest on.
LEMMA AutoInvStep ==
    ASSUME TypeInv, TypeInv', AutoInv, Next, Retained
    PROVE  AutoInv'
<1>1. TypeOK /\ Grows
  BY NextGrows DEF TypeInv
<1>2. (gone <= seen)' /\ (gate.step = "inside" => flying = {})'
  BY GoneBehind, InsideAlone DEF AutoInv
<1>3. ASSUME NEW w \in Autos PROVE StmtInv(w)' /\ AutoFits(w)'
  <2>1. w \in Stmts /\ StmtInv(w) /\ AutoFits(w)
    BY <1>3, Places DEF AutoInv
  <2>2. CASE Goes(w)
    BY <1>3, <2>2, AutoStmtKeeps
  <2>3. CASE ~Busy(w)'
    BY <2>3 DEF StmtInv, AutoFits
  <2>4. CASE Busy(w)' /\ stmt'[w] = stmt[w]
    <3>1. Busy(w) /\ stmt[w].id = w /\ gone' <= stmt[w].at
      BY <2>1, <2>4, GoneBehind DEF Busy, AutoFits, StmtInv, Reads
    <3>2. Steady(w)
      <4>1. ~Lets(w)
        BY <1>3, <2>4, Places DEF Lets, TypeInv
      <4> QED
        BY <1>3, <4>1, AutoSteady
    <3>3. Own(w)' = Own(w)
      BY <1>3 DEF Own
    <3>4. w \notin lapsed /\ Entering(w) => w \in flying
      BY <2>1, <3>1 DEF AutoFits
    <3>5. stmt[w].held # {} /\ (stmt[w].step = "done" => stmt[w].locked) /\ stmt[w].step # "waiting" => Entering(w)
      <4>1. stmt[w] \in Stmt
        BY <1>1, <2>1 DEF TypeOK
      <4>2. stmt[w].step \in {"working", "waiting", "granted", "done"}
        BY <3>1, <4>1, StmtIs DEF Busy
      <4> QED
        BY <4>2 DEF Entering
    <3>6. StmtInv(w)'
      BY <1>1, <2>1, <2>4, <3>1, <3>2, <3>3, <3>4, <3>5, StmtFrame
    <3>7. AutoFits(w)'
      <4>1. w \notin lapsed' => w \notin lapsed /\ (w \in flying => w \in flying')
        BY <1>1, <3>2 DEF Grows, Steady
      <4>2. Entering(w)' <=> Entering(w)
        BY <2>4 DEF Entering
      <4> QED
        BY <2>1, <2>4, <3>1, <4>1, <4>2 DEF AutoFits, Busy
    <3> QED
      BY <3>6, <3>7
  <2> QED
    BY <1>1, <2>1, <2>2, <2>3, <2>4, StmtMoves
<1> QED
  BY <1>2, <1>3 DEF AutoInv

LEMMA AutoInvStutters ==
    ASSUME AutoInv, UNCHANGED vars
    PROVE  AutoInv'
<1>1. UNCHANGED <<log, gone, seen, lock, flying, over, lapsed, txn, stmt, asked, gate>>
  BY DEF vars
<1> QED
  BY <1>1 DEF AutoInv, StmtInv, AutoFits, Entering, Busy, Reads, Rests, Holds, Own, Here, Visible, Written, Alone

LEMMA AutoInvStarts ==
    ASSUME Init
    PROVE  AutoInv
<1>1. \A w \in Autos : ~Busy(w)
  BY Places DEF Init, Busy, NoStmt
<1>2. gone <= seen /\ gate.step = "free"
  BY DEF Init, Free
<1> QED
  BY <1>1, <1>2 DEF AutoInv, StmtInv, AutoFits

\* What they rest on is enough.
LEMMA AutoInvKeeps ==
    ASSUME TypeInv, AutoInv
    PROVE  AutoKeeps
<1> SUFFICES ASSUME NEW w \in Autos, w \notin lapsed, stmt[w].step = "done", stmt[w].locked,
                    NEW k \in stmt[w].keys, NEW i \in After(stmt[w].base, k)
             PROVE  log[i].how = "blind" \/ (log[i].how = "auto" /\ ~log[i].sure)
  BY DEF AutoKeeps
<1>1. TypeOK /\ w \in Stmts /\ stmt[w] \in Stmt /\ log \in Seq(Entry) /\ Len(log) \in Nat
  BY Places DEF TypeInv, TypeOK
<1>2. Busy(w) /\ StmtInv(w) /\ AutoFits(w)
  BY DEF AutoInv, Busy
<1>3. stmt[w].id = w /\ Rests(w) /\ Holds(w)
  BY <1>2 DEF StmtInv, AutoFits
<1>4. k \in Keys /\ stmt[w].base[k] \in Nat
  BY <1>1, StmtIs
<1>5. i \in stmt[w].base[k] + 1 .. Len(log) /\ k \in log[i].keys
  BY DEF After
<1>6. i \in Written(k) /\ i > stmt[w].base[k] /\ i \in 1 .. Len(log)
  BY <1>1, <1>4, <1>5 DEF Written
<1>7. k \notin Own(w).writes
  BY DEF Own, Nothing
<1>8. i > stmt[w].at
  BY <1>3, <1>6, <1>7 DEF Rests
<1>9. ~log[i].sure /\ log[i].how # "gated"
  BY <1>3, <1>6, <1>8 DEF Holds, Alone
<1>10. log[i].how \in {"auto", "gated", "blind"}
  <2>1. log[i] \in Entry
    BY <1>1, <1>6
  <2> QED
    BY <2>1 DEF Entry
<1> QED
  BY <1>9, <1>10

\* An autocommitted write is checked by nothing when it lands: what it holds keeps every
\* other writer but loads from its rows until then (`autocommit`, `close`), where the log
\* goes back to what it read.
THEOREM KeptAlone ==
    ASSUME Retained
    PROVE  Spec => []AutoKeeps
<1>1. Init => TypeInv /\ AutoInv
  BY TypesStart, AutoInvStarts
<1>2. TypeInv /\ AutoInv /\ [Next]_vars => (TypeInv /\ AutoInv)'
  BY TypesStep, AutoInvStep, AutoInvStutters
<1>3. TypeInv /\ AutoInv => AutoKeeps
  BY AutoInvKeeps
<1> QED
  BY <1>1, <1>2, <1>3, PTL DEF Spec

-----------------------------------------------------------------------------
(* Transactions.                                                            *)

\* A row it keeps is checked against every commit since the version it was worked out from.
KeptFits(r) ==
    \A k \in r.writes :
        /\ r.point[k] # None \/ r.floor # None
        /\ \A i \in Written(k) : i > r.base[k] => i > gone /\ i > PointOf(r, k)

PointsBelow(r) ==
    /\ r.floor = None \/ r.floor <= Len(log)
    /\ \A k \in Keys : r.point[k] = None \/ r.point[k] <= Len(log)

\* Where every statement took its locks, owner o holds every row read, and nobody who held
\* its own wrote it since.
KeptHolds(r, o) ==
    r.locked =>
        /\ r.floor = None
        /\ \A k \in r.writes : r.point[k] # None
        /\ o \notin lapsed => \A k \in Keys : r.point[k] # None => lock[k] = o /\ Alone(k, r.point[k], o)

KeptInv(r, o) == KeptFits(r) /\ PointsBelow(r) /\ KeptHolds(r, o)

\* What READ COMMITTED read as of is in its view; REPEATABLE READ read what its snapshot has.
ReadsFit(s, r) ==
    \A k \in Keys : r.point[k] # None =>
        IF txn[s].level = "committed" THEN r.point[k] <= Visible(s)
        ELSE txn[s].ran /\ \A i \in Written(k) : i <= r.point[k] => i <= txn[s].snapshot

TxnInv(s) ==
    /\ txn[s].step # "open" => txn[s].kept = Nothing /\ txn[s].mark = {} /\ ~txn[s].ran
    /\ txn[s].ran /\ txn[s].level = "repeatable" => gone <= txn[s].snapshot /\ txn[s].snapshot <= Visible(s)
    /\ \A r \in {txn[s].kept} \cup txn[s].mark : KeptInv(r, IdOf(s)) /\ ReadsFit(s, r)

\* A statement is its session's open transaction's.
SlotInv(w) ==
    LET x == stmt[w]
        t == txn[SessionOf(w)]
    IN  /\ StmtInv(w)
        /\ Busy(w) =>
              /\ t.step = "open" /\ x.id = IdOf(SessionOf(w)) /\ (x.rc <=> t.level = "committed") /\ t.ran
              /\ x.rc => \A k \in Keys : t.kept.point[k] # None => t.kept.point[k] <= x.at
              /\ ~x.rc => /\ x.step # "done" \/ ~x.locked => x.at = t.snapshot
                          /\ \A k \in x.keys : \A i \in Written(k) : i <= x.at => i <= t.snapshot

\* The COMMITs sent, and those of them that are still to be checked.
Unchecked == asked \cup (IF gate.step = "closing" /\ gate.c.id # Nobody THEN {gate.c} ELSE {})
Pending   == asked \cup (IF gate.step # "free" /\ gate.c.id # Nobody THEN {gate.c} ELSE {})

\* A COMMIT's transaction is over in its session.
PendingInv(c) ==
    /\ c.id \in Txns /\ c.id[2] <= txn[c.id[1]].n /\ (txn[c.id[1]].step = "open" => c.id[2] < txn[c.id[1]].n)
    /\ KeptHolds(c.kept, c.id)

SessInv ==
    /\ \A w \in Slots : SlotInv(w)
    /\ \A s \in Sessions : TxnInv(s)
    /\ \A c \in Pending : PendingInv(c)
    /\ \A c, d \in Pending : c.id = d.id => c = d
    /\ gate.step # "free" => gate.c \notin asked
    /\ \A c \in Unchecked : KeptFits(c.kept) /\ PointsBelow(c.kept)
    /\ gate.step = "inside" => gate.checked <= Len(log)
    /\ NoLostUpdate

\* A transaction that keeps nothing needs nothing.
LEMMA NothingFits ==
    ASSUME NEW o, NEW s
    PROVE  KeptInv(Nothing, o) /\ KeptInv(Nothing, o)' /\ ReadsFit(s, Nothing) /\ ReadsFit(s, Nothing)'
BY DEF KeptInv, KeptFits, PointsBelow, KeptHolds, ReadsFit, Nothing

\* What is kept stays as good.
LEMMA HoldsStays ==
    ASSUME TypeOK, Grows, NEW o \in Txns, Steady(o), NEW r \in Kept, KeptHolds(r, o)
    PROVE  KeptHolds(r, o)'
<1> SUFFICES ASSUME r.locked, o \notin lapsed', NEW k \in Keys, r.point[k] # None
             PROVE  lock'[k] = o /\ Alone(k, r.point[k], o)'
  BY DEF KeptHolds
<1>1. o \notin lapsed /\ o \notin Autos
  BY Places DEF Grows
<1>2. lock[k] = o /\ Alone(k, r.point[k], o)
  BY <1>1 DEF KeptHolds
<1>3. r.point[k] \in Nat
  BY KeptIs
<1>4. Alone(k, r.point[k], o)'
  BY <1>1, <1>2, <1>3, AloneStays
<1> QED
  BY <1>2, <1>4 DEF Steady

\* The log goes on, and goes back as far as it is checked from.
LEMMA FitsStays ==
    ASSUME TypeOK, Grows, NEW r \in Kept, KeptFits(r), PointsBelow(r),
           \/ gone' = gone
           \/ gone' = Len(log) /\ UNCHANGED log /\ (r.writes # {} => \A k \in Keys : PointOf(r, k) = Len(log))
    PROVE  KeptFits(r)' /\ PointsBelow(r)'
<1>1. Len(log) \in Nat /\ Len(log') \in Nat /\ Len(log) <= Len(log') /\ gone \in 0 .. Len(log)
  BY DEF Grows, TypeOK
<1>2. PointsBelow(r)'
  <2>1. r.floor \in Nat /\ \A k \in Keys : r.point[k] \in Nat
    BY KeptIs
  <2> QED
    BY <1>1, <2>1 DEF PointsBelow
<1>3. ASSUME NEW k \in r.writes, NEW i \in Written(k)', i > r.base[k]
      PROVE  i > gone' /\ i > PointOf(r, k)
  <2>1. k \in Keys /\ PointOf(r, k) \in Nat /\ r.base[k] \in Nat /\ r.writes # {}
    BY KeptIs
  <2>2. PointOf(r, k) <= Len(log)
    BY <1>1, <2>1 DEF PointsBelow, PointOf, KeptFits
  <2>3. CASE i \in Written(k)
    <3>1. i > gone /\ i > PointOf(r, k)
      BY <1>3, <2>3 DEF KeptFits
    <3> QED
      BY <2>1, <3>1
  <2>4. CASE i \in Len(log) + 1 .. Len(log')
    BY <1>1, <2>1, <2>2, <2>4
  <2> QED
    BY <2>3, <2>4, WrittenGrows
<1>4. \A k \in r.writes : r.point[k] # None \/ r.floor # None
  BY DEF KeptFits
<1> QED
  BY <1>2, <1>3, <1>4 DEF KeptFits

\* What was read stays in view.
LEMMA ReadsStay ==
    ASSUME TypeOK, Grows, NEW s \in Sessions, NEW r \in Kept, ReadsFit(s, r), PointsBelow(r),
           txn'[s].level = txn[s].level,
           txn[s].ran /\ txn[s].level # "committed" => txn'[s].ran /\ txn'[s].snapshot = txn[s].snapshot
    PROVE  ReadsFit(s, r)'
<1> SUFFICES ASSUME NEW k \in Keys, r.point[k] # None
             PROVE  IF txn[s].level = "committed" THEN r.point[k] <= Visible(s)'
                    ELSE txn'[s].ran /\ \A i \in Written(k)' : i <= r.point[k] => i <= txn'[s].snapshot
  BY DEF ReadsFit
<1>1. r.point[k] \in Nat /\ r.point[k] <= Len(log) /\ Len(log) \in Nat /\ Len(log') \in Nat
  BY KeptIs DEF PointsBelow, Grows
<1>2. CASE txn[s].level = "committed"
  BY <1>1, <1>2, HereGrows DEF ReadsFit
<1>3. CASE txn[s].level # "committed"
  <2>1. txn[s].ran /\ \A i \in Written(k) : i <= r.point[k] => i <= txn[s].snapshot
    BY <1>3 DEF ReadsFit
  <2>2. \A i \in Len(log) + 1 .. Len(log') : ~(i <= r.point[k])
    BY <1>1
  <2> QED
    BY <1>3, <2>1, <2>2, WrittenGrows
<1> QED
  BY <1>2, <1>3

\* A transaction that doesn't let its locks go keeps its rows to itself.
LEMMA TxnSteady ==
    ASSUME TypeInv, AutoInv, SessInv, Next, NEW o \in Txns, ~Lets(o)
    PROVE  Steady(o)
<1> SUFFICES ASSUME o \notin lapsed' PROVE Steady(o)
  BY DEF Steady
<1>1. LocksStay(o) /\ Grows /\ o \notin Autos /\ o # Nobody
  BY LocksLeft, NextGrows, Places
<1>2. CASE UNCHANGED log
  <2>1. Len(log) + 1 .. Len(log') = {}
    BY <1>1, <1>2 DEF Grows
  <2> QED
    BY <1>1, <2>1 DEF Steady, LocksStay
<1>3. ASSUME NEW e \in Entry, Len(log') = Len(log) + 1, log'[Len(log) + 1] = e,
             \A k \in e.keys : lock[k] = o => ~e.sure
      PROVE  Steady(o)
  <2>1. Len(log) + 1 .. Len(log') = {Len(log) + 1}
    BY <1>1, <1>3 DEF Grows
  <2> QED
    BY <1>1, <1>3, <2>1 DEF Steady, LocksStay
<1>4. ASSUME NEW e \in Entry, NEW w \in Autos, Land(w),
             e = [keys |-> stmt[w].keys, how |-> "auto", sure |-> stmt[w].locked /\ w \notin lapsed]
      PROVE  \A k \in e.keys : lock[k] = o => ~e.sure
  <2>1. StmtInv(w) /\ AutoFits(w)
    BY <1>4 DEF AutoInv
  <2>2. e.keys = stmt[w].keys /\ (e.sure <=> stmt[w].locked /\ w \notin lapsed)
    BY <1>4
  <2> QED
    BY <1>1, <1>4, <2>1, <2>2, LandHeld
<1>5. ASSUME NEW e \in Entry, NEW k \in Keys, e = [keys |-> {k}, how |-> "blind", sure |-> FALSE]
      PROVE  ~e.sure
  BY <1>5
<1>6. ASSUME Flush, NEW e \in Entry,
             e = [keys |-> gate.c.kept.writes, how |-> "gated",
                  sure |-> gate.c.id # Nobody /\ gate.c.kept.locked /\ gate.c.id \notin lapsed]
      PROVE  \A k \in e.keys : lock[k] = o => ~e.sure
  <2> SUFFICES ASSUME gate.c.id # Nobody, gate.c.kept.locked, gate.c.id \notin lapsed, NEW k \in gate.c.kept.writes
               PROVE  lock[k] # o
    BY <1>6
  <2>1. gate.c.id # o
    BY <1>6 DEF Lets, Flush
  <2>2. gate.c \in Pending
    BY <1>6 DEF Pending, Flush
  <2>3. KeptHolds(gate.c.kept, gate.c.id)
    BY <2>2 DEF SessInv, PendingInv
  <2>4. gate.c.kept \in Kept
    BY Places DEF Request
  <2>5. k \in Keys
    BY <2>4, KeptIs
  <2>6. lock[k] = gate.c.id
    BY <2>3, <2>5 DEF KeptHolds
  <2> QED
    BY <2>1, <2>6
<1> QED
  BY <1>2, <1>3, <1>4, <1>5, <1>6, LogSteps

\* What a step does to a session's transaction.
TxnGoes(s) ==
    \/ Begin(s) \/ Rollback(s) \/ Savepoint(s) \/ RollbackTo(s) \/ Commit(s)
    \/ \E w \in Slots : SessionOf(w) = s /\ (Start(w) \/ Keep(w) \/ KeepLocks(w) \/ Fails(w))
    \/ Restart /\ s \notin Follower

LEMMA TxnMoves ==
    ASSUME TypeOK, Next, NEW s \in Sessions
    PROVE  txn'[s] = txn[s] \/ TxnGoes(s)
<1>1. txn \in [Sessions -> Txn]
  BY DEF TypeOK
<1>2. \A z, t : z # s /\ txn' = [txn EXCEPT ![z] = t] => txn'[s] = txn[s]
  BY <1>1
<1>3. CASE \E z \in Sessions : Begin(z) \/ Rollback(z) \/ Savepoint(z) \/ RollbackTo(z) \/ Commit(z)
  <2>1. PICK z \in Sessions : Begin(z) \/ Rollback(z) \/ Savepoint(z) \/ RollbackTo(z) \/ Commit(z)
    BY <1>3
  <2>2. CASE z = s
    BY <2>1, <2>2 DEF TxnGoes
  <2>3. CASE z # s
    <3>1. Begin(z) \/ Rollback(z) \/ Commit(z) => txn'[s] = txn[s]
      BY <1>1, <2>3 DEF Begin, Rollback, Commit
    <3>2. Savepoint(z) => txn'[s] = txn[s]
      BY <1>1, <2>3 DEF Savepoint
    <3>3. RollbackTo(z) => txn'[s] = txn[s]
      BY <1>1, <2>3 DEF RollbackTo
    <3> QED
      BY <2>1, <3>1, <3>2, <3>3
  <2> QED
    BY <2>2, <2>3
<1>4. ASSUME NEW w \in Slots, SessionOf(w) # s, Fails(w) PROVE txn'[s] = txn[s]
  BY <1>1, <1>4, Places DEF Fails
<1>5. CASE \E w \in Slots : Start(w) \/ Keep(w) \/ KeepLocks(w)
  <2>1. PICK w \in Slots : Start(w) \/ Keep(w) \/ KeepLocks(w)
    BY <1>5
  <2>2. CASE SessionOf(w) = s
    BY <2>1, <2>2 DEF TxnGoes
  <2>3. CASE SessionOf(w) # s
    <3>1. Start(w) => txn'[s] = txn[s]
      BY <1>1, <2>3 DEF Start
    <3>2. Keep(w) => txn'[s] = txn[s]
      BY <1>1, <1>4, <2>3 DEF Keep
    <3>3. KeepLocks(w) => txn'[s] = txn[s]
      BY <1>1, <2>3 DEF KeepLocks
    <3> QED
      BY <2>1, <3>1, <3>2, <3>3
  <2> QED
    BY <2>2, <2>3
<1>6. CASE \E w \in Stmts : Pass(w) \/ Moved(w) \/ Grant(w) \/ Refuse(w) \/ Check(w)
  <2>1. PICK w \in Stmts : Pass(w) \/ Moved(w) \/ Grant(w) \/ Refuse(w) \/ Check(w)
    BY <1>6
  <2>2. CASE UNCHANGED txn
    BY <2>2
  <2>3. CASE Fails(w)
    <3>1. CASE w \in Autos
      BY <2>3, <3>1 DEF Fails
    <3>2. CASE w \in Slots
      BY <1>4, <2>3, <3>2 DEF TxnGoes
    <3> QED
      BY <3>1, <3>2, Places
  <2> QED
    BY <2>1, <2>2, <2>3 DEF Pass, Moved, Grant, Refuse, Check
<1>7. CASE \E w \in Autos : StartAuto(w) \/ Enter(w) \/ Land(w)
  BY <1>7 DEF StartAuto, Enter, Land
<1>8. CASE \/ \E c \in asked \cup {gate.c} : SendFails(c)
           \/ \E k \in Keys : Load(k) \/ Close(Change(k))
           \/ \E c \in asked : Close(c)
           \/ PassCheck \/ Conflict \/ GateTimeout \/ Flush \/ See \/ Expire
           \/ \E o \in Owners : Lapse(o)
  BY <1>8 DEF SendFails, Load, Close, PassCheck, Conflict, GateTimeout, Flush, See, Expire, Lapse
<1>9. CASE Restart
  BY <1>9 DEF Restart, TxnGoes
<1> QED
  BY <1>3, <1>5, <1>6, <1>7, <1>8, <1>9 DEF Next

\* One statement of a session at a time.
LEMMA OneSlot ==
    ASSUME Overlap = 1
    PROVE  \A v, w \in Slots : SessionOf(v) = SessionOf(w) => v = w
BY DEF Slots, SessionOf

\* While it is at work, its session's transaction stays as it is.
LEMMA TxnStill ==
    ASSUME TypeInv, Next, Serial, Overlap = 1, NEW w \in Slots, Busy(w), stmt'[w] = stmt[w]
    PROVE  txn'[SessionOf(w)] = txn[SessionOf(w)]
<1> DEFINE s == SessionOf(w)
<1>1. TypeOK /\ s \in Sessions /\ w \in Stmts
  BY Places DEF TypeInv
<1>2. ~Idle(s)
  BY DEF Idle, Busy
<1> HIDE DEF s
<1>3. CASE Begin(s) \/ Rollback(s) \/ Savepoint(s) \/ RollbackTo(s) \/ Commit(s)
  BY <1>2, <1>3 DEF Begin, Rollback, Savepoint, RollbackTo, Commit
<1>4. CASE \E v \in Slots : SessionOf(v) = s /\ (Start(v) \/ Keep(v) \/ KeepLocks(v) \/ Fails(v))
  <2>1. Start(w) \/ Keep(w) \/ KeepLocks(w) \/ Fails(w)
    BY <1>4, OneSlot DEF s
  <2>2. ~Start(w)
    BY DEF Start, Busy
  <2>3. ~Fails(w)
    BY <1>1, SetLeaves DEF Busy
  <2>4. Keep(w) \/ KeepLocks(w) => stmt'[w] = NoStmt
    BY <1>1, <2>3, SetLeaves DEF Keep, KeepLocks
  <2> QED
    BY <2>1, <2>2, <2>3, <2>4 DEF Busy, NoStmt
<1>5. CASE Restart /\ s \notin Follower
  <2>1. stmt'[w] = NoStmt
    BY <1>1, <1>5, Places DEF Restart, s
  <2> QED
    BY <2>1 DEF Busy, NoStmt
<1> QED
  BY <1>1, <1>3, <1>4, <1>5, TxnMoves DEF TxnGoes, s

\* A transaction that is open has no COMMIT on its way.
LEMMA OpenAlone ==
    ASSUME TypeInv, SessInv, NEW s \in Sessions, txn[s].step = "open", NEW c \in Pending
    PROVE  c.id # IdOf(s)
<1> SUFFICES ASSUME c.id = IdOf(s) PROVE FALSE
  OBVIOUS
<1>1. c.id[1] = s /\ c.id[2] = txn[s].n /\ txn[s].n \in Nat
  BY Numbers DEF IdOf, TypeInv
<1> QED
  BY <1>1 DEF SessInv, PendingInv

\* An open transaction that stays open keeps its locks.
LEMMA OpenKeeps ==
    ASSUME TypeInv, SessInv, NEW s \in Sessions, txn[s].step = "open", txn'[s].step = "open"
    PROVE  ~Lets(IdOf(s)) /\ \A c \in Pending : c.id # IdOf(s)
<1>1. \A c \in Pending : c.id # IdOf(s)
  BY OpenAlone
<1>2. IdOf(s) \notin Autos /\ IdOf(s) # Nobody /\ TypeOK
  BY Places DEF TypeInv
<1>3. ASSUME NEW z \in Sessions, IdOf(s) = IdOf(z), Rollback(z) \/ Commit(z) PROVE FALSE
  <2>1. z = s
    BY <1>3 DEF IdOf
  <2>2. txn'[s] = Over(s)
    BY <1>2, <1>3, <2>1 DEF Rollback, Commit, TypeOK
  <2> QED
    BY <2>2 DEF Over, NoTxn
<1>4. gate.step # "free" => gate.c.id # IdOf(s)
  BY <1>1, <1>2 DEF Pending
<1> QED
  BY <1>1, <1>2, <1>3, <1>4 DEF Lets

\* A session's statement that a step leaves alone keeps what it has.
LEMMA SlotStays ==
    ASSUME TypeInv, AutoInv, SessInv, Next, Serial, Overlap = 1, Retained, NEW w \in Slots, Busy(w), stmt'[w] = stmt[w]
    PROVE  SlotInv(w)'
<1> DEFINE s == SessionOf(w)
           x == stmt[w]
           t == txn[s]
<1>1. /\ TypeOK /\ Grows /\ s \in Sessions /\ w \in Stmts /\ w \notin Autos /\ x \in Stmt /\ Len(log) \in Nat
  BY NextGrows, Places DEF TypeInv, TypeOK
<1>2. SlotInv(w) /\ StmtInv(w) /\ t.step = "open" /\ x.id = IdOf(s) /\ txn'[s] = t
  BY TxnStill DEF SessInv, SlotInv
<1>3. Own(w)' = Own(w) /\ IdOf(s)' = IdOf(s) /\ x.id \in Txns
  BY <1>1, <1>2, Places DEF Own, IdOf
<1>4. Steady(x.id)
  BY <1>1, <1>2, <1>3, OpenKeeps, TxnSteady
<1>5. gone' <= x.at
  BY <1>1, <1>2, GoneBehind DEF StmtInv, Reads
<1>6. x.id \notin Autos
  BY <1>3, Places
<1>7. StmtInv(w)'
  BY <1>1, <1>2, <1>3, <1>4, <1>5, <1>6, StmtFrame
<1>8. ~x.rc => \A k \in x.keys : \A i \in Written(k)' : i <= x.at => i <= t.snapshot
  <2>1. x.at \in Nat /\ Here(w) \in 0 .. Len(log) /\ x.at <= Here(w)
    BY <1>1, <1>2, StmtIs, HereIs DEF StmtInv, Reads
  <2>2. \A i \in Len(log) + 1 .. Len(log') : ~(i <= x.at)
    BY <1>1, <2>1 DEF Grows
  <2> QED
    BY <1>1, <1>2, <2>2, WrittenGrows DEF SlotInv
<1> QED
  BY <1>2, <1>3, <1>7, <1>8 DEF SlotInv, Busy

\* A statement reads as of a commit in its node's view, which the log goes back to.
LEMMA ReadAtIs ==
    ASSUME TypeInv, AutoInv, SessInv, NEW s \in Sessions
    PROVE  ReadAt(s) <= Visible(s) /\ gone <= ReadAt(s) /\ (txn[s].level = "committed" => ReadAt(s) = Visible(s))
<1>1. TypeOK /\ txn[s] \in Txn /\ gone <= seen /\ gone \in 0 .. Len(log) /\ TxnInv(s)
  BY DEF TypeInv, TypeOK, AutoInv, SessInv
<1>2. Visible(s) \in Nat /\ gone <= Visible(s)
  BY <1>1, HereIs DEF Visible, TypeOK
<1>3. CASE txn[s].level = "committed" \/ ~txn[s].ran
  BY <1>2, <1>3 DEF ReadAt
<1>4. CASE txn[s].level # "committed" /\ txn[s].ran
  <2>1. txn[s].level = "repeatable" /\ ReadAt(s) = txn[s].snapshot
    BY <1>1, <1>4 DEF Txn, ReadAt
  <2> QED
    BY <1>1, <1>4, <2>1 DEF TxnInv
<1> QED
  BY <1>3, <1>4

\* A session's statement keeps it in each of its own steps.
LEMMA SlotGoes ==
    ASSUME TypeInv, TypeInv', AutoInv, SessInv, NEW w \in Slots, Goes(w)
    PROVE  SlotInv(w)'
<1> DEFINE s == SessionOf(w)
           x == stmt[w]
           t == txn[s]
           y == stmt'[w]
<1>1. /\ TypeOK /\ s \in Sessions /\ w \in Stmts /\ w \notin Autos /\ x \in Stmt /\ Len(log) \in Nat /\ t \in Txn
      /\ gone <= seen /\ gone \in 0 .. Len(log) /\ SlotInv(w) /\ StmtInv(w) /\ TxnInv(s)
  BY Places DEF TypeInv, TypeOK, AutoInv, SessInv, SlotInv
<1>2. Here(w) = Visible(s)
  BY <1>1 DEF Here
<1>3. CASE Start(w)
  <2> DEFINE rc == t.level = "committed"
             at == ReadAt(s)
             u  == [t EXCEPT !.snapshot = IF rc THEN 0 ELSE at, !.ran = TRUE]
  <2>1. UNCHANGED <<log, gone, seen>> /\ x.step = "idle" /\ t.step = "open" /\ txn'[s] = u
    BY <1>1, <1>3 DEF Start, TypeOK
  <2>2. PICK kind \in Kinds :
            y = [NoStmt EXCEPT !.step = "working", !.id = IdOf(s), !.rc = rc, !.at = at, !.read = kind = "lock",
                               !.locking = kind = "lock" \/ (kind = "update" /\ rc)]
    <3>1. PICK kind \in Kinds :
              Set(w, [NoStmt EXCEPT !.step = "working", !.id = IdOf(s), !.rc = rc, !.at = at, !.read = kind = "lock",
                                    !.locking = kind = "lock" \/ (kind = "update" /\ rc)])
      BY <1>3 DEF Start
    <3> HIDE DEF s, rc, at
    <3>2. PICK z : /\ Set(w, z)
                   /\ z = [NoStmt EXCEPT !.step = "working", !.id = IdOf(s), !.rc = rc, !.at = at, !.read = kind = "lock",
                                         !.locking = kind = "lock" \/ (kind = "update" /\ rc)]
      BY <3>1
    <3>3. y = z
      BY <1>1, <3>2, SetLeaves
    <3> QED
      BY <3>2, <3>3
  <2>3. /\ y.step = "working" /\ y.id = IdOf(s) /\ (y.rc <=> rc) /\ y.at = at /\ (y.read => y.locking) /\ y.held = {}
        /\ y.keys = {}
    BY <2>2, ZenonT(60) DEF NoStmt
  <2>4. u.step = "open" /\ u.n = t.n /\ u.level = t.level /\ u.ran /\ u.kept = t.kept
        /\ u.snapshot = (IF rc THEN 0 ELSE at)
    BY <1>1, <2>1 DEF Txn
  <2>5. at <= Visible(s) /\ gone <= at /\ (rc => at = Visible(s))
    BY <1>1, ReadAtIs
  <2> HIDE DEF u, at, rc
  <2>6. Here(w)' = Here(w) /\ IdOf(s)' = IdOf(s) /\ IdOf(s) \in Owners
    BY <1>1, <2>1, <2>4, Places DEF Here, Visible, IdOf
  <2>7. StmtInv(w)'
    BY <1>1, <1>2, <2>1, <2>3, <2>5, <2>6, StartsEmpty
  <2>8. rc => \A k \in Keys : u.kept.point[k] # None => u.kept.point[k] <= at
    BY <1>1, <2>4, <2>5 DEF TxnInv, ReadsFit, rc
  <2> QED
    BY <2>1, <2>3, <2>4, <2>6, <2>7, <2>8 DEF SlotInv, rc
<1>4. ASSUME UNCHANGED <<log, seen, txn>>, Busy(w), StmtInv(w)', y.id = x.id, y.rc = x.rc, x.rc => x.at <= y.at,
             ~x.rc => (y.step # "done" \/ ~y.locked => y.at = t.snapshot),
             ~x.rc => \A k \in y.keys : \A i \in Written(k) : i <= y.at => i <= t.snapshot
      PROVE  SlotInv(w)'
  <2>1. /\ t.step = "open" /\ x.id = IdOf(s) /\ (x.rc <=> t.level = "committed") /\ t.ran
        /\ x.rc => \A k \in Keys : t.kept.point[k] # None => t.kept.point[k] <= x.at
    BY <1>1, <1>4 DEF SlotInv
  <2>2. IdOf(s)' = IdOf(s) /\ (\A k : Written(k)' = Written(k)) /\ txn'[s] = t
    BY <1>4 DEF IdOf, Written
  <2>3. x.rc => \A k \in Keys : t.kept.point[k] # None => t.kept.point[k] <= y.at
    <3> SUFFICES ASSUME x.rc, NEW k \in Keys, t.kept.point[k] # None PROVE t.kept.point[k] <= y.at
      OBVIOUS
    <3>1. stmt' \in [Stmts -> Stmt]
      BY DEF TypeOK, TypeInv
    <3>2. t.kept.point[k] \in Nat /\ x.at \in Nat /\ y.at \in Nat
      BY <1>1, <3>1, KeptIs, StmtIs DEF Txn
    <3> QED
      BY <1>4, <2>1, <3>2
  <2> QED
    BY <1>4, <2>1, <2>2, <2>3 DEF SlotInv
<1>5. CASE Pass(w)
  <2>1. StmtInv(w)' /\ UNCHANGED <<log, seen, txn>> /\ x.step = "working" /\ y.at = x.at /\ y.id = x.id /\ y.rc = x.rc
    BY <1>1, <1>5, PassIs, PassKeeps
  <2>2. Busy(w) /\ x.at \in Nat /\ (~x.rc => x.at = t.snapshot)
    BY <1>1, <2>1, StmtIs DEF SlotInv, Busy
  <2> QED
    BY <1>4, <2>1, <2>2
<1>6. CASE Moved(w) /\ x.rc
  <2>1. StmtInv(w)' /\ y = [x EXCEPT !.at = Here(w)]
    BY <1>1, <1>6, MovedKeeps
  <2>2. UNCHANGED <<log, seen, txn>> /\ x.step = "working"
    BY <1>6 DEF Moved
  <2>3. y.id = x.id /\ y.rc = x.rc /\ y.at = Here(w)
    BY <1>1, <2>1 DEF Stmt
  <2>4. Busy(w) /\ x.at <= Here(w)
    BY <1>1, <2>2 DEF StmtInv, Reads, Busy
  <2> QED
    BY <1>4, <1>6, <2>1, <2>2, <2>3, <2>4
<1>7. CASE Grant(w)
  <2>1. StmtInv(w)' /\ y.step = "granted" /\ y.at = x.at /\ y.id = x.id /\ y.rc = x.rc
    BY <1>1, <1>7, GrantIs, GrantKeeps
  <2>2. UNCHANGED <<log, seen, txn>> /\ x.step = "working"
    BY <1>7 DEF Grant
  <2>3. Busy(w) /\ x.at \in Nat /\ (~x.rc => x.at = t.snapshot)
    BY <1>1, <2>2, StmtIs DEF SlotInv, Busy
  <2> QED
    BY <1>4, <2>1, <2>2, <2>3
<1>8. CASE Check(w) /\ ~Fails(w)
  <2> DEFINE d == [x EXCEPT !.step = "done", !.at = x.granted, !.granted = 0]
             z == [x EXCEPT !.step = "working", !.at = x.granted, !.granted = 0, !.keys = {}, !.base = NoBase]
  <2>1. StmtInv(w)' /\ UNCHANGED <<log, seen, txn>> /\ ((RowsMoved(w) = {} /\ y = d) \/ (x.rc /\ y = z))
    BY <1>1, <1>8, CheckKeeps
  <2>2. x.step = "granted" /\ Here(w) >= x.granted
    BY <1>8 DEF Check
  <2>3. d.id = x.id /\ d.rc = x.rc /\ z.id = x.id /\ z.rc = x.rc /\ d.at = x.granted /\ z.at = x.granted
        /\ d.step = "done" /\ d.locked = x.locked /\ d.keys = x.keys
    BY <1>1 DEF Stmt
  <2> HIDE DEF d, z
  <2>4. Busy(w) /\ Reads(w) /\ x.at <= x.granted /\ x.locked /\ x.at \in Nat /\ x.granted \in Nat
    BY <1>1, <2>2, StmtIs DEF StmtInv, Reads, Busy
  <2>5. CASE x.rc
    BY <1>4, <2>1, <2>3, <2>4, <2>5
  <2>6. CASE ~x.rc
    <3>1. RowsMoved(w) = {} /\ y = d /\ x.at = t.snapshot
      BY <1>1, <2>1, <2>2, <2>4, <2>6 DEF SlotInv
    <3>2. ASSUME NEW k \in x.keys, NEW i \in Written(k), i <= x.granted PROVE i <= t.snapshot
      <4>1. i \in Nat
        BY <1>1 DEF Written
      <4>2. i > x.at => i > x.granted
        BY <1>1, <2>2, <2>4, <3>1, <3>2, RowsRested
      <4> QED
        BY <2>4, <3>1, <3>2, <4>1, <4>2
    <3> QED
      BY <1>4, <2>1, <2>3, <2>4, <2>6, <3>1, <3>2
  <2> QED
    BY <2>5, <2>6
<1> QED
  BY <1>1, <1>3, <1>5, <1>6, <1>7, <1>8 DEF Goes

\* What a transaction that goes on keeps.
LEMMA KeptStays ==
    ASSUME TypeInv, AutoInv, SessInv, Next, Retained, NEW s \in Sessions, NEW r \in {txn[s].kept} \cup txn[s].mark,
           txn[s].step = "open", txn'[s].step = "open", txn'[s].n = txn[s].n, txn'[s].level = txn[s].level,
           txn[s].ran /\ txn[s].level # "committed" => txn'[s].ran /\ txn'[s].snapshot = txn[s].snapshot
    PROVE  KeptInv(r, IdOf(s))' /\ ReadsFit(s, r)'
<1>1. /\ TypeOK /\ Grows /\ r \in Kept /\ IdOf(s) \in Txns /\ IdOf(s)' = IdOf(s)
      /\ KeptFits(r) /\ PointsBelow(r) /\ KeptHolds(r, IdOf(s)) /\ ReadsFit(s, r)
  BY NextGrows, Places DEF TypeInv, TypeOK, Txn, IdOf, SessInv, TxnInv, KeptInv
<1>2. KeptHolds(r, IdOf(s))'
  <2>1. Steady(IdOf(s))
    BY <1>1, OpenKeeps, TxnSteady
  <2>2. \A o \in Txns : Steady(o) /\ KeptHolds(r, o) => KeptHolds(r, o)'
    BY <1>1, HoldsStays
  <2>3. \A o : o = IdOf(s) /\ KeptHolds(r, o)' => KeptHolds(r, IdOf(s))'
    BY <1>1 DEF KeptHolds, Alone
  <2> QED
    BY <1>1, <2>1, <2>2, <2>3
<1>3. \/ gone' = gone
      \/ gone' = Len(log) /\ UNCHANGED log /\ (r.writes # {} => \A k \in Keys : PointOf(r, k) = Len(log))
  BY GoneMoves, InUseIs
<1>4. KeptFits(r)' /\ PointsBelow(r)'
  BY <1>1, <1>3, FitsStays
<1>5. ReadsFit(s, r)'
  BY <1>1, ReadsStay
<1> QED
  BY <1>2, <1>4, <1>5 DEF KeptInv

\* A transaction with nothing.
LEMMA TxnFresh ==
    ASSUME NEW s, txn'[s].kept = Nothing, txn'[s].mark = {}, ~txn'[s].ran
    PROVE  TxnInv(s)'
BY NothingFits DEF TxnInv

\* One that goes on with what it kept, or what it marked, or nothing.
LEMMA TxnStays ==
    ASSUME TypeInv, AutoInv, SessInv, Next, Retained, NEW s \in Sessions,
           txn[s].step = "open", txn'[s].step = "open", txn'[s].n = txn[s].n, txn'[s].level = txn[s].level,
           {txn'[s].kept} \cup txn'[s].mark \subseteq {txn[s].kept, Nothing} \cup txn[s].mark,
           txn[s].ran /\ txn[s].level # "committed" => txn'[s].ran /\ txn'[s].snapshot = txn[s].snapshot,
           txn'[s].ran /\ txn[s].level # "committed" /\ ~txn[s].ran =>
               gone' = gone /\ gone <= txn'[s].snapshot /\ txn'[s].snapshot <= Visible(s)
    PROVE  TxnInv(s)'
<1>1. TypeOK /\ TypeOK' /\ Grows /\ TxnInv(s) /\ txn[s] \in Txn /\ txn'[s] \in Txn
  BY NextGrows, TypesStep DEF TypeInv, TypeOK, SessInv
<1>2. \A r \in {txn[s].kept} \cup txn[s].mark : KeptInv(r, IdOf(s))' /\ ReadsFit(s, r)'
  BY KeptStays
<1>3. \A r \in {txn'[s].kept} \cup txn'[s].mark : KeptInv(r, IdOf(s))' /\ ReadsFit(s, r)'
  <2> TAKE r \in {txn'[s].kept} \cup txn'[s].mark
  <2>1. CASE r = Nothing
    <3>1. \A o : KeptInv(Nothing, o)' /\ ReadsFit(s, Nothing)'
      BY NothingFits
    <3>2. \A o : o = IdOf(s)' /\ KeptInv(Nothing, o)' => KeptInv(Nothing, IdOf(s))'
      BY DEF KeptInv, KeptHolds, Alone
    <3>3. KeptInv(Nothing, IdOf(s))'
      BY <3>1, <3>2
    <3> QED
      BY <2>1, <3>1, <3>3
  <2>2. CASE r # Nothing
    BY <1>2, <2>2
  <2> QED
    BY <2>1, <2>2
<1>4. txn'[s].ran /\ txn'[s].level = "repeatable" => gone' <= txn'[s].snapshot /\ txn'[s].snapshot <= Visible(s)'
  <2> SUFFICES ASSUME txn'[s].ran, txn'[s].level = "repeatable"
               PROVE  gone' <= txn'[s].snapshot /\ txn'[s].snapshot <= Visible(s)'
    OBVIOUS
  <2>1. Visible(s) \in 0 .. Len(log) /\ Visible(s)' \in Nat /\ Visible(s) <= Visible(s)' /\ gone \in Nat /\ txn'[s].snapshot \in Nat
        /\ Len(log) \in Nat
    BY <1>1, HereGrows, HereIs, Numbers, SMTT(60) DEF TypeOK, Txn
  <2>2. CASE ~txn[s].ran
    BY <2>1, <2>2
  <2>3. CASE txn[s].ran
    <3>1. txn'[s].snapshot = txn[s].snapshot /\ gone <= txn[s].snapshot /\ txn[s].snapshot <= Visible(s)
      BY <1>1, <2>3 DEF TxnInv
    <3>2. gone' = gone \/ (gone' = Len(log) /\ txn[s].snapshot = Len(log))
      BY <2>3, GoneMoves, InUseIs
    <3> QED
      BY <2>1, <3>1, <3>2
  <2> QED
    BY <2>2, <2>3
<1> QED
  BY <1>3, <1>4 DEF TxnInv

\* What a statement's rows add to what its transaction keeps.
LEMMA KeepRowsIs ==
    ASSUME NEW r \in Kept, NEW x \in Stmt
    PROVE  LET y == KeepRows(r, x)
           IN  /\ y \in Kept /\ y.writes = r.writes \cup x.keys /\ (y.locked <=> r.locked /\ x.locked)
               /\ \A k \in Keys : y.base[k] = IF k \in x.keys THEN x.base[k] ELSE r.base[k]
               /\ x.locked => /\ y.floor = r.floor
                              /\ \A k \in Keys : y.point[k] = IF k \notin x.keys THEN r.point[k]
                                                              ELSE Min({x.at, IF r.point[k] # None THEN r.point[k] ELSE r.floor})
               /\ ~x.locked => y.point = r.point /\ y.floor = Min({r.floor, x.at})
<1> DEFINE b == [k \in Keys |-> IF k \in x.keys THEN x.base[k] ELSE r.base[k]]
           rows == [r EXCEPT !.writes = r.writes \cup x.keys, !.base = b, !.locked = r.locked /\ x.locked]
           p == [k \in Keys |-> IF k \notin x.keys THEN r.point[k]
                                ELSE Min({x.at, IF r.point[k] # None THEN r.point[k] ELSE r.floor})]
           f == Min({r.floor, x.at})
           y == KeepRows(r, x)
<1>1. rows.writes = r.writes \cup x.keys /\ rows.base = b /\ (rows.locked <=> r.locked /\ x.locked)
      /\ rows.point = r.point /\ rows.floor = r.floor
  BY DEF Kept
<1>2. b \in Bases
  BY StmtIs, KeptIs DEF Bases
<1>3. /\ \A k \in Keys : b[k] = IF k \in x.keys THEN x.base[k] ELSE r.base[k]
      /\ \A k \in Keys : p[k] = IF k \notin x.keys THEN r.point[k]
                                ELSE Min({x.at, IF r.point[k] # None THEN r.point[k] ELSE r.floor})
  OBVIOUS
<1> HIDE DEF b
<1>4. rows \in Kept
  BY <1>2, StmtIs DEF Kept
<1>5. y = IF x.locked THEN NoteKeys(rows, x.keys, x.at) ELSE NoteFloor(rows, x.at)
  BY DEF KeepRows, b
<1>6. y \in Kept
  BY KeepTypes
<1> HIDE DEF rows, y
<1>7. NoteKeys(rows, x.keys, x.at) = [rows EXCEPT !.point = p] /\ NoteFloor(rows, x.at) = [rows EXCEPT !.floor = f]
  BY <1>1 DEF NoteKeys, NoteFloor
<1> HIDE DEF p, f
<1>8. x.locked => y.writes = rows.writes /\ y.base = rows.base /\ (y.locked <=> rows.locked) /\ y.point = p /\ y.floor = r.floor
  BY <1>1, <1>4, <1>5, <1>7 DEF Kept
<1>9. ~x.locked => y.writes = rows.writes /\ y.base = rows.base /\ (y.locked <=> rows.locked) /\ y.point = r.point /\ y.floor = f
  BY <1>1, <1>4, <1>5, <1>7 DEF Kept
<1>10. y.writes = r.writes \cup x.keys /\ (y.locked <=> r.locked /\ x.locked) /\ y.base = b
  BY <1>1, <1>8, <1>9
<1> QED
  BY <1>3, <1>6, <1>8, <1>9, <1>10 DEF y, f

\* A statement's rows, added to what its transaction keeps, are checked from where they were read at the latest; locked, they are held.
LEMMA KeptMore ==
    ASSUME TypeInv, SessInv, NEW w \in Slots, stmt[w].step = "done", NEW y \in Kept, NEW told \in BOOLEAN,
           told => stmt[w].locked \/ stmt[w].keys = {}, ~told => ~stmt[w].locked,
           y.locked => txn[SessionOf(w)].kept.locked /\ told,
           \A k \in y.writes : \/ k \in stmt[w].keys /\ y.base[k] = stmt[w].base[k]
                               \/ k \in txn[SessionOf(w)].kept.writes /\ y.base[k] = txn[SessionOf(w)].kept.base[k],
           told => /\ y.floor = txn[SessionOf(w)].kept.floor
                   /\ \A k \in Keys : y.point[k] =
                          IF k \notin stmt[w].keys THEN txn[SessionOf(w)].kept.point[k]
                          ELSE Min({stmt[w].at, IF txn[SessionOf(w)].kept.point[k] # None
                                                THEN txn[SessionOf(w)].kept.point[k] ELSE txn[SessionOf(w)].kept.floor}),
           ~told => y.point = txn[SessionOf(w)].kept.point /\ y.floor = Min({txn[SessionOf(w)].kept.floor, stmt[w].at})
    PROVE  KeptInv(y, IdOf(SessionOf(w))) /\ ReadsFit(SessionOf(w), y)
<1> DEFINE s == SessionOf(w)
           x == stmt[w]
           t == txn[s]
           r == t.kept
           old(k) == IF r.point[k] # None THEN r.point[k] ELSE r.floor
<1>1. /\ TypeOK /\ s \in Sessions /\ w \in Stmts /\ w \notin Autos /\ x \in Stmt /\ t \in Txn /\ r \in Kept /\ Len(log) \in Nat
      /\ Len(log) <= MaxN /\ SlotInv(w) /\ TxnInv(s) /\ Busy(w) /\ MaxN \in Nat
  BY Places, Numbers DEF TypeInv, TypeOK, Txn, SessInv, Busy
<1>2. /\ t.step = "open" /\ x.id = IdOf(s) /\ (x.rc <=> t.level = "committed") /\ t.ran /\ Own(w) = r
      /\ Reads(w) /\ Rests(w) /\ Holds(w)
      /\ x.rc => \A k \in Keys : r.point[k] # None => r.point[k] <= x.at
      /\ ~x.rc => /\ ~x.locked => x.at = t.snapshot
                  /\ \A k \in x.keys : \A i \in Written(k) : i <= x.at => i <= t.snapshot
  BY <1>1 DEF SlotInv, StmtInv, Own
<1>3. KeptFits(r) /\ PointsBelow(r) /\ KeptHolds(r, IdOf(s)) /\ ReadsFit(s, r)
  BY <1>1 DEF TxnInv, KeptInv
<1>4. /\ x.at \in Nat /\ x.at <= Len(log) /\ gone <= x.at /\ x.at <= Visible(s) /\ gone \in Nat /\ x.at # None
      /\ x.keys \subseteq Keys /\ x.locked \in BOOLEAN /\ x.rc \in BOOLEAN
      /\ \A k \in x.keys : x.base[k] \in Nat
  <2>1. Here(w) \in 0 .. Len(log) /\ Here(w) = Visible(s)
    BY <1>1, HereIs DEF Here
  <2>2. x.at <= Here(w) /\ gone <= x.at
    BY <1>2 DEF Reads
  <2> QED
    BY <1>1, <2>1, <2>2, StmtIs, Numbers DEF TypeOK
<1>5. /\ r.floor \in Nat /\ r.floor <= None /\ None = MaxN + 1 /\ r.writes \subseteq Keys /\ y.writes \subseteq Keys
      /\ \A k \in Keys : r.point[k] \in Nat /\ r.point[k] <= None /\ old(k) \in Nat /\ PointOf(r, k) \in Nat
                         /\ PointOf(y, k) \in Nat /\ y.point[k] \in Nat /\ y.floor \in Nat /\ r.base[k] \in Nat
  BY <1>1, KeptIs, Numbers
<1>6. /\ \A k \in Keys : told /\ k \notin x.keys => y.point[k] = r.point[k]
      /\ \A k \in x.keys : told => y.point[k] = IF x.at <= old(k) THEN x.at ELSE old(k)
      /\ told => y.floor = r.floor
      /\ ~told => y.point = r.point /\ y.floor = IF r.floor <= x.at THEN r.floor ELSE x.at
  <2>1. \A k \in Keys : Min({x.at, old(k)}) = IF x.at <= old(k) THEN x.at ELSE old(k)
    BY <1>4, <1>5, MinOfTwo, ZenonT(60)
  <2>2. Min({r.floor, x.at}) = IF r.floor <= x.at THEN r.floor ELSE x.at
    BY <1>4, <1>5, MinOfTwo, SMTT(60)
  <2> QED
    BY <1>4, <2>1, <2>2
<1>7. /\ \A k \in x.keys : told => y.point[k] <= x.at /\ y.point[k] <= old(k) /\ y.point[k] # None
      /\ ~told => y.floor <= x.at /\ y.floor <= r.floor /\ y.floor # None
  BY <1>1, <1>4, <1>5, <1>6, SMTT(60)
<1> HIDE DEF old
<1>8. \A k \in r.writes : old(k) = PointOf(r, k)
  BY <1>3 DEF KeptFits, PointOf, old
<1>9. \A k \in r.writes : PointOf(y, k) <= PointOf(r, k) /\ (y.point[k] # None \/ y.floor # None)
  <2> TAKE k \in r.writes
  <2>1. k \in Keys /\ (r.point[k] # None \/ r.floor # None)
    BY <1>3, <1>5 DEF KeptFits
  <2>2. CASE told /\ k \in x.keys
    <3>1. PointOf(y, k) = y.point[k] /\ y.point[k] # None
      BY <1>7, <2>2 DEF PointOf
    <3> QED
      BY <1>7, <1>8, <2>2, <3>1
  <2>3. CASE told /\ k \notin x.keys
    <3>1. y.point[k] = r.point[k] /\ y.floor = r.floor
      BY <1>6, <2>1, <2>3
    <3> QED
      BY <1>5, <2>1, <3>1 DEF PointOf
  <2>4. CASE ~told
    BY <1>5, <1>6, <1>7, <2>1, <2>4 DEF PointOf
  <2> QED
    BY <2>2, <2>3, <2>4
<1>10. ASSUME NEW k \in x.keys, NEW i \in Written(k), i > x.at
       PROVE  i > gone /\ i > PointOf(y, k) /\ (y.point[k] # None \/ y.floor # None)
  <2>1. k \in Keys /\ i \in Nat
    BY <1>1, <1>4 DEF Written
  <2>2. CASE told
    <3>1. PointOf(y, k) = y.point[k] /\ y.point[k] # None /\ y.point[k] <= x.at
      BY <1>7, <2>2 DEF PointOf
    <3> QED
      BY <1>4, <1>5, <1>10, <2>1, <3>1, SMTT(60)
  <2>3. CASE ~told /\ r.point[k] = None
    <3>1. PointOf(y, k) = y.floor /\ y.floor # None /\ y.floor <= x.at
      BY <1>6, <1>7, <2>3 DEF PointOf
    <3> QED
      BY <1>4, <1>5, <1>10, <2>1, <3>1
  <2>4. CASE ~told /\ r.point[k] # None
    <3>1. PointOf(y, k) = r.point[k] /\ y.point[k] # None
      BY <1>6, <2>4 DEF PointOf
    <3>2. CASE x.rc
      BY <1>2, <1>4, <1>5, <1>10, <2>1, <2>4, <3>1, <3>2, SMTT(60)
    <3>3. CASE ~x.rc
      <4>1. x.at = t.snapshot
        BY <1>2, <2>4, <3>3
      <4>2. i <= r.point[k] => i <= t.snapshot
        BY <1>2, <1>3, <2>1, <2>4, <3>3 DEF ReadsFit
      <4> QED
        BY <1>4, <1>5, <1>10, <2>1, <3>1, <4>1, <4>2, SMTT(60)
    <3> QED
      BY <3>2, <3>3
  <2> QED
    BY <2>2, <2>3, <2>4
<1>11. KeptFits(y)
  <2> SUFFICES ASSUME NEW k \in y.writes
               PROVE  /\ y.point[k] # None \/ y.floor # None
                      /\ \A i \in Written(k) : i > y.base[k] => i > gone /\ i > PointOf(y, k)
    BY DEF KeptFits
  <2>1. CASE k \in r.writes
    <3>1. y.base[k] = r.base[k]
      <4>1. k \in x.keys => x.base[k] = r.base[k]
        BY <1>2, <2>1 DEF Rests
      <4> QED
        BY <4>1
    <3>2. \A i \in Written(k) : i > y.base[k] => i > gone /\ i > PointOf(r, k)
      BY <1>3, <2>1, <3>1 DEF KeptFits
    <3>3. \A i \in Written(k) : i \in Nat
      BY <1>1 DEF Written
    <3> QED
      BY <1>5, <1>9, <2>1, <3>2, <3>3
  <2>2. CASE k \notin r.writes
    <3>1. k \in x.keys /\ y.base[k] = x.base[k]
      BY <2>2
    <3>2. \A i \in Written(k) : i > y.base[k] => i > x.at
      BY <1>2, <2>2, <3>1 DEF Rests
    <3>3. y.point[k] # None \/ y.floor # None
      BY <1>7, <3>1
    <3> QED
      BY <1>10, <3>1, <3>2, <3>3
  <2> QED
    BY <2>1, <2>2
<1>12. PointsBelow(y)
  <2>1. y.floor = None \/ y.floor <= Len(log)
    BY <1>1, <1>3, <1>4, <1>5, <1>6, <1>7 DEF PointsBelow
  <2>2. \A k \in Keys : y.point[k] = None \/ y.point[k] <= Len(log)
    <3> TAKE k \in Keys
    <3>1. CASE told /\ k \in x.keys
      BY <1>1, <1>4, <1>5, <1>7, <3>1, SMTT(60)
    <3>2. CASE ~(told /\ k \in x.keys)
      <4>1. y.point[k] = r.point[k]
        BY <1>6, <3>2
      <4> QED
        BY <1>3, <4>1 DEF PointsBelow
    <3> QED
      BY <3>1, <3>2
  <2> QED
    BY <2>1, <2>2 DEF PointsBelow
<1>13. KeptHolds(y, IdOf(s))
  <2> SUFFICES ASSUME y.locked
               PROVE  /\ y.floor = None
                      /\ \A k \in y.writes : y.point[k] # None
                      /\ IdOf(s) \notin lapsed => \A k \in Keys : y.point[k] # None => lock[k] = IdOf(s) /\ Alone(k, y.point[k], IdOf(s))
    BY DEF KeptHolds
  <2>1. r.locked /\ told /\ r.floor = None /\ (\A k \in r.writes : r.point[k] # None) /\ y.floor = None
    BY <1>3, <1>6 DEF KeptHolds
  <2>2. \A k \in y.writes : y.point[k] # None
    BY <1>5, <1>6, <1>7, <2>1
  <2>3. ASSUME IdOf(s) \notin lapsed, NEW k \in Keys, y.point[k] # None
        PROVE  lock[k] = IdOf(s) /\ Alone(k, y.point[k], IdOf(s))
    <3>1. r.point[k] # None => lock[k] = IdOf(s) /\ Alone(k, r.point[k], IdOf(s))
      BY <1>3, <2>1, <2>3 DEF KeptHolds
    <3>2. CASE k \notin x.keys
      BY <1>6, <2>1, <2>3, <3>1, <3>2
    <3>3. CASE k \in x.keys
      <4>1. x.locked /\ k \in x.held /\ lock[k] = IdOf(s) /\ Alone(k, x.at, IdOf(s))
        BY <1>2, <2>1, <2>3, <3>3 DEF Reads, Holds
      <4>2. y.point[k] = x.at \/ (y.point[k] = old(k) /\ old(k) # None)
        BY <1>6, <1>7, <2>1, <3>3
      <4>3. old(k) # None => old(k) = r.point[k] /\ r.point[k] # None
        BY <2>1 DEF old
      <4> QED
        BY <3>1, <4>1, <4>2, <4>3
    <3> QED
      BY <3>2, <3>3
  <2> QED
    BY <2>1, <2>2, <2>3
<1>14. ReadsFit(s, y)
  <2> SUFFICES ASSUME NEW k \in Keys, y.point[k] # None
               PROVE  IF t.level = "committed" THEN y.point[k] <= Visible(s)
                      ELSE t.ran /\ \A i \in Written(k) : i <= y.point[k] => i <= t.snapshot
    BY DEF ReadsFit
  <2>1. \A i \in Written(k) : i \in Nat
    BY <1>1 DEF Written
  <2>2. CASE told /\ k \in x.keys
    <3>1. y.point[k] <= x.at
      BY <1>7, <2>2
    <3>2. Visible(s) \in Nat
      BY <1>1, HereIs
    <3> QED
      BY <1>2, <1>4, <1>5, <2>1, <2>2, <3>1, <3>2, SMTT(60)
  <2>3. CASE ~(told /\ k \in x.keys)
    <3>1. y.point[k] = r.point[k]
      BY <1>6, <2>3
    <3> QED
      BY <1>3, <3>1 DEF ReadsFit
  <2> QED
    BY <2>2, <2>3
<1> QED
  BY <1>11, <1>12, <1>13, <1>14 DEF KeptInv

\* What is kept, added to.
LEMMA TxnAdds ==
    ASSUME TypeInv, AutoInv, SessInv, Next, Retained, NEW s \in Sessions, NEW y \in Kept,
           UNCHANGED <<log, gone, seen, lock, lapsed>>, txn[s].step = "open", txn'[s] = [txn[s] EXCEPT !.kept = y],
           KeptInv(y, IdOf(s)), ReadsFit(s, y)
    PROVE  TxnInv(s)'
<1>1. TypeOK /\ txn[s] \in Txn /\ TxnInv(s)
  BY DEF TypeInv, TypeOK, SessInv
<1>2. /\ txn'[s].step = "open" /\ txn'[s].n = txn[s].n /\ txn'[s].level = txn[s].level /\ txn'[s].ran = txn[s].ran
      /\ txn'[s].snapshot = txn[s].snapshot /\ txn'[s].kept = y /\ txn'[s].mark = txn[s].mark
  BY <1>1 DEF Txn
<1>3. IdOf(s)' = IdOf(s) /\ Visible(s)' = Visible(s) /\ \A k : Written(k)' = Written(k)
  BY <1>2 DEF IdOf, Visible, Written
<1>4. \A k, n, o : Alone(k, n, o)' <=> Alone(k, n, o)
  BY <1>3 DEF Alone
<1>5. KeptInv(y, IdOf(s))'
  BY <1>3, <1>4 DEF KeptInv, KeptFits, PointsBelow, KeptHolds
<1>6. ReadsFit(s, y)'
  BY <1>2, <1>3 DEF ReadsFit
<1>7. \A r \in txn[s].mark : KeptInv(r, IdOf(s))' /\ ReadsFit(s, r)'
  BY <1>2, KeptStays
<1> QED
  BY <1>1, <1>2, <1>3, <1>5, <1>6, <1>7 DEF TxnInv

\* `keep`, after a write,
LEMMA KeepKeeps ==
    ASSUME TypeInv, AutoInv, SessInv, Next, Retained, NEW w \in Slots, Keep(w), ~Fails(w)
    PROVE  TxnInv(SessionOf(w))'
<1> DEFINE s == SessionOf(w)
           x == stmt[w]
           t == txn[s]
           y == KeepRows(t.kept, x)
<1>1. TypeOK /\ s \in Sessions /\ x \in Stmt /\ t \in Txn /\ t.kept \in Kept /\ x.locked \in BOOLEAN
  BY Places, StmtIs DEF TypeInv, TypeOK, Txn
<1>2. /\ x.step = "done" /\ t.step = "open" /\ txn' = [txn EXCEPT ![s].kept = y] /\ UNCHANGED <<log, gone, seen, lock, lapsed>>
  BY DEF Keep
<1>3. y \in Kept
  BY <1>1, KeepRowsIs, ZenonT(60)
<1>4. KeptInv(y, IdOf(s)) /\ ReadsFit(s, y)
  <2>1. /\ y.writes = t.kept.writes \cup x.keys /\ (y.locked <=> t.kept.locked /\ x.locked)
        /\ \A k \in Keys : y.base[k] = IF k \in x.keys THEN x.base[k] ELSE t.kept.base[k]
        /\ x.locked => /\ y.floor = t.kept.floor
                       /\ \A k \in Keys : y.point[k] = IF k \notin x.keys THEN t.kept.point[k]
                                                       ELSE Min({x.at, IF t.kept.point[k] # None THEN t.kept.point[k] ELSE t.kept.floor})
        /\ ~x.locked => y.point = t.kept.point /\ y.floor = Min({t.kept.floor, x.at})
    <3>1. t.kept \in Kept /\ x \in Stmt
      BY <1>1
    <3> HIDE DEF t, x
    <3> QED
      BY <3>1, KeepRowsIs
  <2>2. y.writes \subseteq Keys
    BY <1>3, KeptIs
  <2> HIDE DEF y
  <2> QED
    BY <1>1, <1>2, <1>3, <2>1, <2>2, KeptMore
<1>5. txn'[s] = [t EXCEPT !.kept = y]
  BY <1>1, <1>2 DEF TypeOK
<1> HIDE DEF y
<1> QED
  BY <1>1, <1>2, <1>3, <1>4, <1>5, TxnAdds

\* and `read_keys`, after a locking read, add them.
LEMMA KeepLocksKeeps ==
    ASSUME TypeInv, AutoInv, SessInv, Next, Retained, NEW w \in Slots, KeepLocks(w)
    PROVE  TxnInv(SessionOf(w))'
<1> DEFINE s == SessionOf(w)
           x == stmt[w]
           t == txn[s]
           p == [k \in Keys |-> IF k \notin x.keys THEN t.kept.point[k]
                                ELSE Min({x.at, IF t.kept.point[k] # None THEN t.kept.point[k] ELSE t.kept.floor})]
           r == NoteKeys(t.kept, x.keys, x.at)
           y == [r EXCEPT !.locked = r.locked /\ IdOf(s) = x.id]
<1>1. TypeOK /\ s \in Sessions /\ x \in Stmt /\ t \in Txn /\ t.kept \in Kept /\ x.locked \in BOOLEAN /\ SlotInv(w)
      /\ x.at \in Commits /\ x.keys \in SUBSET Keys
  BY Places, StmtIs DEF TypeInv, TypeOK, Txn, SessInv
<1>2. x.step = "done" /\ x.read /\ UNCHANGED <<log, gone, seen, lock, lapsed>>
  BY DEF KeepLocks
<1>3. t.step = "open" /\ x.id = IdOf(s) /\ (~x.locked => x.keys = {})
  BY <1>1, <1>2 DEF SlotInv, StmtInv, Reads, Busy
<1>4. r \in Kept
  BY <1>1, NoteTypes
<1>5. r = [t.kept EXCEPT !.point = p]
  BY DEF NoteKeys
<1>6. \A k \in Keys : p[k] = IF k \notin x.keys THEN t.kept.point[k]
                             ELSE Min({x.at, IF t.kept.point[k] # None THEN t.kept.point[k] ELSE t.kept.floor})
  OBVIOUS
<1> HIDE DEF p
<1>7. r.floor = t.kept.floor /\ r.point = p /\ r.writes = t.kept.writes /\ r.base = t.kept.base /\ r.locked = t.kept.locked
  BY <1>1, <1>5 DEF Kept
<1>8. txn'[s] = [t EXCEPT !.kept = y]
  <2>1. txn' = [txn EXCEPT ![s].kept = [r EXCEPT !.locked = @ /\ IdOf(s) = x.id]]
    BY <1>3 DEF KeepLocks
  <2> HIDE DEF r
  <2>2. [r EXCEPT !.locked = @ /\ IdOf(s) = x.id] = y
    BY <1>4 DEF Kept
  <2> HIDE DEF y
  <2> QED
    BY <1>1, <2>1, <2>2 DEF TypeOK
<1> HIDE DEF r
<1>9. y \in Kept /\ y.floor = r.floor /\ y.point = r.point /\ y.writes = r.writes /\ y.base = r.base /\ (y.locked => r.locked)
  BY <1>4 DEF Kept
<1> HIDE DEF y
<1>10. KeptInv(y, IdOf(s)) /\ ReadsFit(s, y)
  <2>1. /\ y.locked => t.kept.locked
        /\ \A k \in y.writes : k \in t.kept.writes /\ y.base[k] = t.kept.base[k]
        /\ y.floor = t.kept.floor
        /\ \A k \in Keys : y.point[k] = IF k \notin x.keys THEN t.kept.point[k]
                                        ELSE Min({x.at, IF t.kept.point[k] # None THEN t.kept.point[k] ELSE t.kept.floor})
    BY <1>6, <1>7, <1>9
  <2>2. TRUE \in BOOLEAN /\ (x.locked \/ x.keys = {})
    BY <1>1, <1>3
  <2> QED
    BY <1>1, <1>2, <1>9, <2>1, <2>2, KeptMore
<1> QED
  BY <1>1, <1>2, <1>3, <1>8, <1>9, <1>10, TxnAdds

\* Every step keeps what a session's transaction has,
LEMMA TxnInvStep ==
    ASSUME TypeInv, AutoInv, SessInv, Next, Retained, NEW s \in Sessions
    PROVE  TxnInv(s)'
<1> DEFINE t == txn[s]
<1>1. TypeOK /\ txn \in [Sessions -> Txn] /\ t \in Txn /\ TxnInv(s)
  BY DEF TypeInv, TypeOK, SessInv
<1>2. CASE txn'[s] = t
  <2>1. CASE t.step = "open"
    BY <1>2, <2>1, TxnStays
  <2>2. CASE t.step # "open"
    <3>1. t.kept = Nothing /\ t.mark = {} /\ ~t.ran
      BY <1>1, <2>2 DEF TxnInv
    <3> QED
      BY <1>2, <3>1, TxnFresh
  <2> QED
    BY <2>1, <2>2
<1>3. Over(s).kept = Nothing /\ Over(s).mark = {} /\ ~Over(s).ran
  BY DEF Over, NoTxn
<1>4. CASE Begin(s)
  <2>1. PICK level \in {"committed", "repeatable"} :
            txn'[s] = [NoTxn EXCEPT !.step = "open", !.n = txn[s].n + 1, !.level = level]
    BY <1>1, <1>4 DEF Begin
  <2>2. txn'[s].kept = Nothing /\ txn'[s].mark = {} /\ ~txn'[s].ran
    BY <2>1 DEF NoTxn
  <2> QED
    BY <2>2, TxnFresh
<1>5. CASE Rollback(s) \/ Commit(s)
  <2>1. txn'[s] = Over(s)
    BY <1>1, <1>5 DEF Rollback, Commit
  <2> QED
    BY <1>3, <2>1, TxnFresh
<1>6. CASE Savepoint(s)
  <2>1. t.step = "open" /\ txn'[s] = [t EXCEPT !.mark = {t.kept}]
    BY <1>1, <1>6 DEF Savepoint
  <2>2. /\ txn'[s].step = "open" /\ txn'[s].n = t.n /\ txn'[s].level = t.level /\ txn'[s].ran = t.ran
        /\ txn'[s].snapshot = t.snapshot /\ txn'[s].kept = t.kept /\ txn'[s].mark = {t.kept}
    BY <1>1, <2>1 DEF Txn
  <2> QED
    BY <2>1, <2>2, TxnStays
<1>7. CASE RollbackTo(s)
  <2>1. PICK m \in t.mark : t.step = "open" /\ txn'[s] = [t EXCEPT !.kept = m, !.failed = FALSE]
    BY <1>1, <1>7 DEF RollbackTo
  <2>2. /\ txn'[s].step = "open" /\ txn'[s].n = t.n /\ txn'[s].level = t.level /\ txn'[s].ran = t.ran
        /\ txn'[s].snapshot = t.snapshot /\ txn'[s].kept = m /\ txn'[s].mark = t.mark
    BY <1>1, <2>1 DEF Txn
  <2> QED
    BY <2>1, <2>2, TxnStays
<1>8. ASSUME NEW w \in Slots, SessionOf(w) = s, Fails(w) PROVE TxnInv(s)'
  <2>1. CASE t.step = "open"
    <3>1. txn'[s] = [t EXCEPT !.failed = TRUE, !.kept = Nothing]
      BY <1>1, <1>8, <2>1, Places DEF Fails
    <3>2. /\ txn'[s].step = "open" /\ txn'[s].n = t.n /\ txn'[s].level = t.level /\ txn'[s].ran = t.ran
          /\ txn'[s].snapshot = t.snapshot /\ txn'[s].kept = Nothing /\ txn'[s].mark = t.mark
      BY <1>1, <2>1, <3>1 DEF Txn
    <3> QED
      BY <2>1, <3>2, TxnStays
  <2>2. CASE t.step # "open"
    BY <1>2, <1>8, <2>2, Places DEF Fails
  <2> QED
    BY <2>1, <2>2
<1>9. ASSUME NEW w \in Slots, SessionOf(w) = s, Start(w) PROVE TxnInv(s)'
  <2> DEFINE n == IF t.level = "committed" THEN 0 ELSE ReadAt(s)
  <2>1. t.step = "open" /\ txn'[s] = [t EXCEPT !.snapshot = n, !.ran = TRUE] /\ UNCHANGED gone
    BY <1>1, <1>9 DEF Start
  <2>2. t.level # "committed" => n = ReadAt(s)
    OBVIOUS
  <2> HIDE DEF n
  <2>3. /\ txn'[s].step = "open" /\ txn'[s].n = t.n /\ txn'[s].level = t.level /\ txn'[s].ran
        /\ txn'[s].snapshot = n /\ txn'[s].kept = t.kept /\ txn'[s].mark = t.mark
    BY <1>1, <2>1 DEF Txn
  <2>4. t.ran /\ t.level # "committed" => n = t.snapshot
    BY <2>2 DEF ReadAt
  <2>5. t.level # "committed" => gone <= n /\ n <= Visible(s)
    BY <2>2, ReadAtIs
  <2> QED
    BY <2>1, <2>3, <2>4, <2>5, TxnStays
<1>10. ASSUME NEW w \in Slots, SessionOf(w) = s, Start(w) \/ Keep(w) \/ KeepLocks(w) \/ Fails(w) PROVE TxnInv(s)'
  BY <1>8, <1>9, <1>10, KeepKeeps, KeepLocksKeeps
<1>11. CASE Restart /\ s \notin Follower
  <2>1. txn'[s] = Over(s)
    BY <1>11 DEF Restart
  <2> QED
    BY <1>3, <2>1, TxnFresh
<1>12. txn'[s] = t \/ TxnGoes(s)
  BY <1>1, TxnMoves
<1>13. CASE \E w \in Slots : SessionOf(w) = s /\ (Start(w) \/ Keep(w) \/ KeepLocks(w) \/ Fails(w))
  BY <1>10, <1>13
<1> QED
  BY <1>2, <1>4, <1>5, <1>6, <1>7, <1>11, <1>12, <1>13 DEF TxnGoes

\* and what its statement has.
LEMMA SlotInvStep ==
    ASSUME TypeInv, AutoInv, SessInv, Next, Serial, Overlap = 1, Retained, NEW w \in Slots
    PROVE  SlotInv(w)'
<1>1. TypeOK /\ TypeInv' /\ w \in Stmts
  BY TypesStep, Places DEF TypeInv
<1>2. CASE ~Busy(w)'
  BY <1>2 DEF SlotInv, StmtInv
<1>3. CASE Busy(w)' /\ stmt'[w] = stmt[w]
  <2>1. Busy(w)
    BY <1>3 DEF Busy
  <2> QED
    BY <1>3, <2>1, SlotStays
<1>4. CASE Goes(w)
  BY <1>1, <1>4, SlotGoes
<1> QED
  BY <1>1, <1>2, <1>3, <1>4, StmtMoves

-----------------------------------------------------------------------------
(* COMMITs on their way, and the writer under the lake's lock.              *)

Sent(s) == [id |-> IdOf(s), kept |-> txn[s].kept]

\* What a step does to the COMMITs on their way and to the writer under the lake's lock.
LEMMA GateMoves ==
    ASSUME TypeInv, Next
    PROVE  \/ gate' = gate /\ asked' \subseteq asked
           \/ \E s \in Sessions : txn[s].step = "open" /\ Commit(s) /\ gate' = gate /\ asked' = asked \cup {Sent(s)}
                                /\ UNCHANGED lock
           \/ \E c : /\ gate.step = "free" /\ gate'.step = "closing" /\ gate'.c = c /\ asked' = asked \ {c}
                     /\ c \in asked \/ c.id = Nobody
           \/ /\ PassCheck /\ gate.step = "closing" /\ gate'.step = "inside" /\ asked' = asked
              /\ gate'.c.id = gate.c.id /\ (gate.c.id # Nobody => gate'.c = gate.c) /\ gate'.checked = Len(log)
           \/ gate'.step = "free" /\ asked' \subseteq asked
<1>1. gate \in Gate /\ gate.c \in Request /\ gate.c.kept \in Kept /\ Free.step = "free"
  BY DEF TypeInv, TypeOK, Gate, Request, Free
<1>2. ASSUME NEW c, Close(c)
      PROVE  gate.step = "free" /\ gate'.step = "closing" /\ gate'.c = c /\ asked' = asked \ {c}
  BY <1>2 DEF Close, Free
<1>3. CASE \E s \in Sessions : Commit(s)
  BY <1>3 DEF Commit, Sent
<1>4. CASE \E c \in asked : Close(c)
  BY <1>2, <1>4
<1>5. CASE \E k \in Keys : Close(Change(k))
  BY <1>2, <1>5 DEF Change
<1>6. CASE PassCheck
  <2> DEFINE b == IF gate.c.id # Nobody THEN gate.c.kept.base
                  ELSE [k \in Keys |-> IF k \in gate.c.kept.writes THEN Version(k, Len(log)) ELSE 0]
             q == [gate.c EXCEPT !.kept = [gate.c.kept EXCEPT !.base = b]]
  <2>1. gate.step = "closing" /\ asked' = asked /\ gate' = [gate EXCEPT !.step = "inside", !.checked = Len(log), !.c = q]
    BY <1>1, <1>6 DEF PassCheck, Gate, Request, Kept
  <2>2. gate.c.id # Nobody => q = gate.c
    BY <1>1 DEF Request, Kept
  <2>3. q.id = gate.c.id
    BY <1>1 DEF Request
  <2> HIDE DEF q
  <2>4. gate'.step = "inside" /\ gate'.c = q /\ gate'.checked = Len(log)
    BY <1>1, <2>1 DEF Gate
  <2> QED
    BY <1>6, <2>1, <2>2, <2>3, <2>4
<1>7. CASE \E c \in asked \cup {gate.c} : SendFails(c)
  BY <1>7 DEF SendFails
<1>8. CASE Conflict \/ GateTimeout \/ Flush \/ Restart
  BY <1>1, <1>8 DEF Conflict, GateTimeout, Flush, Restart, Leave
<1>9. CASE \/ \E s \in Sessions : Begin(s) \/ Rollback(s) \/ Savepoint(s) \/ RollbackTo(s)
           \/ \E w \in Slots : Start(w) \/ Keep(w) \/ KeepLocks(w)
           \/ \E w \in Autos : StartAuto(w) \/ Enter(w) \/ Land(w)
  BY <1>9 DEF Begin, Rollback, Savepoint, RollbackTo, Start, Keep, KeepLocks, StartAuto, Enter, Land
<1>10. CASE \/ \E w \in Stmts : Pass(w) \/ Moved(w) \/ Grant(w) \/ Refuse(w) \/ Check(w)
            \/ \E k \in Keys : Load(k)
            \/ See \/ Expire
            \/ \E o \in Owners : Lapse(o)
  BY <1>10 DEF Pass, Moved, Grant, Refuse, Check, Load, See, Expire, Lapse
<1> QED
  BY <1>3, <1>4, <1>5, <1>6, <1>7, <1>8, <1>9, <1>10 DEF Next

\* A session's transactions are numbered upwards.
LEMMA NumberMoves ==
    ASSUME TypeInv, Next, NEW s \in Sessions
    PROVE  /\ txn[s].n \in Nat /\ txn'[s].n \in Nat /\ txn[s].n <= txn'[s].n
           /\ txn'[s].step = "open" => (txn[s].step = "open" /\ txn'[s].n = txn[s].n) \/ txn'[s].n > txn[s].n
<1> DEFINE t == txn[s]
<1>1. TypeOK /\ txn \in [Sessions -> Txn] /\ t \in Txn /\ t.n \in Nat
  BY Numbers DEF TypeInv, TypeOK, Txn
<1>2. Over(s).n = t.n /\ Over(s).step = "none"
  BY DEF Over, NoTxn
<1>3. CASE Begin(s)
  <2>1. PICK level \in {"committed", "repeatable"} :
            txn'[s] = [NoTxn EXCEPT !.step = "open", !.n = t.n + 1, !.level = level]
    BY <1>1, <1>3 DEF Begin
  <2>2. txn'[s].n = t.n + 1
    BY <2>1 DEF NoTxn
  <2> QED
    BY <1>1, <2>2
<1>4. CASE Rollback(s) \/ Commit(s) \/ (Restart /\ s \notin Follower)
  <2>1. txn'[s] = Over(s)
    BY <1>1, <1>4 DEF Rollback, Commit, Restart
  <2> QED
    BY <1>1, <1>2, <2>1
<1>5. CASE txn'[s].n = t.n /\ txn'[s].step = t.step
  BY <1>1, <1>5
<1>6. CASE Savepoint(s)
  <2>1. txn'[s] = [t EXCEPT !.mark = {t.kept}]
    BY <1>1, <1>6 DEF Savepoint
  <2> QED
    BY <1>1, <1>5, <2>1 DEF Txn
<1>7. CASE RollbackTo(s)
  <2>1. PICK m \in t.mark : txn'[s] = [t EXCEPT !.kept = m, !.failed = FALSE]
    BY <1>1, <1>7 DEF RollbackTo
  <2> QED
    BY <1>1, <1>5, <2>1 DEF Txn
<1>8. ASSUME NEW w \in Slots, SessionOf(w) = s, Start(w) \/ Keep(w) \/ KeepLocks(w) \/ Fails(w)
      PROVE  txn'[s].n = t.n /\ txn'[s].step = t.step
  <2>1. CASE Start(w)
    <3>1. txn'[s] = [t EXCEPT !.snapshot = IF t.level = "committed" THEN 0 ELSE ReadAt(s), !.ran = TRUE]
      BY <1>1, <1>8, <2>1 DEF Start
    <3> QED
      BY <1>1, <3>1 DEF Txn
  <2>2. CASE Fails(w)
    <3>1. txn'[s] = [t EXCEPT !.failed = TRUE, !.kept = Nothing] \/ txn'[s] = t
      BY <1>1, <1>8, <2>2, Places DEF Fails
    <3> QED
      BY <1>1, <3>1 DEF Txn
  <2>3. ASSUME NEW y, txn' = [txn EXCEPT ![s].kept = y] PROVE txn'[s].n = t.n /\ txn'[s].step = t.step
    BY <1>1, <2>3 DEF Txn
  <2>4. CASE Keep(w) /\ ~Fails(w)
    <3>1. txn' = [txn EXCEPT ![s].kept = KeepRows(t.kept, stmt[w])]
      BY <1>1, <1>8, <2>4 DEF Keep
    <3> QED
      BY <2>3, <3>1
  <2>5. CASE KeepLocks(w)
    <3>1. (\E y : txn' = [txn EXCEPT ![s].kept = y]) \/ txn' = txn
      BY <1>8, <2>5 DEF KeepLocks
    <3> QED
      BY <2>3, <3>1
  <2> QED
    BY <1>8, <2>1, <2>2, <2>4, <2>5
<1>9. txn'[s] = t \/ TxnGoes(s)
  BY <1>1, TxnMoves
<1>10. CASE \E w \in Slots : SessionOf(w) = s /\ (Start(w) \/ Keep(w) \/ KeepLocks(w) \/ Fails(w))
  BY <1>5, <1>8, <1>10
<1> QED
  BY <1>3, <1>4, <1>5, <1>6, <1>7, <1>9, <1>10 DEF TxnGoes

\* What a COMMIT is sent with.
LEMMA SentIs ==
    ASSUME TypeInv, SessInv, NEW s \in Sessions, txn[s].step = "open", Commit(s), UNCHANGED lock, NEW c, c = Sent(s)
    PROVE  /\ c \in Request /\ c.id = IdOf(s) /\ IdOf(s) \in Txns
           /\ PendingInv(c)' /\ KeptFits(c.kept)' /\ PointsBelow(c.kept)'
<1> DEFINE t == txn[s]
           r == c.kept
           o == c.id
<1>1. c = [id |-> IdOf(s), kept |-> t.kept]
  BY DEF Sent
<1>2. TypeOK /\ txn \in [Sessions -> Txn] /\ t \in Txn /\ t.kept \in Kept /\ IdOf(s) \in Txns /\ KeptInv(t.kept, IdOf(s)) /\ t.n \in Nat
  BY Numbers, Places DEF TypeInv, TypeOK, Txn, SessInv, TxnInv
<1>3. o = IdOf(s) /\ r = t.kept /\ c \in Request
  BY <1>1, <1>2 DEF Request
<1>4. UNCHANGED <<log, gone, lapsed>> /\ txn' = [txn EXCEPT ![s] = Over(s)]
  BY DEF Commit
<1>5. txn'[s].n = t.n /\ txn'[s].step = "none"
  BY <1>2, <1>4 DEF Over, NoTxn
<1>6. \A k : Written(k)' = Written(k)
  BY <1>4 DEF Written
<1>7. \A k, n, p : Alone(k, n, p)' <=> Alone(k, n, p)
  BY <1>4, <1>6 DEF Alone
<1>8. KeptFits(r) /\ PointsBelow(r) /\ KeptHolds(r, o)
  BY <1>2, <1>3 DEF KeptInv
<1>9. o[1] = s /\ o[2] = t.n
  BY <1>3 DEF IdOf
<1>10. KeptFits(r)' /\ PointsBelow(r)'
  BY <1>4, <1>6, <1>8 DEF KeptFits, PointsBelow
<1>11. KeptHolds(r, o)'
  BY <1>4, <1>7, <1>8 DEF KeptHolds
<1> QED
  BY <1>2, <1>3, <1>5, <1>9, <1>10, <1>11 DEF PendingInv

\* Which COMMITs there are after a step.
LEMMA PendingMoves ==
    ASSUME TypeInv, SessInv, Next, NEW c \in Pending'
    PROVE  c \in Pending \/ \E s \in Sessions : txn[s].step = "open" /\ Commit(s) /\ UNCHANGED lock /\ c = Sent(s)
<1>1. c \in asked' \/ (c = gate'.c /\ gate'.step # "free" /\ c.id # Nobody)
  BY DEF Pending
<1> QED
  BY <1>1, GateMoves DEF Pending

\* The same, of those still to be checked.
LEMMA UncheckedMoves ==
    ASSUME TypeInv, SessInv, Next, NEW c \in Unchecked'
    PROVE  c \in Unchecked \/ \E s \in Sessions : txn[s].step = "open" /\ Commit(s) /\ UNCHANGED lock /\ c = Sent(s)
<1>1. c \in asked' \/ (c = gate'.c /\ gate'.step = "closing" /\ c.id # Nobody)
  BY DEF Unchecked
<1> QED
  BY <1>1, GateMoves DEF Unchecked

\* A COMMIT on its way keeps its locks.
LEMMA PendingStep ==
    ASSUME TypeInv, AutoInv, SessInv, Next, NEW c \in Pending, c \in Pending'
    PROVE  PendingInv(c)'
<1> DEFINE o == c.id
           z == o[1]
<1>1. /\ TypeOK /\ Grows /\ c \in Request /\ c.kept \in Kept /\ o \in Txns /\ z \in Sessions /\ o[2] \in Nat
      /\ PendingInv(c)
      /\ gate.step # "free" => gate.c \notin asked
  <2>1. c \in Request
    BY Places DEF Pending
  <2>2. PendingInv(c)
    BY DEF SessInv
  <2> QED
    BY <2>1, <2>2, NextGrows, Numbers DEF TypeInv, PendingInv, Txns, Request, SessInv
<1>2. o[2] <= txn'[z].n /\ (txn'[z].step = "open" => o[2] < txn'[z].n)
  <2>1. o[2] <= txn[z].n /\ (txn[z].step = "open" => o[2] < txn[z].n)
    BY <1>1 DEF PendingInv
  <2> HIDE DEF z
  <2> QED
    BY <1>1, <2>1, NumberMoves
<1>3. Steady(o)
  <2>1. \A s \in Sessions : txn[s].step = "open" => o # IdOf(s)
    BY OpenAlone
  <2>2. ASSUME gate.step # "free", gate.c.id = o, Leave, Conflict \/ GateTimeout \/ Flush PROVE FALSE
    <3>1. gate.c \in Pending /\ gate.c = c
      BY <1>1, <2>2, Places DEF Pending, SessInv
    <3>2. gate'.step = "free" /\ asked' = asked
      BY <2>2 DEF Leave, Free, Conflict, GateTimeout, Flush
    <3>3. c \in asked
      BY <3>2 DEF Pending
    <3> QED
      BY <1>1, <2>2, <3>1, <3>3
  <2>3. ~Lets(o)
    BY <1>1, <2>1, <2>2, Places DEF Lets
  <2> QED
    BY <1>1, <2>3, TxnSteady
<1>4. KeptHolds(c.kept, o)'
  BY <1>1, <1>3, HoldsStays DEF PendingInv
<1> QED
  BY <1>1, <1>2, <1>4 DEF PendingInv

\* What comes of what the lake's lock is held for.
LEMMA UncheckedStep ==
    ASSUME TypeInv, SessInv, Next, Retained, NEW c \in Unchecked
    PROVE  KeptFits(c.kept)' /\ PointsBelow(c.kept)'
<1>1. TypeOK /\ Grows /\ c.kept \in Kept /\ KeptFits(c.kept) /\ PointsBelow(c.kept)
  <2>1. c \in Request
    BY Places DEF Unchecked
  <2> QED
    BY <2>1, NextGrows DEF TypeInv, Request, SessInv
<1>2. c \in asked \cup (IF gate.step = "closing" THEN {gate.c} ELSE {})
  BY DEF Unchecked
<1>3. \/ gone' = gone
      \/ gone' = Len(log) /\ UNCHANGED log /\ (c.kept.writes # {} => \A k \in Keys : PointOf(c.kept, k) = Len(log))
  BY <1>2, GoneMoves, InUseIs
<1> QED
  BY <1>1, <1>3, FitsStays

\* Inside, nothing that kept its locks or its gate lands after the check.
LEMMA InsideStays ==
    ASSUME TypeInv, AutoInv, SessInv, Next, gate.step = "inside", gate' = gate
    PROVE  (gate.step = "inside" => gate.checked <= Len(log))' /\ NoLostUpdate'
<1>1. /\ TypeOK /\ Grows /\ gate.checked <= Len(log) /\ gate.checked \in Nat /\ Len(log) \in Nat /\ NoLostUpdate
      /\ gate.c.kept \in Kept
  BY NextGrows, Numbers DEF TypeInv, TypeOK, Gate, Request, SessInv
<1>2. gate.checked <= Len(log')
  BY <1>1 DEF Grows
<1>3. \A i \in Len(log) + 1 .. Len(log') : ~log'[i].sure /\ log'[i].how # "gated"
  <2>1. CASE UNCHANGED log
    <3>1. Len(log) + 1 .. Len(log') = {}
      BY <1>1, <2>1
    <3> QED
      BY <3>1
  <2>2. ASSUME NEW e \in Entry, Len(log') = Len(log) + 1, log'[Len(log) + 1] = e, ~e.sure, e.how # "gated"
        PROVE  \A i \in Len(log) + 1 .. Len(log') : ~log'[i].sure /\ log'[i].how # "gated"
    <3>1. Len(log) + 1 .. Len(log') = {Len(log) + 1}
      BY <1>1, <2>2
    <3> QED
      BY <2>2, <3>1
  <2>3. ~Flush
    BY DEF Flush, Leave, Free
  <2>4. ASSUME NEW w \in Autos, Land(w) PROVE ~(stmt[w].locked /\ w \notin lapsed)
    <3>1. AutoFits(w) /\ flying = {}
      BY DEF AutoInv
    <3>2. stmt[w].step = "done"
      BY <2>4 DEF Land
    <3> QED
      BY <3>1, <3>2 DEF AutoFits, Entering, Busy
  <2>5. CASE \E e \in Entry : /\ Len(log') = Len(log) + 1 /\ log'[Len(log) + 1] = e
                              /\ \/ \E w \in Autos : Land(w) /\ e = [keys |-> stmt[w].keys, how |-> "auto", sure |-> stmt[w].locked /\ w \notin lapsed]
                                 \/ \E k \in Keys : e = [keys |-> {k}, how |-> "blind", sure |-> FALSE]
    <3>1. PICK e \in Entry : /\ Len(log') = Len(log) + 1 /\ log'[Len(log) + 1] = e
                             /\ \/ \E w \in Autos : Land(w) /\ e = [keys |-> stmt[w].keys, how |-> "auto", sure |-> stmt[w].locked /\ w \notin lapsed]
                                \/ \E k \in Keys : e = [keys |-> {k}, how |-> "blind", sure |-> FALSE]
      BY <2>5
    <3>2. ASSUME NEW w \in Autos, Land(w), e = [keys |-> stmt[w].keys, how |-> "auto", sure |-> stmt[w].locked /\ w \notin lapsed]
          PROVE  ~e.sure /\ e.how # "gated"
      <4>1. e.how = "auto" /\ (e.sure <=> stmt[w].locked /\ w \notin lapsed)
        BY <3>2
      <4> QED
        BY <2>4, <3>2, <4>1
    <3>3. ASSUME NEW k \in Keys, e = [keys |-> {k}, how |-> "blind", sure |-> FALSE] PROVE ~e.sure /\ e.how # "gated"
      BY <3>3
    <3>4. ~e.sure /\ e.how # "gated"
      BY <3>1, <3>2, <3>3
    <3> QED
      BY <2>2, <3>1, <3>4
  <2> QED
    BY <2>1, <2>3, <2>5, LogSteps
<1>4. NoLostUpdate'
  <2> SUFFICES ASSUME NEW k \in gate.c.kept.writes, NEW i \in After(gate.c.kept.base, k)'
               PROVE  i > gate.checked /\ ~log'[i].sure /\ log'[i].how # "gated"
    BY DEF NoLostUpdate, After
  <2>1. k \in Keys /\ gate.c.kept.base[k] \in Nat /\ Len(log') \in Nat /\ Len(log) <= Len(log')
    BY <1>1, KeptIs DEF Grows
  <2>2. i \in gate.c.kept.base[k] + 1 .. Len(log') /\ k \in log'[i].keys
    BY DEF After
  <2>3. CASE i <= Len(log)
    <3>1. log'[i] = log[i]
      BY <1>1, <2>1, <2>2, <2>3 DEF Grows
    <3>2. i \in After(gate.c.kept.base, k)
      BY <1>1, <2>1, <2>2, <2>3, <3>1 DEF After
    <3> QED
      BY <1>1, <3>1, <3>2 DEF NoLostUpdate
  <2>4. CASE i > Len(log)
    BY <1>1, <1>3, <2>1, <2>2, <2>4
  <2> QED
    BY <1>1, <2>1, <2>2, <2>3, <2>4
<1> QED
  BY <1>2, <1>4

\* The check finds nothing between what a COMMIT read and now; a change reads now.
LEMMA CheckFinds ==
    ASSUME TypeInv, SessInv, PassCheck
    PROVE  NoLostUpdate'
<1> DEFINE r == gate.c.kept
           v == [k \in Keys |-> IF k \in r.writes THEN Version(k, Len(log)) ELSE 0]
           b == IF gate.c.id # Nobody THEN r.base ELSE v
           q == [gate.c EXCEPT !.kept = [r EXCEPT !.base = b]]
<1>1. /\ TypeOK /\ gate \in Gate /\ gate.c \in Request /\ r \in Kept /\ Len(log) \in Nat /\ Len(log) \in Commits /\ gone \in Nat
      /\ UNCHANGED <<log, gone>>
  BY Numbers DEF TypeInv, TypeOK, Gate, Request, PassCheck
<1>2. gate'.c.kept.writes = r.writes /\ gate'.c.kept.base = b
  <2>1. gate' = [gate EXCEPT !.step = "inside", !.checked = Len(log), !.c = q]
    BY <1>1 DEF PassCheck, Gate, Request, Kept
  <2>2. q.kept = [r EXCEPT !.base = b]
    BY <1>1 DEF Request
  <2> HIDE DEF q, b
  <2>3. gate'.c = q
    BY <1>1, <2>1 DEF Gate
  <2>4. q.kept.writes = r.writes /\ q.kept.base = b
    BY <1>1, <2>2 DEF Kept
  <2> QED
    BY <2>3, <2>4
<1>3. ASSUME NEW k \in r.writes, NEW i \in 1 .. Len(log), k \in log[i].keys, i > b[k] PROVE FALSE
  <2>1. k \in Keys /\ r.base[k] \in Nat /\ PointOf(r, k) \in Nat
    BY <1>1, KeptIs
  <2>2. CASE gate.c.id # Nobody
    <3>1. gate.c \in Unchecked /\ Conflicts(r, Len(log)) = {}
      BY <2>2 DEF Unchecked, PassCheck
    <3>2. i > gone /\ i > PointOf(r, k)
      BY <1>3, <2>2, <3>1 DEF SessInv, KeptFits, Written
    <3>3. i \in PointOf(r, k) + 1 .. Len(log)
      BY <1>1, <2>1, <3>2
    <3>4. i \in Since(k, PointOf(r, k), Len(log))
      BY <1>3, <3>2, <3>3 DEF Since
    <3> QED
      BY <3>1, <3>4 DEF Conflicts
  <2>3. CASE gate.c.id = Nobody
    <3>1. b[k] = Version(k, Len(log))
      BY <2>1, <2>3
    <3> HIDE DEF b
    <3>2. i > Len(log)
      BY <1>1, <1>3, <2>1, <3>1, VersionIs
    <3> QED
      BY <1>1, <3>2
  <2> QED
    BY <2>2, <2>3
<1>4. \A k \in r.writes : b[k] \in Nat
  BY <1>1, KeptIs, VersionIs, Numbers
<1> HIDE DEF b
<1>5. \A k \in r.writes : \A i \in b[k] + 1 .. Len(log) : k \in log[i].keys => FALSE
  BY <1>1, <1>3, <1>4
<1> QED
  BY <1>1, <1>2, <1>5 DEF NoLostUpdate, After

\* Every step keeps the invariant.
LEMMA SessInvStep ==
    ASSUME TypeInv, AutoInv, SessInv, Next, Serial, Overlap = 1, Retained
    PROVE  SessInv'
<1>1. (\A w \in Slots : SlotInv(w)') /\ (\A s \in Sessions : TxnInv(s)')
  BY SlotInvStep, TxnInvStep
<1>2. ASSUME NEW c \in Pending' PROVE PendingInv(c)'
  BY <1>2, PendingMoves, PendingStep, SentIs
<1>3. ASSUME NEW c \in Pending', NEW d \in Pending', c.id = d.id PROVE c = d
  <2>1. ASSUME NEW s \in Sessions, txn[s].step = "open", NEW a \in Pending PROVE a.id # Sent(s).id
    BY <2>1, OpenAlone DEF Sent
  <2>2. ASSUME NEW s \in Sessions, NEW z \in Sessions, Sent(s).id = Sent(z).id PROVE s = z
    BY <2>2 DEF Sent, IdOf
  <2>3. CASE c \in Pending /\ d \in Pending
    BY <1>3, <2>3 DEF SessInv
  <2> QED
    BY <1>3, <2>1, <2>2, <2>3, PendingMoves
<1>4. gate'.step # "free" => gate'.c \notin asked'
  <2>1. \A a \in asked : a \in Pending /\ a.id # Nobody
    <3>1. \A a \in asked : a \in Pending
      BY DEF Pending
    <3> QED
      BY <3>1, Places DEF SessInv, PendingInv
  <2>2. CASE gate' = gate /\ asked' \subseteq asked
    BY <2>2 DEF SessInv
  <2>3. ASSUME NEW s \in Sessions, txn[s].step = "open", gate' = gate, asked' = asked \cup {Sent(s)}, gate.step # "free"
        PROVE  gate'.c \notin asked'
    <3>1. gate.c # Sent(s)
      <4>1. CASE gate.c.id = Nobody
        BY <2>3, <4>1, Places DEF Sent
      <4>2. CASE gate.c.id # Nobody
        <5>1. gate.c \in Pending
          BY <2>3, <4>2 DEF Pending
        <5> QED
          BY <2>3, <5>1, OpenAlone DEF Sent
      <4> QED
        BY <4>1, <4>2
    <3> QED
      BY <2>3, <3>1 DEF SessInv
  <2>4. ASSUME gate.step = "closing", asked' = asked, gate'.c.id = gate.c.id, gate.c.id # Nobody => gate'.c = gate.c
        PROVE  gate'.c \notin asked'
    BY <2>1, <2>4 DEF SessInv
  <2> QED
    BY <2>2, <2>3, <2>4, GateMoves
<1>5. ASSUME NEW c \in Unchecked' PROVE KeptFits(c.kept)' /\ PointsBelow(c.kept)'
  BY <1>5, UncheckedMoves, UncheckedStep, SentIs
<1>6. (gate.step = "inside" => gate.checked <= Len(log))' /\ NoLostUpdate'
  <2>1. CASE gate'.step # "inside"
    BY <2>1 DEF NoLostUpdate
  <2>2. CASE gate'.step = "inside" /\ gate' = gate
    BY <2>2, InsideStays
  <2>3. CASE PassCheck /\ gate'.checked = Len(log)
    <3>1. UNCHANGED log /\ Len(log) \in Nat
      BY <2>3 DEF PassCheck, TypeInv, TypeOK
    <3> QED
      BY <2>3, <3>1, CheckFinds
  <2> QED
    BY <2>1, <2>2, <2>3, GateMoves
<1> QED
  BY <1>1, <1>2, <1>3, <1>4, <1>5, <1>6 DEF SessInv

LEMMA SessInvStutters ==
    ASSUME SessInv, UNCHANGED vars
    PROVE  SessInv'
<1>1. UNCHANGED <<log, gone, seen, lock, flying, over, lapsed, txn, stmt, asked, gate>>
  BY DEF vars
<1>2. \A k : Written(k)' = Written(k)
  BY <1>1 DEF Written
<1>3. \A k, n, o : Alone(k, n, o)' <=> Alone(k, n, o)
  BY <1>1, <1>2 DEF Alone
<1>4. /\ \A w : Own(w)' = Own(w) /\ Here(w)' = Here(w) /\ Visible(w)' = Visible(w) /\ (Busy(w)' <=> Busy(w))
      /\ \A s : IdOf(s)' = IdOf(s)
      /\ Pending' = Pending /\ Unchecked' = Unchecked
  BY <1>1 DEF Own, Here, Visible, Busy, IdOf, Pending, Unchecked
<1>5. \A w : StmtInv(w)' <=> StmtInv(w)
  BY <1>1, <1>2, <1>3, <1>4 DEF StmtInv, Reads, Rests, Holds
<1>6. \A w : SlotInv(w)' <=> SlotInv(w)
  BY <1>1, <1>2, <1>4, <1>5 DEF SlotInv
<1>7. \A r, o : (KeptFits(r)' <=> KeptFits(r)) /\ (PointsBelow(r)' <=> PointsBelow(r)) /\ (KeptHolds(r, o)' <=> KeptHolds(r, o))
  BY <1>1, <1>2, <1>3 DEF KeptFits, PointsBelow, KeptHolds
<1>8. \A s, r : ReadsFit(s, r)' <=> ReadsFit(s, r)
  BY <1>1, <1>2, <1>4 DEF ReadsFit
<1>9. \A s : TxnInv(s)' <=> TxnInv(s)
  BY <1>1, <1>4, <1>7, <1>8 DEF TxnInv, KeptInv
<1>10. \A c : PendingInv(c)' <=> PendingInv(c)
  BY <1>1, <1>7 DEF PendingInv
<1>11. NoLostUpdate' <=> NoLostUpdate
  BY <1>1 DEF NoLostUpdate, After
<1> QED
  BY <1>1, <1>4, <1>6, <1>7, <1>9, <1>10, <1>11 DEF SessInv

LEMMA SessInvStarts ==
    ASSUME Init
    PROVE  SessInv
<1>1. \A w \in Slots : ~Busy(w)
  BY Places DEF Init, Busy, NoStmt
<1>2. \A s \in Sessions : txn[s].kept = Nothing /\ txn[s].mark = {} /\ ~txn[s].ran
  BY DEF Init, NoTxn
<1>3. Pending = {} /\ Unchecked = {} /\ gate.step = "free"
  BY DEF Init, Free, Pending, Unchecked
<1>4. \A s \in Sessions : TxnInv(s)
  BY <1>2, NothingFits DEF TxnInv
<1>5. \A w \in Slots : SlotInv(w)
  BY <1>1 DEF SlotInv, StmtInv
<1> QED
  BY <1>3, <1>4, <1>5 DEF SessInv, NoLostUpdate

\* What a COMMIT finds newer than its locks was no locked writer's.
LEMMA SessInvLocks ==
    ASSUME TypeInv, SessInv
    PROVE  LockedCommits
<1> DEFINE r == gate.c.kept
           o == gate.c.id
<1> SUFFICES ASSUME gate.step = "closing", o # Nobody, r.locked, o \notin lapsed, NEW n \in Conflicts(r, Len(log))
             PROVE  ~log[n].sure
  BY DEF LockedCommits
<1>1. r \in Kept /\ KeptHolds(r, o) /\ Len(log) \in Nat
  <2>1. gate.c \in Pending
    BY DEF Pending
  <2>2. gate.c \in Request
    BY Places
  <2> QED
    BY <2>1, <2>2 DEF SessInv, PendingInv, Request, TypeInv, TypeOK
<1>2. PICK k \in r.writes : n \in Since(k, PointOf(r, k), Len(log))
  BY DEF Conflicts
<1>3. k \in Keys /\ r.point[k] # None /\ r.point[k] \in Nat
  BY <1>1, KeptIs DEF KeptHolds
<1>4. PointOf(r, k) = r.point[k] /\ Alone(k, r.point[k], o)
  BY <1>1, <1>3 DEF KeptHolds, PointOf
<1>5. n \in Written(k) /\ n > r.point[k]
  BY <1>1, <1>2, <1>3, <1>4 DEF Since, Written
<1> QED
  BY <1>4, <1>5 DEF Alone

\* The inductive invariant: what a transaction keeps, a statement has in hand and a COMMIT is
\* sent with is worked out from versions that the log still checks and its locks still guard.
THEOREM Inductive ==
    ASSUME Retained, Serial, Overlap = 1
    PROVE  Spec => [](TypeInv /\ AutoInv /\ SessInv)
<1>1. Init => TypeInv /\ AutoInv /\ SessInv
  BY TypesStart, AutoInvStarts, SessInvStarts
<1>2. TypeInv /\ AutoInv /\ SessInv /\ [Next]_vars => (TypeInv /\ AutoInv /\ SessInv)'
  <2> SUFFICES ASSUME TypeInv, AutoInv, SessInv, [Next]_vars PROVE (TypeInv /\ AutoInv /\ SessInv)'
    OBVIOUS
  <2>1. TypeInv'
    BY TypesStep
  <2>2. CASE Next
    BY <2>1, <2>2, AutoInvStep, SessInvStep
  <2>3. CASE UNCHANGED vars
    BY <2>1, <2>3, AutoInvStutters, SessInvStutters
  <2> QED
    BY <2>2, <2>3
<1> QED
  BY <1>1, <1>2, PTL DEF Spec

\* No COMMIT, and no change that the leader works out, writes over a version it hasn't read,
\* whatever became of its locks: its rows are checked from where they were read to the log's
\* end, under the gate (txn.rs, `conflicts`, `write_changes`).
THEOREM NothingLost ==
    ASSUME Retained, Serial, Overlap = 1
    PROVE  Spec => []NoLostUpdate
<1>1. TypeInv /\ AutoInv /\ SessInv => NoLostUpdate
  BY DEF SessInv
<1> QED
  BY <1>1, Inductive, PTL

\* A transaction that locked every row it changed, and kept its locks, is refused only for
\* what a writer without locks did (`passes`, `note`, `conflicts`).
THEOREM LocksSuffice ==
    ASSUME Retained, Serial, Overlap = 1
    PROVE  Spec => []LockedCommits
<1>1. TypeInv /\ AutoInv /\ SessInv => LockedCommits
  BY SessInvLocks
<1> QED
  BY <1>1, Inductive, PTL
====
