---------------------------- MODULE Transactions ----------------------------
(***************************************************************************)
(* Transactions over one keyed table (txn.rs, the writers' side of          *)
(* locks.rs): sessions on the leader and on one follower read, lock and     *)
(* stage rows, and a COMMIT is checked and written under the lake's lock;   *)
(* autocommitted writes append theirs with no check but their locks and     *)
(* the gate; and some writers take neither.                                 *)
(*                                                                         *)
(* A row is a key, its versions the commits that wrote it.  A row lock is   *)
(* granted when it is free and goes with its owner or its lease, whenever   *)
(* that is (RowLocks has the requests, the queues and the leases).          *)
(***************************************************************************)
EXTENDS Naturals, Sequences, FiniteSets, FiniteSetsExt

CONSTANTS
    Keys,       \* the table's rows
    Sessions,   \* sessions that open transactions
    Autos,      \* autocommitted writes
    Follower,   \* the sessions and writes that are on the follower
    Kinds,      \* the statements there are, of "update", "many", "lock"
    Savepoints, \* are there savepoints?
    Serial,     \* does a client wait for an answer before it sends a session's next word?
    Overlap,    \* how many statements of one session may be in progress at once
    Retained,   \* does the log keep what an open transaction has still to be checked against?
    MaxTxns,    \* bound: transactions of a session
    MaxN,       \* bound: commits
    MaxLosses,  \* bound: leases that run out and restarts of the leader
    Nobody      \* no owner

ASSUME WritersAssumption == IsFiniteSet(Sessions) /\ IsFiniteSet(Autos) /\ Follower \subseteq Sessions \cup Autos
ASSUME BoundsAssumption == {Overlap, MaxTxns} \subseteq Nat \ {0} /\ {MaxN, MaxLosses} \subseteq Nat
ASSUME ChoicesAssumption == Kinds \subseteq {"update", "many", "lock"} /\ {Retained, Savepoints, Serial} \subseteq BOOLEAN

VARIABLES
    log,        \* the lake's commits
    gone,       \* the log's segments up to this one were deleted
    seen,       \* the newest commit the follower sees
    lock,       \* who holds each row, at the leader
    flying,     \* the autocommitted writes registered as appending
    over,       \* the transactions the leader has let go
    lapsed,     \* (history) the owners whose locks were lost while they were at work
    txn,        \* each session's transaction
    stmt,       \* the statements in progress
    asked,      \* the COMMITs on their way to the leader
    gate,       \* the writer under the lake's lock
    restarts

vars == <<log, gone, seen, lock, flying, over, lapsed, txn, stmt, asked, gate, restarts>>

Commits == 0 .. MaxN
None    == MaxN + 1                             \* no read point
Points  == 0 .. None
Slots   == Sessions \X (1 .. Overlap)
Stmts   == Slots \cup Autos
Txns    == Sessions \X (1 .. MaxTxns)
Owners  == Txns \cup Autos
ASSUME NobodyAssumption == Nobody \notin Owners /\ Autos \cap (Sessions \X Nat) = {}
Bases   == [Keys -> Commits]

\* `floor`, `point`: Reads; `writes`, `base`: the rows it keeps, each with the
\* version it was worked out from; `locked`: (history) whether each statement took its locks.
Kept  == [floor : Points, point : [Keys -> Points], writes : SUBSET Keys, base : Bases,
          locked : BOOLEAN]
\* `snapshot`: REPEATABLE READ's (READ COMMITTED takes its own at each statement).
Txn   == [step : {"none", "open"}, n : 0 .. MaxTxns, level : {"committed", "repeatable"},
          snapshot : Commits, ran : BOOLEAN, failed : BOOLEAN, kept : Kept, mark : SUBSET Kept]
\* `read`: SELECT ... FOR UPDATE; `locking`: it takes row locks; `locked`: it took them.
Stmt  == [step : {"idle", "working", "waiting", "granted", "done", "over"}, id : Owners \cup {Nobody},
          read : BOOLEAN, locking : BOOLEAN, rc : BOOLEAN, at : Commits, keys : SUBSET Keys, held : SUBSET Keys,
          base : Bases, granted : Commits, locked : BOOLEAN]
Request == [id : Txns \cup {Nobody}, kept : Kept]
\* `how`: by itself, in a COMMIT or a change under the lake's lock, or with neither locks nor
\* gate; `sure`: (history) it held its rows' locks to the end.
Gate    == [step : {"free", "closing", "inside"}, c : Request, checked : Commits]
Entry == [keys : SUBSET Keys, how : {"auto", "gated", "blind"}, sure : BOOLEAN]

NoBase  == [k \in Keys |-> 0]
Nothing == [floor |-> None, point |-> [k \in Keys |-> None], writes |-> {}, base |-> NoBase, locked |-> TRUE]
NoTxn   == [step |-> "none", n |-> 0, level |-> "committed", snapshot |-> 0, ran |-> FALSE, failed |-> FALSE,
            kept |-> Nothing, mark |-> {}]
NoStmt  == [step |-> "idle", id |-> Nobody, read |-> FALSE, locking |-> FALSE, rc |-> TRUE, at |-> 0, keys |-> {}, held |-> {},
            base |-> NoBase, granted |-> 0, locked |-> FALSE]
Free    == [step |-> "free", c |-> [id |-> Nobody, kept |-> Nothing], checked |-> 0]

Init ==
    /\ log = <<>> /\ gone = 0 /\ seen = 0
    /\ lock = [k \in Keys |-> Nobody] /\ flying = {} /\ over = {} /\ lapsed = {}
    /\ txn = [s \in Sessions |-> NoTxn] /\ stmt = [w \in Stmts |-> NoStmt]
    /\ asked = {} /\ gate = Free /\ restarts = 0

-----------------------------------------------------------------------------
(* What the log says of a row.                                              *)

SessionOf(w) == w[1]
IdOf(s) == <<s, txn[s].n>>

\* `Lake::visible`, where session or autocommitted write w is.
Visible(w) == IF w \in Follower THEN seen ELSE Len(log)
Here(w) == Visible(IF w \in Autos THEN w ELSE SessionOf(w))

\* A row as of commit n: the commit that wrote it.
Version(k, n) == Max({0} \cup {i \in 1 .. n : k \in log[i].keys})

\* `tail`: the commits in (after, upto] that changed row k, as far as the log goes back.
Since(k, after, upto) == {n \in after + 1 .. upto : n > gone /\ k \in log[n].keys}

\* Reads: the commit a row was read at, and what `note` records of a statement's rows.
PointOf(r, k) == IF r.point[k] # None THEN r.point[k] ELSE IF r.floor # None THEN r.floor ELSE 0
\* (Mutant: a key's point moves up with each statement.)
NoteLatest(r, keys, at) == [r EXCEPT !.point = [k \in Keys |-> IF k \in keys THEN at ELSE @[k]]]
NoteKeys(r, keys, at) ==
    [r EXCEPT !.point = [k \in Keys |-> IF k \notin keys THEN @[k]
                                        ELSE Min({at, IF @[k] # None THEN @[k] ELSE r.floor})]]
NoteFloor(r, at) == [r EXCEPT !.floor = Min({@, at})]

\* `conflicts`, of a transaction's rows up to commit n: the commits that changed them since they were read.
Conflicts(r, n) == UNION {Since(k, PointOf(r, k), n) : k \in r.writes}

\* An owner's locks, let go.
Unlocked(o) == [k \in Keys |-> IF lock[k] = o THEN Nobody ELSE lock[k]]
Release(o) == lock' = Unlocked(o) /\ flying' = flying \ {o} /\ over' = over \cup ({o} \ Autos)

\* A follower's message that lets them go may be lost.
LetGo(s, o) == Release(o) \/ (s \in Follower /\ UNCHANGED <<lock, flying, over>>)

-----------------------------------------------------------------------------
(* Transactions: BEGIN, COMMIT, ROLLBACK, savepoints, the idle timeout.      *)

\* A session over a connection sends its next request when the last one is answered; over
\* HTTP nothing makes it.
Idle(s) ==
    Serial => /\ \A w \in Slots : SessionOf(w) = s => stmt[w].step = "idle"
              /\ \A c \in asked \cup {gate.c} : c.id = IdOf(s) => c.id \in over

Begin(s) ==
    /\ txn[s].step = "none" /\ txn[s].n < MaxTxns /\ Idle(s)
    /\ \E level \in {"committed", "repeatable"} :
           txn' = [txn EXCEPT ![s] = [NoTxn EXCEPT !.step = "open", !.n = txn[s].n + 1, !.level = level]]
    /\ UNCHANGED <<log, gone, seen, lock, flying, over, lapsed, stmt, asked, gate, restarts>>

Over(s) == [NoTxn EXCEPT !.n = txn[s].n]

\* ROLLBACK, or PONDRA_TXN_IDLE_SECS without a statement.
Rollback(s) ==
    /\ txn[s].step = "open" /\ Idle(s)
    /\ txn' = [txn EXCEPT ![s] = Over(s)]
    /\ LetGo(s, IdOf(s))
    /\ UNCHANGED <<log, gone, seen, lapsed, stmt, asked, gate, restarts>>

Savepoint(s) ==
    /\ Savepoints /\ txn[s].step = "open" /\ Idle(s) /\ ~txn[s].failed /\ txn[s].kept.writes # {}
    /\ txn' = [txn EXCEPT ![s].mark = {txn[s].kept}]
    /\ UNCHANGED <<log, gone, seen, lock, flying, over, lapsed, stmt, asked, gate, restarts>>

\* The locks taken since stay held.
RollbackTo(s) ==
    /\ txn[s].step = "open" /\ Idle(s)
    /\ \E m \in txn[s].mark : txn' = [txn EXCEPT ![s].kept = m, ![s].failed = FALSE]
    /\ UNCHANGED <<log, gone, seen, lock, flying, over, lapsed, stmt, asked, gate, restarts>>

\* COMMIT takes the transaction out of the book and sends what it keeps.
Commit(s) ==
    /\ txn[s].step = "open" /\ Idle(s)
    /\ txn' = [txn EXCEPT ![s] = Over(s)]
    /\ IF txn[s].failed \/ txn[s].kept.writes = {}
       THEN LetGo(s, IdOf(s)) /\ UNCHANGED asked
       ELSE /\ asked' = asked \cup {[id |-> IdOf(s), kept |-> txn[s].kept]}
            /\ UNCHANGED <<lock, flying, over>>
    /\ UNCHANGED <<log, gone, seen, lapsed, stmt, gate, restarts>>

\* No answer to it: its locks are let go here, though it may still arrive, now or later.
SendFails(c) ==
    /\ c.id # Nobody /\ SessionOf(c.id) \in Follower /\ c.id \notin over
    /\ Release(c.id)
    /\ lapsed' = lapsed \cup {c.id}
    /\ asked' = asked \/ asked' = asked \ {c}
    /\ UNCHANGED <<log, gone, seen, txn, stmt, gate, restarts>>

-----------------------------------------------------------------------------
(* Statements: UPDATEs, DELETEs, INSERTs and upserts ("update"), those over *)
(* LOCK_MAX rows or of a table with an enforced UNIQUE ("many"), and        *)
(* SELECT ... FOR UPDATE ("lock").                                          *)

Set(w, r) == stmt' = [stmt EXCEPT ![w] = r]

\* `gate`, at the door: READ COMMITTED reads the newest commit, REPEATABLE READ
\* the one its first statement saw.
ReadAt(s) == IF txn[s].level = "committed" \/ ~txn[s].ran THEN Visible(s) ELSE txn[s].snapshot

Start(w) ==
    LET s == SessionOf(w)
        rc == txn[s].level = "committed"
        at == ReadAt(s)
    IN  /\ stmt[w].step = "idle" /\ txn[s].step = "open" /\ ~txn[s].failed
        /\ txn' = [txn EXCEPT ![s].snapshot = IF rc THEN 0 ELSE at, ![s].ran = TRUE]
        /\ \E kind \in Kinds :
               Set(w, [NoStmt EXCEPT !.step = "working", !.id = IdOf(s), !.rc = rc, !.at = at, !.read = kind = "lock",
                                     !.locking = kind = "lock" \/ (kind = "update" /\ rc)])
        /\ UNCHANGED <<log, gone, seen, lock, flying, over, lapsed, asked, gate, restarts>>

StartAuto(w) ==
    /\ stmt[w].step = "idle"
    /\ \E kind \in Kinds \ {"lock"} :
           Set(w, [NoStmt EXCEPT !.step = "working", !.id = w, !.at = Here(w), !.locking = kind = "update"])
    /\ UNCHANGED <<log, gone, seen, lock, flying, over, lapsed, txn, asked, gate, restarts>>

\* The version a row is worked out from as of a commit: what the statement's
\* transaction, if it is still open, changed already, it changes again.
Own(w) == IF w \in Autos \/ txn[SessionOf(w)].step # "open" THEN Nothing ELSE txn[SessionOf(w)].kept
BaseAt(w, k, at) == IF k \in Own(w).writes THEN Own(w).base[k] ELSE Version(k, at)

\* A pass works out which rows it changes as of `at`.
Worked(w, keys) ==
    [stmt[w] EXCEPT !.keys = keys, !.held = @ \cup keys, !.locked = TRUE,
                    !.base = [k \in Keys |-> IF k \in keys THEN BaseAt(w, k, stmt[w].at) ELSE 0]]

\* It stands if it takes no locks, or adds none to the ones the statement holds.
Pass(w) ==
    /\ stmt[w].step = "working"
    /\ \E keys \in SUBSET Keys :
           LET free == ~stmt[w].locking \/ keys = {}
           IN  /\ free \/ (stmt[w].held # {} /\ keys \subseteq stmt[w].held)
               /\ Set(w, [Worked(w, keys) EXCEPT !.step = "done", !.held = stmt[w].held, !.locked = ~free])
    /\ UNCHANGED <<log, gone, seen, lock, flying, over, lapsed, txn, asked, gate, restarts>>

\* A statement fails, and its transaction with it, the session's open one, whichever that is:
\* what it kept, only a ROLLBACK TO brings back.
Fails(w) ==
    IF w \in Autos THEN /\ Set(w, [NoStmt EXCEPT !.step = "over"])
                        /\ Release(w)
                        /\ UNCHANGED txn
    ELSE /\ Set(w, NoStmt)
         /\ txn' = IF txn[SessionOf(w)].step = "open" THEN [txn EXCEPT ![SessionOf(w)].failed = TRUE, ![SessionOf(w)].kept = Nothing]
                   ELSE txn
         /\ UNCHANGED <<lock, flying, over>>

\* One key's row, looked up, is newer than the read point (`current`).
Moved(w) ==
    /\ stmt[w].step = "working"
    /\ \E k \in Keys \ Own(w).writes : Version(k, Here(w)) > stmt[w].at
    /\ IF stmt[w].rc THEN Set(w, [stmt[w] EXCEPT !.at = Here(w)]) /\ UNCHANGED <<lock, flying, over, txn>>
       ELSE Fails(w)
    /\ UNCHANGED <<log, gone, seen, lapsed, asked, gate, restarts>>

\* Else their locks are asked for, and the leader grants them; an autocommitted write then
\* enters its table, unless a writer under the lake's lock has closed it.
\* (Mutant: whoever holds them.)
Anyones(o, keys)   == TRUE
Grantable(o, keys) == \A k \in keys : lock[k] \in {Nobody, o}

Grant(w) ==
    LET s == stmt[w]
    IN  /\ s.step = "working" /\ s.locking /\ s.id \notin over
        /\ \E keys \in (SUBSET Keys) \ (SUBSET s.held) :
               /\ Grantable(s.id, keys)
               /\ lock' = [k \in Keys |-> IF k \in keys THEN s.id ELSE lock[k]]
               /\ Set(w, [Worked(w, keys) EXCEPT !.step = IF w \in Autos THEN "waiting" ELSE "granted",
                                                 !.granted = IF w \in Autos THEN 0 ELSE Len(log)])
        /\ UNCHANGED <<log, gone, seen, flying, over, lapsed, txn, asked, gate, restarts>>

\* (Mutant: a closed table is entered too.)
EnteredAlways(w) == TRUE
Entered(w) == w \in flying \/ gate.step = "free"

Enter(w) ==
    /\ stmt[w].step = "waiting" /\ Entered(w)
    /\ flying' = flying \cup {w}
    /\ Set(w, [stmt[w] EXCEPT !.step = "granted", !.granted = Len(log)])
    /\ UNCHANGED <<log, gone, seen, lock, over, lapsed, txn, asked, gate, restarts>>

\* lock_timeout, a loop of waits, an owner that is over, a node that stops, or a
\* follower that doesn't come up to the commit.
Refuse(w) ==
    /\ stmt[w].locking /\ stmt[w].step \in {"working", "waiting", "granted"}
    /\ Fails(w)
    /\ UNCHANGED <<log, gone, seen, lapsed, asked, gate, restarts>>

\* Once its node sees the commit the locks were granted at: did its rows move since the
\* pass's read point?  Then the next pass reads at the grant.
\* (Mutant: what it holds can't have moved.)
NoneMoved(w) == {}
RowsMoved(w) == {k \in stmt[w].keys : Since(k, stmt[w].at, Here(w)) # {}}

Check(w) ==
    LET s == stmt[w]
    IN  /\ s.step = "granted" /\ Here(w) >= s.granted
        /\ \/ /\ RowsMoved(w) = {}
              /\ Set(w, [s EXCEPT !.step = "done", !.at = s.granted, !.granted = 0])
              /\ UNCHANGED <<lock, flying, over, txn>>
           \/ /\ RowsMoved(w) # {}
              /\ IF s.rc THEN /\ Set(w, [s EXCEPT !.step = "working", !.at = s.granted, !.granted = 0,
                                                  !.keys = {}, !.base = NoBase])
                              /\ UNCHANGED <<lock, flying, over, txn>>
                 ELSE Fails(w)
        /\ UNCHANGED <<log, gone, seen, lapsed, asked, gate, restarts>>

\* `keep`, and `note`: a statement's rows are its transaction's, if that is still the open one.
KeepRows(r, s) ==
    LET rows == [r EXCEPT !.writes = @ \cup s.keys,
                          !.base = [k \in Keys |-> IF k \in s.keys THEN s.base[k] ELSE @[k]],
                          !.locked = @ /\ s.locked]
    IN  IF s.locked THEN NoteKeys(rows, s.keys, s.at) ELSE NoteFloor(rows, s.at)

Keep(w) ==
    LET s == SessionOf(w)
    IN  /\ stmt[w].step = "done" /\ ~stmt[w].read
        /\ IF txn[s].step = "open" /\ IdOf(s) = stmt[w].id
           THEN /\ txn' = [txn EXCEPT ![s].kept = KeepRows(@, stmt[w])]
                /\ Set(w, NoStmt)
                /\ UNCHANGED <<lock, flying, over>>
           ELSE Fails(w)
        /\ UNCHANGED <<log, gone, seen, lapsed, asked, gate, restarts>>

\* `read_keys`: what a locking read locked, in the session's open transaction, whichever that is.
KeepLocks(w) ==
    LET s == SessionOf(w)
        noted == NoteKeys(txn[s].kept, stmt[w].keys, stmt[w].at)
    IN  /\ stmt[w].step = "done" /\ stmt[w].read
        /\ txn' = IF txn[s].step # "open" THEN txn
                  ELSE [txn EXCEPT ![s].kept = [noted EXCEPT !.locked = @ /\ IdOf(s) = stmt[w].id]]
        /\ Set(w, NoStmt)
        /\ UNCHANGED <<log, gone, seen, lock, flying, over, lapsed, asked, gate, restarts>>

-----------------------------------------------------------------------------
(* What lands in the log.                                                   *)

Sequenced(e) == Len(log) < MaxN /\ log' = Append(log, e)

\* An autocommitted write's append; its locks go with the answer, which may be lost.
Land(w) ==
    LET s == stmt[w]
    IN  /\ s.step = "done" /\ s.keys # {}
        /\ Sequenced([keys |-> s.keys, how |-> "auto", sure |-> s.locked /\ w \notin lapsed])
        /\ Set(w, [NoStmt EXCEPT !.step = "over"])
        /\ Release(w) \/ UNCHANGED <<lock, flying, over>>
        /\ UNCHANGED <<gone, seen, lapsed, txn, asked, gate, restarts>>

\* An append with no locks and no gate: a load, a blind keyed INSERT.
Load(k) ==
    /\ Sequenced([keys |-> {k}, how |-> "blind", sure |-> FALSE])
    /\ UNCHANGED <<gone, seen, lock, flying, over, lapsed, txn, stmt, asked, gate, restarts>>

\* The lake's lock, and the gate: a COMMIT (`commit_here`), or a change that the leader
\* works out itself (change.rs, `run`).
Close(c) ==
    /\ gate.step = "free"
    /\ gate' = [Free EXCEPT !.step = "closing", !.c = c]
    /\ asked' = asked \ {c}
    /\ UNCHANGED <<log, gone, seen, lock, flying, over, lapsed, txn, stmt, restarts>>

Change(k) == [id |-> Nobody, kept |-> [Nothing EXCEPT !.writes = {k}]]

\* It is over: refused or written, its locks go.
Leave == gate' = Free /\ IF gate.c.id = Nobody THEN UNCHANGED <<lock, flying, over>> ELSE Release(gate.c.id)

\* `conflicts` finds nothing newer than what it read; a change reads its rows here.
PassCheck ==
    LET r == gate.c.kept
    IN  /\ gate.step = "closing" /\ flying = {}
        /\ gate.c.id # Nobody => Conflicts(r, Len(log)) = {}
        /\ gate' = [gate EXCEPT !.step = "inside", !.checked = Len(log),
                                !.c.kept.base = IF gate.c.id # Nobody THEN @ ELSE
                                                [k \in Keys |-> IF k \in r.writes THEN Version(k, Len(log)) ELSE 0]]
        /\ UNCHANGED <<log, gone, seen, lock, flying, over, lapsed, txn, stmt, asked, restarts>>

\* Refused: rows moved (40001), or the appends in flight took longer than GATE_WAIT.
Conflict ==
    /\ gate.step = "closing" /\ flying = {} /\ gate.c.id # Nobody
    /\ Conflicts(gate.c.kept, Len(log)) # {}
    /\ Leave
    /\ UNCHANGED <<log, gone, seen, lapsed, txn, stmt, asked, restarts>>

GateTimeout ==
    /\ gate.step = "closing" /\ flying # {}
    /\ Leave
    /\ UNCHANGED <<log, gone, seen, lapsed, txn, stmt, asked, restarts>>

Flush ==
    LET c == gate.c
    IN  /\ gate.step = "inside"
        /\ Sequenced([keys |-> c.kept.writes, how |-> "gated",
                      sure |-> c.id # Nobody /\ c.kept.locked /\ c.id \notin lapsed])
        /\ Leave
        /\ UNCHANGED <<gone, seen, lapsed, txn, stmt, asked, restarts>>

-----------------------------------------------------------------------------
(* What happens beside them.                                                *)

\* The follower's view moves up.
\* (Mutant: a commit's rows come before its number does.)
SeeAhead ==
    /\ seen' = seen + 1
    /\ UNCHANGED <<log, gone, lock, flying, over, lapsed, txn, stmt, asked, gate, restarts>>

See ==
    /\ seen < Len(log)
    /\ seen' = seen + 1
    /\ UNCHANGED <<log, gone, lock, flying, over, lapsed, txn, stmt, asked, gate, restarts>>

\* A lease runs out, whatever its owner does.
Lapse(o) ==
    /\ Cardinality(lapsed) + restarts < MaxLosses
    /\ o \in flying \/ \E k \in Keys : lock[k] = o
    /\ lock' = Unlocked(o) /\ flying' = flying \ {o} /\ lapsed' = lapsed \cup {o}
    /\ UNCHANGED <<log, gone, seen, over, txn, stmt, asked, gate, restarts>>

\* The follower's view, and the read points that an open transaction, a statement or a
\* COMMIT is still to be checked against.
PointsOf(rs) == {PointOf(r, k) : r \in rs, k \in Keys}

InUse ==
    {seen} \cup {txn[s].snapshot : s \in {t \in Sessions : txn[t].ran /\ txn[t].level = "repeatable"}}
    \cup PointsOf({r \in UNION {{txn[s].kept} \cup txn[s].mark : s \in Sessions} : r.writes # {}})
    \cup {stmt[w].at : w \in {v \in Stmts : stmt[v].step \notin {"idle", "over"}}}
    \cup PointsOf({c.kept : c \in asked \cup (IF gate.step = "closing" THEN {gate.c} ELSE {})})

\* `expire` (tier.rs): tiered segments older than --retain-secs go.
Expire ==
    /\ gone < Len(log) /\ (Retained => \A n \in InUse : n = Len(log))
    /\ gone' = Len(log)
    /\ UNCHANGED <<log, seen, lock, flying, over, lapsed, txn, stmt, asked, gate, restarts>>

\* The leader's process restarts and leads again: its sessions and their statements, the
\* locks, and what was asked of it are gone; the follower's transactions go on.
Restart ==
    /\ Cardinality(lapsed) + restarts < MaxLosses
    /\ restarts' = restarts + 1
    /\ lapsed' = lapsed \cup {o \in Owners : o \in flying \/ \E k \in Keys : lock[k] = o}
    /\ lock' = [k \in Keys |-> Nobody] /\ flying' = {} /\ over' = {}
    /\ asked' = {} /\ gate' = Free
    /\ txn' = [s \in Sessions |-> IF s \in Follower THEN txn[s] ELSE Over(s)]
    /\ stmt' = [w \in Stmts |-> IF (IF w \in Autos THEN w ELSE SessionOf(w)) \in Follower THEN stmt[w]
                                ELSE IF w \in Autos THEN [NoStmt EXCEPT !.step = "over"] ELSE NoStmt]
    /\ UNCHANGED <<log, gone, seen>>

Next ==
    \/ \E s \in Sessions : Begin(s) \/ Rollback(s) \/ Savepoint(s) \/ RollbackTo(s) \/ Commit(s)
    \/ \E c \in asked \cup {gate.c} : SendFails(c)
    \/ \E w \in Slots : Start(w) \/ Keep(w) \/ KeepLocks(w)
    \/ \E w \in Autos : StartAuto(w) \/ Enter(w) \/ Land(w)
    \/ \E w \in Stmts : Pass(w) \/ Moved(w) \/ Grant(w) \/ Refuse(w) \/ Check(w)
    \/ \E k \in Keys : Load(k) \/ Close(Change(k))
    \/ \E c \in asked : Close(c)
    \/ PassCheck \/ Conflict \/ GateTimeout \/ Flush
    \/ See \/ Expire \/ Restart
    \/ \E o \in Owners : Lapse(o)

Spec == Init /\ [][Next]_vars

-----------------------------------------------------------------------------
(* Properties                                                               *)

\* The types.
TypeOK ==
    /\ log \in Seq(Entry) /\ Len(log) <= MaxN /\ gone \in 0 .. Len(log) /\ seen \in 0 .. Len(log)
    /\ lock \in [Keys -> Owners \cup {Nobody}] /\ flying \subseteq Autos /\ over \subseteq Owners \ Autos /\ lapsed \subseteq Owners
    /\ txn \in [Sessions -> Txn] /\ stmt \in [Stmts -> Stmt] /\ asked \subseteq Request /\ gate \in Gate
    /\ restarts \in 0 .. MaxLosses

\* The commits that wrote row k after the version that it was worked out from.
After(base, k) == {i \in base[k] + 1 .. Len(log) : k \in log[i].keys}

\* No COMMIT, and no change that the leader works out, writes over a version it hasn't
\* read, whatever became of its locks: what comes between is what no lock and no gate
\* keeps out, after its check (txn.rs, `write_changes`; ADR-067 6).
NoLostUpdate ==
    gate.step = "inside" =>
        \A k \in gate.c.kept.writes : \A i \in After(gate.c.kept.base, k) :
            i > gate.checked /\ ~log[i].sure /\ log[i].how # "gated"

\* An autocommitted write is checked by nothing when it lands: what it holds keeps every
\* other writer but loads from its rows until then (`autocommit`, `close`).
AutoKeeps ==
    \A w \in Autos \ lapsed : stmt[w].step = "done" /\ stmt[w].locked =>
        \A k \in stmt[w].keys : \A i \in After(stmt[w].base, k) :
            log[i].how = "blind" \/ (log[i].how = "auto" /\ ~log[i].sure)

\* A transaction that locked every row it changed, and kept its locks, is refused only for
\* what a writer without locks did (`passes`, `note`, `conflicts`).
LockedCommits ==
    gate.step = "closing" /\ gate.c.id # Nobody /\ gate.c.kept.locked /\ gate.c.id \notin lapsed =>
        \A n \in Conflicts(gate.c.kept, Len(log)) : ~log[n].sure
=============================================================================
