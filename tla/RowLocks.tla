------------------------------ MODULE RowLocks ------------------------------
(***************************************************************************)
(* Row locks (locks.rs): the leader's `Table` of one lake, the requests it  *)
(* serves (`take`), the transactions and autocommitted writes that ask for  *)
(* locks (txn.rs), and the gate that writers under the lake's lock close.   *)
(*                                                                         *)
(* An owner is one transaction or one autocommitted write; its id is never  *)
(* used again.  A call is one request of its owner at the leader; a place   *)
(* in a queue is the call that waits there (the code's token).  Time is     *)
(* kept as what is left of it: a lease that lasts has some left.            *)
(***************************************************************************)
EXTENDS Naturals, FiniteSets, Sequences

CONSTANTS
    Owners,     \* transactions and autocommitted writes
    Autos,      \* ... those that are autocommitted writes
    Remote,     \* ... those on another node than the leader
    Tables,     \* the tables a writer may close
    TableOf,    \* [Autos -> Tables]: the table an autocommitted write appends to
    Keys,       \* the row keys, in the order writers take them
    Lease,      \* PONDRA_LOCK_LEASE_SECS, in steps of the clock
    Stalls,     \* may a lease run out though its owner is at work, or waits here?
    Tries,      \* bound: requests an owner makes
    Nobody      \* no owner, no place

ASSUME OwnersAssumption == IsFiniteSet(Owners) /\ Autos \subseteq Owners /\ Remote \subseteq Owners
ASSUME TablesAssumption == TableOf \in [Autos -> Tables]
ASSUME KeysAssumption == Keys \subseteq Nat
ASSUME LeaseAssumption == Lease \in Nat \ {0} /\ Stalls \in BOOLEAN
ASSUME TriesAssumption == Tries \in Nat \ {0}

Calls == Owners \X (1 .. Tries)
OwnerOf(c) == c[1]
ASSUME NobodyAssumption == Nobody \notin Owners /\ Nobody \notin Keys \X Calls

VARIABLES
    tab,        \* the leader's Table
    sweeping,   \* the keys a sweep has still to settle: it holds the Table's mutex
    call,       \* the requests
    own,        \* each owner, where it runs
    gate        \* the writer under the lake's lock, and the tables it closes

vars == <<tab, sweeping, call, own, gate>>

Left   == 0 .. Lease
Queues == UNION {[1 .. n -> Calls] : n \in 0 .. Cardinality(Calls)}

\* `won`: the places whose channel carries a grant nobody has received yet.
Table == [holder : [Keys -> Owners \cup {Nobody}], queue : [Keys -> Queues],
          held : [Owners -> SUBSET Keys], leases : [Owners -> Left], ended : [Owners -> Left],
          waiting : [Owners -> (Keys \X Calls) \cup {Nobody}], won : SUBSET Calls,
          flying : [Tables -> SUBSET Owners], closed : [Tables -> 0 .. 1], swept : Left]

\* `keys`: what it takes; `left`: what it has still to take.
Call == [step : {"unused", "asking", "queued", "waiting", "entering", "granted", "refused"},
         keys : SUBSET Keys, left : SUBSET Keys, nowait : BOOLEAN]

\* `last`: the call it listens to; `has`: the keys it was told it holds; `limit`:
\* what is left of its wait for an answer; `sure`: (history) its lease never ran out.
Owner == [step : {"idle", "taking", "open", "appending", "lost", "committing", "ending", "over", "dead"},
          last : 0 .. Tries, has : SUBSET Keys, limit : Left, sure : BOOLEAN]

Gate == [step : {"open", "waiting", "inside"}, who : Owners \cup {Nobody}, tables : SUBSET Tables]

NewCall == [step |-> "unused", keys |-> {}, left |-> {}, nowait |-> FALSE]
Open    == [step |-> "open", who |-> Nobody, tables |-> {}]

Init ==
    /\ tab = [holder |-> [k \in Keys |-> Nobody], queue |-> [k \in Keys |-> <<>>],
              held |-> [o \in Owners |-> {}], leases |-> [o \in Owners |-> 0],
              ended |-> [o \in Owners |-> 0], waiting |-> [o \in Owners |-> Nobody],
              won |-> {}, flying |-> [x \in Tables |-> {}], closed |-> [x \in Tables |-> 0],
              swept |-> Lease]
    /\ sweeping = {}
    /\ call = [c \in Calls |-> NewCall]
    /\ own = [o \in Owners |-> [step |-> "idle", last |-> 0, has |-> {}, limit |-> 0, sure |-> TRUE]]
    /\ gate = Open

-----------------------------------------------------------------------------
(* The Table.                                                              *)

Stands(q, c)  == \E i \in 1 .. Len(q) : q[i] = c
Place(q, c)   == CHOOSE i \in 1 .. Len(q) : q[i] = c

\* The queue once the place `c`, which stands in it at most once, has left it.
Without(q, c) ==
    IF Stands(q, c) THEN SubSeq(q, 1, Place(q, c) - 1) \o SubSeq(q, Place(q, c) + 1, Len(q)) ELSE q

Live(t, o)    == t.leases[o] > 0
IsEnded(t, o) == t.ended[o] > 0

\* Its lease lasts from now on.  (Mutant: on top of what is left of it.)
RenewMore(t, o) == IF IsEnded(t, o) THEN t ELSE [t EXCEPT !.leases[o] = @ + Lease]
Renew(t, o)     == IF IsEnded(t, o) THEN t ELSE [t EXCEPT !.leases[o] = Lease]

\* A holder whose lease ran out loses its key ...  (Mutants: a moment early; the
\* owner's own index keeps the key.)
LapsedEarly(t, k) == t.holder[k] # Nobody /\ t.leases[t.holder[k]] <= 1
Lapsed(t, k) == t.holder[k] # Nobody /\ ~Live(t, t.holder[k])
EvictKeeps(t, k) == IF Lapsed(t, k) THEN [t EXCEPT !.holder[k] = Nobody] ELSE t
Evict(t, k) ==
    IF Lapsed(t, k)
    THEN [t EXCEPT !.holder[k] = Nobody, !.held[t.holder[k]] = @ \ {k}]
    ELSE t

\* ... and each of the keys `ks` that nobody holds goes to the first of its queue.
Give(t, ks) ==
    LET won     == {k \in ks : t.holder[k] = Nobody /\ t.queue[k] # <<>>}
        first   == [k \in won |-> Head(t.queue[k])]
        gets(o) == {k \in won : OwnerOf(first[k]) = o}
    IN  [t EXCEPT
            !.holder  = [k \in Keys |-> IF k \in won THEN OwnerOf(first[k]) ELSE t.holder[k]],
            !.queue   = [k \in Keys |-> IF k \in won THEN Tail(t.queue[k]) ELSE t.queue[k]],
            !.held    = [o \in Owners |-> t.held[o] \cup gets(o)],
            !.leases  = [o \in Owners |-> IF gets(o) # {} THEN Lease ELSE t.leases[o]],
            !.waiting = [o \in Owners |-> IF \E k \in won : t.waiting[o] = <<k, first[k]>>
                                          THEN Nobody ELSE t.waiting[o]],
            !.won     = @ \cup {first[k] : k \in won}]

Settle(t, k) == Give(Evict(t, k), {k})

\* The place `c` leaves k's queue; its grant, if it has one, is never received.
Cancel(t, k, c) ==
    Settle([t EXCEPT !.queue[k] = Without(@, c),
                     !.waiting = [o \in Owners |-> IF @[o] = <<k, c>> THEN Nobody ELSE @[o]],
                     !.won = @ \ {c}], k)

Unwait(t, o) ==
    IF t.waiting[o] = Nobody THEN t
    ELSE Settle([t EXCEPT !.queue[t.waiting[o][1]] = Without(@, t.waiting[o][2]),
                          !.waiting[o] = Nobody], t.waiting[o][1])

\* Its keys go to the next in line, and its place in any queue, and its appends.
Freed(t, o, mine) ==
    [t EXCEPT !.holder = [k \in Keys |-> IF k \in mine THEN Nobody ELSE t.holder[k]],
              !.held[o] = {}, !.leases[o] = 0, !.ended[o] = Lease,
              !.flying = [x \in Tables |-> @[x] \ {o}]]
Release(t, o) ==
    LET mine == {k \in t.held[o] : t.holder[k] = o} IN Unwait(Give(Freed(t, o, mine), mine), o)

\* Whom o's place in k's queue stands behind (all of it, if o has none there).
Ahead(t, k, o) ==
    LET h == t.holder[k]
        q == t.queue[k]
    IN  {p \in Owners : p = h /\ p # o /\ Live(t, p)} \cup
        {OwnerOf(q[i]) : i \in {j \in 1 .. Len(q) : \A m \in 1 .. j : OwnerOf(q[m]) # o}}

WaitsFor(t, o) == IF t.waiting[o] = Nobody THEN {} ELSE Ahead(t, t.waiting[o][1], o)

\* Everyone `from` waits for, directly or through others: the owners in every set that
\* has `from`, and with an owner those it waits for.
Reached(t, from) ==
    {o \in Owners : \A S \in SUBSET Owners :
        from \subseteq S /\ (\A p \in S : WaitsFor(t, p) \subseteq S) => o \in S}

\* (Mutant: a loop of two is looked for, and no longer one.)
LoopsOfTwo(t, from, o) == o \in UNION {WaitsFor(t, p) : p \in from}
Loops(t, from, o)      == o \in Reached(t, from)

\* An ask: its lease is renewed, and the key given to whom it is due.
Asked(t, o, k) == Settle(Renew(t, o), k)
Free(t, o, k)  == t.holder[k] \in {o, Nobody}
Grant(t, o, k) == [t EXCEPT !.holder[k] = o, !.held[o] = @ \cup {k}, !.leases[o] = Lease]

\* A place at the queue's end.  (Mutant: at its front.)
QueueFirst(t, c, k) == [t EXCEPT !.queue[k] = <<c>> \o @, !.waiting[OwnerOf(c)] = <<k, c>>]
Queue(t, c, k)      == [t EXCEPT !.queue[k] = Append(@, c), !.waiting[OwnerOf(c)] = <<k, c>>]

\* May `o` append to `x`?  (Mutant: no writer shuts a table.)
MayEnterAnyway(t, o, x) == TRUE
MayEnter(t, o, x)       == o \in t.flying[x] \/ t.closed[x] = 0
Appending(t, x)         == \E o \in t.flying[x] : Live(t, o)

-----------------------------------------------------------------------------
(* One request at the leader: `take`, its keys in order, then `enter`.      *)

KeyOf(c) == CHOOSE k \in call[c].left : \A j \in call[c].left : k <= j

\* A request is over: its owner hears how, if it still listens to this one.
Heard(c) == own[OwnerOf(c)].step = "taking" /\ own[OwnerOf(c)].last = c[2]
Over(c, step) ==
    call' = [call EXCEPT ![c] = IF Heard(c) THEN [NewCall EXCEPT !.step = step, !.keys = call[c].keys] ELSE NewCall]

\* It has its key `k`: it asks for the next one, or enters, or is granted.
Has(c, k) ==
    LET left == call[c].left \ {k}
    IN  IF left # {} THEN call' = [call EXCEPT ![c].step = "asking", ![c].left = left]
        ELSE IF OwnerOf(c) \in Autos THEN call' = [call EXCEPT ![c].step = "entering", ![c].left = {}]
        ELSE Over(c, "granted")

\* The Table's mutex is free, and the call is at this step of its own.
At(c, step) == sweeping = {} /\ call[c].step = step

\* `take` sweeps first when a lease's time has passed since the last sweep.
Ask(c) ==
    LET o == OwnerOf(c)
        k == KeyOf(c)
        t == Asked(tab, o, k)
        u == Unwait(t, o)
    IN  /\ At(c, "asking") /\ tab.swept > 0
        /\ \/ /\ IsEnded(tab, o)
              /\ Over(c, "refused")
              /\ UNCHANGED tab
           \/ /\ ~IsEnded(tab, o) /\ Free(t, o, k)
              /\ tab' = IF t.holder[k] = o THEN t ELSE Grant(t, o, k)
              /\ Has(c, k)
           \/ /\ ~IsEnded(tab, o) /\ ~Free(t, o, k)
              /\ IF Loops(u, Ahead(u, k, o), o)
                 THEN tab' = u /\ Over(c, "refused")
                 ELSE tab' = Queue(u, c, k) /\ call' = [call EXCEPT ![c].step = "queued"]
        /\ UNCHANGED <<sweeping, own, gate>>

\* An autocommitted write stops appending before it waits for a row.
Wait(c) ==
    /\ At(c, "queued") /\ ~call[c].nowait
    /\ tab' = IF OwnerOf(c) \in Autos
              THEN [tab EXCEPT !.flying[TableOf[OwnerOf(c)]] = @ \ {OwnerOf(c)}] ELSE tab
    /\ call' = [call EXCEPT ![c].step = "waiting"]
    /\ UNCHANGED <<sweeping, own, gate>>

\* NOWAIT: its place is cancelled in another turn of the mutex than its asking.
DontWait(c) ==
    /\ At(c, "queued") /\ call[c].nowait
    /\ tab' = Cancel(tab, KeyOf(c), c)
    /\ Over(c, "refused")
    /\ UNCHANGED <<sweeping, own, gate>>

\* The grant comes: `timeout(TICK, &mut rx)`.
Receive(c) ==
    /\ At(c, "waiting") /\ c \in tab.won
    /\ tab' = [tab EXCEPT !.won = @ \ {c}]
    /\ Has(c, KeyOf(c))
    /\ UNCHANGED <<sweeping, own, gate>>

\* Its channel is closed: its place went, without a grant (`Unwait`).
PlaceGone(c) ==
    LET k == KeyOf(c)
    IN  /\ At(c, "waiting") /\ c \notin tab.won
        /\ ~Stands(tab.queue[k], c)
        /\ tab' = Cancel(tab, k, c)
        /\ Over(c, "refused")
        /\ UNCHANGED <<sweeping, own, gate>>

\* A tick of `wait_for`: a lapsed holder gives way, its own lease is renewed.
\* (Mutant: it only renews.)
OnlyRenewed(c) == Renew(tab, OwnerOf(c))
Looked(c)      == Renew(Settle(tab, KeyOf(c)), OwnerOf(c))
Look(c) ==
    LET t == Looked(c)
    IN  /\ At(c, "waiting")
        /\ IF c \in t.won
           THEN tab' = [t EXCEPT !.won = @ \ {c}] /\ Has(c, KeyOf(c))
           ELSE tab' = t /\ UNCHANGED call
        /\ UNCHANGED <<sweeping, own, gate>>

\* A wait that ends otherwise: `lock_timeout`, the node stops, or its session ended.
GiveUp(c) ==
    /\ \/ /\ At(c, "waiting") /\ c \notin Looked(c).won
          /\ tab' = Cancel(Looked(c), KeyOf(c), c)
       \/ /\ At(c, "waiting")
          /\ tab' = Cancel(tab, KeyOf(c), c)
       \/ /\ At(c, "entering")
          /\ UNCHANGED tab
    /\ Over(c, "refused")
    /\ UNCHANGED <<sweeping, own, gate>>

\* The last step for an appender, or a turn of its wait for the gate.
Enter(c) ==
    LET o == OwnerOf(c)
        x == TableOf[o]
    IN  /\ At(c, "entering")
        /\ IF MayEnter(tab, o, x)
           THEN /\ tab' = [Renew(tab, o) EXCEPT !.flying[x] = @ \cup {o}]
                /\ Over(c, "granted")
           ELSE tab' = Renew(tab, o) /\ UNCHANGED call
        /\ UNCHANGED <<sweeping, own, gate>>

-----------------------------------------------------------------------------
(* A sweep, in one turn of the mutex: `take` starts it when it is due,      *)
(* `count` whenever it is asked.  The keys come in no particular order.     *)

Swept(t) ==
    [t EXCEPT !.waiting = [o \in Owners |->
                              IF @[o] # Nobody /\ Stands(t.queue[@[o][1]], @[o][2]) THEN @[o] ELSE Nobody],
              !.swept = Lease]

Sweep ==
    LET t    == [tab EXCEPT !.flying = [x \in Tables |-> {o \in @[x] : Live(tab, o)}]]
        keys == {k \in Keys : t.holder[k] # Nobody \/ t.queue[k] # <<>>}
    IN  /\ sweeping = {}
        /\ tab' = IF keys = {} THEN Swept(t) ELSE t
        /\ sweeping' = keys
        /\ UNCHANGED <<call, own, gate>>

SweepKey(k) ==
    LET t == Settle(tab, k)
    IN  /\ k \in sweeping
        /\ tab' = IF sweeping = {k} THEN Swept(t) ELSE t
        /\ sweeping' = sweeping \ {k}
        /\ UNCHANGED <<call, own, gate>>

-----------------------------------------------------------------------------
(* The owners: a statement asks for its rows' locks (`passes`), again if    *)
(* they moved; a transaction runs several and ends; an autocommitted write  *)
(* appends its rows once it has their locks.                                *)

Asks(o) == own[o].step \notin {"idle", "ending", "over", "dead"}

\* Nothing more of it is asked for, and what it knew goes with it.
Done(o, step) == [own[o] EXCEPT !.step = step, !.has = {}, !.limit = 0, !.sure = TRUE]

Send(o, keys, nowait) ==
    LET c == <<o, own[o].last + 1>>
    IN  /\ own[o].last < Tries
        /\ call' = [call EXCEPT ![c] = [step |-> "asking", keys |-> keys, left |-> keys, nowait |-> nowait]]
        /\ own' = [own EXCEPT ![o].step = "taking", ![o].last = @ + 1, ![o].limit = IF o \in Remote THEN Lease ELSE 0]

\* A pass goes on for keys the statement doesn't hold; a transaction's next
\* statement may ask for any.
Begin(o) ==
    /\ own[o].step \in {"idle", "open"}
    /\ \E keys \in (SUBSET Keys) \ {{}} :
           /\ o \in Autos => ~(keys \subseteq own[o].has)
           /\ Send(o, keys, FALSE)
    /\ UNCHANGED <<tab, sweeping, gate>>

\* SELECT ... FOR UPDATE NOWAIT.  A follower's `ask` has no time left to send it.
BeginNowait(o) ==
    /\ o \notin Autos /\ own[o].step \in {"idle", "open"}
    /\ \E keys \in (SUBSET Keys) \ {{}} :
           IF o \notin Remote THEN Send(o, keys, TRUE)
           ELSE LET c == <<o, own[o].last + 1>>
                IN  /\ own[o].last < Tries
                    /\ call' = [call EXCEPT ![c] = [step |-> "refused", keys |-> keys, left |-> keys, nowait |-> TRUE]]
                    /\ own' = [own EXCEPT ![o].step = "taking", ![o].last = @ + 1, ![o].limit = IF o \in Remote THEN Lease ELSE 0]
    /\ UNCHANGED <<tab, sweeping, gate>>

\* No answer within a lease: a follower asks again, and its first request may still come.
Retry(o) ==
    LET c == <<o, own[o].last>>
    IN  /\ o \in Remote /\ own[o].step = "taking" /\ own[o].limit = 0
        /\ ~call[c].nowait
        /\ Send(o, call[c].keys, FALSE)
        /\ UNCHANGED <<tab, sweeping, gate>>

\* An answer.  A refused statement fails: an autocommitted write is over then.
Answer(o) ==
    LET c == <<o, own[o].last>>
    IN  /\ own[o].step = "taking" /\ call[c].step \in {"granted", "refused"}
        /\ own' = [own EXCEPT ![o] =
               IF call[c].step = "granted"
               THEN [own[o] EXCEPT !.step = "open", !.limit = 0, !.has = @ \cup call[c].keys]
               ELSE IF o \in Autos THEN Done(o, "ending") ELSE [own[o] EXCEPT !.step = "open", !.limit = 0]]
        /\ call' = [call EXCEPT ![c] = NewCall]
        /\ UNCHANGED <<tab, sweeping, gate>>

\* An autocommitted write sends its append; its answer comes, or is lost.
SendAppend(o) ==
    /\ o \in Autos /\ own[o].step = "open"
    /\ own' = [own EXCEPT ![o].step = "appending"]
    /\ UNCHANGED <<tab, sweeping, call, gate>>
Appended(o) ==
    /\ own[o].step = "appending"
    /\ own' = [own EXCEPT ![o] = Done(o, "ending")] \/ own' = [own EXCEPT ![o].step = "lost"]
    /\ UNCHANGED <<tab, sweeping, call, gate>>

\* A rollback, a session's end, an idle transaction's end, a failed statement's.
End(o) ==
    /\ own[o].step = "open"
    /\ own' = [own EXCEPT ![o] = Done(o, "ending")]
    /\ UNCHANGED <<tab, sweeping, call, gate>>

\* Its node dies.  What it sent may still come.
Die(o) ==
    /\ o \in Remote /\ own[o].step \in {"taking", "open", "ending"}
    /\ own' = [own EXCEPT ![o] = Done(o, "dead")]
    /\ UNCHANGED <<tab, sweeping, call, gate>>

\* Its locks go: `release_place`, or `commit_here` once it has its outcome.
LetGo(o) ==
    /\ sweeping = {} /\ own[o].step = "ending"
    /\ tab' = Release(tab, o)
    /\ own' = [own EXCEPT ![o] = Done(o, "over")]
    /\ UNCHANGED <<sweeping, call, gate>>

\* `upkeep` renews a transaction's locks; the last renewal may come after their release.
Upkeep(o) ==
    /\ sweeping = {} /\ o \notin Autos
    /\ \/ own[o].step \in {"taking", "open", "committing"}
       \/ own[o].step = "over" /\ IsEnded(tab, o)
    /\ tab' = Renew(tab, o)
    /\ UNCHANGED <<sweeping, call, own, gate>>

-----------------------------------------------------------------------------
(* The gate: one writer at a time, under the lake's lock.                   *)

\* A change or a file commit (Nobody), or a transaction's COMMIT.
Close(who) ==
    /\ sweeping = {} /\ gate.step = "open"
    /\ IF who = Nobody THEN UNCHANGED own
       ELSE /\ who \notin Autos /\ own[who].step = "open"
            /\ own' = [own EXCEPT ![who].step = "committing"]
    /\ \E xs \in (SUBSET Tables) \ {{}} :
           /\ tab' = [tab EXCEPT !.closed = [x \in Tables |-> IF x \in xs THEN @[x] + 1 ELSE @[x]]]
           /\ gate' = [step |-> "waiting", who |-> who, tables |-> xs]
    /\ UNCHANGED <<sweeping, call>>

PassGate ==
    /\ sweeping = {} /\ gate.step = "waiting"
    /\ \A x \in gate.tables : ~Appending(tab, x)
    /\ gate' = [gate EXCEPT !.step = "inside"]
    /\ UNCHANGED <<tab, sweeping, call, own>>

\* Its commit is made, or GATE_WAIT has passed: the tables open as the gate is dropped.
OpenGate ==
    /\ sweeping = {} /\ gate.step \in {"waiting", "inside"}
    /\ gate.step = "waiting" => \E x \in gate.tables : Appending(tab, x)
    /\ tab' = [tab EXCEPT !.closed = [x \in Tables |-> IF x \in gate.tables THEN @[x] - 1 ELSE @[x]]]
    /\ gate' = Open
    /\ own' = IF gate.who = Nobody THEN own ELSE [own EXCEPT ![gate.who] = Done(gate.who, "ending")]
    /\ UNCHANGED <<sweeping, call>>

-----------------------------------------------------------------------------
(* The clock.  `upkeep` renews three times a lease and a waiting call every *)
(* 50 ms, so the leases of these run out only when something stalls.        *)

Attended(o) ==
    \/ o \notin Autos /\ own[o].step \in {"taking", "open", "committing"}
    \/ \E i \in 1 .. Tries : call[<<o, i>>].step \in {"queued", "waiting", "entering"}

Less(n) == IF n = 0 THEN 0 ELSE n - 1
Tick ==
    /\ sweeping = {}
    /\ Stalls \/ \A o \in Owners : Attended(o) => tab.leases[o] # 1
    /\ tab' = [tab EXCEPT !.leases = [o \in Owners |-> Less(@[o])],
                          !.ended = [o \in Owners |-> Less(@[o])], !.swept = Less(@)]
    /\ own' = [o \in Owners |-> [own[o] EXCEPT !.limit = Less(@),
                                               !.sure = @ /\ (tab.leases[o] # 1 \/ ~Asks(o))]]
    /\ UNCHANGED <<sweeping, call, gate>>

CallStep(c) ==
    \/ Ask(c) \/ Wait(c) \/ DontWait(c) \/ Receive(c) \/ PlaceGone(c) \/ Look(c) \/ GiveUp(c) \/ Enter(c)
OwnerStep(o) ==
    \/ Begin(o) \/ BeginNowait(o) \/ Retry(o) \/ Answer(o) \/ SendAppend(o) \/ Appended(o)
    \/ End(o) \/ Die(o) \/ LetGo(o) \/ Upkeep(o)

Next ==
    \/ \E c \in Calls : CallStep(c)
    \/ \E o \in Owners : OwnerStep(o)
    \/ \E who \in Owners \cup {Nobody} : Close(who)
    \/ PassGate \/ OpenGate \/ Sweep \/ Tick
    \/ \E k \in Keys : SweepKey(k)

Spec == Init /\ [][Next]_vars

\* Fairness: a request gets its turns of the mutex (a wait's own bound is left
\* out: `lock_timeout` is none unless it is set), statements and transactions end
\* (an idle one is ended: PONDRA_TXN_IDLE_SECS), their locks go unless that
\* message is lost, writers leave the gate, and time passes.
Serve(c)    == Ask(c) \/ Wait(c) \/ DontWait(c) \/ Look(c) \/ Enter(c)
SweepIfDue  == tab.swept = 0 /\ (\E c \in Calls : call[c].step = "asking") /\ Sweep
Finish(o)   == Answer(o) \/ SendAppend(o) \/ Appended(o) \/ End(o)
LeaveGate   == PassGate \/ OpenGate
Fairness ==
    /\ \A c \in Calls : SF_vars(Serve(c)) /\ SF_vars(PlaceGone(c))
    /\ \A o \in Owners : WF_vars(Finish(o)) /\ SF_vars(Upkeep(o))
    /\ \A o \in Owners \ Remote : SF_vars(LetGo(o))
    /\ \A k \in Keys : WF_vars(SweepKey(k))
    /\ WF_vars(SweepIfDue) /\ SF_vars(LeaveGate) /\ SF_vars(Tick)

FairSpec == Spec /\ Fairness

-----------------------------------------------------------------------------
(* Properties.                                                             *)

\* Every variable has its type, and at most one writer closes a table.
TypeOK ==
    /\ tab \in Table
    /\ sweeping \subseteq Keys
    /\ call \in [Calls -> Call]
    /\ own \in [Owners -> Owner]
    /\ gate \in Gate

\* The Table's indexes agree, so that a release lets every key go and leaves no
\* place behind: `held` is what the locks say, `waiting` each owner's one place;
\* and nobody waits for a key nobody holds: none of them loses a grant.
Agrees ==
    \A o \in Owners, k \in Keys :
        /\ k \in tab.held[o] <=> tab.holder[k] = o
        /\ \A c \in Calls :
               tab.waiting[o] = <<k, c>> <=> OwnerOf(c) = o /\ Stands(tab.queue[k], c)
        /\ tab.queue[k] # <<>> => tab.holder[k] # Nobody

\* An owner whose lease never ran out holds every key it was told it holds, and one
\* that let its locks go has none, and no place, for a lease's time: a request of it
\* still on its way, or waiting here, can't take them back.
HeldAsTold ==
    \A o \in Owners :
        /\ own[o].sure => own[o].has \subseteq tab.held[o]
        /\ IsEnded(tab, o) => tab.held[o] = {} /\ tab.waiting[o] = Nobody

\* Waits never form a loop: the one that would close it is refused (`Table::ask`).
NoLoop == \A o \in Owners : o \notin Reached(tab, WaitsFor(tab, o))

Behind(q, c, d) == Stands(q, c) /\ \A i, j \in 1 .. Len(q) : q[i] = c /\ q[j] = d => i <= j

\* First come, first served: while a place stands in a queue none behind it is
\* granted, and none comes to stand before it.
Fifo ==
    [][\A k \in Keys : \A c, d \in Calls :
           c # d /\ Behind(tab.queue[k], c, d) /\ Stands(tab'.queue[k], c) =>
               /\ Behind(tab'.queue[k], c, d)
               /\ Stands(tab.queue[k], d) /\ ~Stands(tab'.queue[k], d) => d \notin tab'.won]_vars

\* While a writer is inside the gate, no autocommitted write whose lease never ran
\* out has its append on the way to a table it closed: they land before or after.
NeverBetween ==
    \A o \in Autos :
        gate.step = "inside" /\ TableOf[o] \in gate.tables /\ own[o].step \in {"appending", "lost"} =>
            ~own[o].sure

\* A request is refused before it asked only for a row another owner holds.
RefusedForARow ==
    [][\A c \in Calls : call[c].step = "unused" /\ call'[c].step = "refused" =>
           \E k \in call'[c].keys : tab.holder[k] \notin {OwnerOf(c), Nobody}]_vars

\* Every wait for a row ends: its holder ends or its lease does.
WaitsEnd == \A c \in Calls : call[c].step = "waiting" ~> call[c].step # "waiting"
=============================================================================
