---------------------------- MODULE SequenceValues ----------------------------
(***************************************************************************)
(* Sequences (seq.rs): only the leader's sequencer moves a sequence's       *)
(* counter, each op with a commit number of its own.  `nextval` takes a     *)
(* block of values, durable before any is handed out, and a node hands it   *)
(* out until it sees that the sequence was made, changed or set since.      *)
(*                                                                         *)
(* A node sees the catalog as it was some time ago.  A takeover loses the   *)
(* writes that were not durable yet, and what the sequencer held of them.   *)
(***************************************************************************)
EXTENDS Integers, Sequences, FiniteSets

CONSTANTS
    Calls,              \* who calls `nextval` and `setval`, one call after the other
    Nodes,
    Names,              \* sequences' names
    Shapes,             \* what a sequence may be declared as
    Settings,           \* what it may be set to: [value, called]
    Sizes,              \* how many values a node asks for: it doubles and halves what it had
    Most,               \* bound: values a call takes
    Nothing, Unknown,   \* no sequence or call; a sequence not looked up yet
    MaxN,               \* bound: commit numbers
    MaxTakeovers        \* bound: takeovers

ASSUME NothingAssumption == {Nothing, Unknown} \cap Calls = {} /\ Nothing # Unknown
ASSUME ShapesAssumption ==
    \A s \in Shapes : /\ s \in [start : Int, increment : Int \ {0}, min : Int, max : Int, cycle : BOOLEAN]
                      /\ s.min < s.max /\ s.start \in s.min .. s.max
ASSUME NamesAssumption == Names # {}
ASSUME BoundsAssumption == {Most, MaxN, MaxTakeovers} \subseteq Nat /\ Sizes \subseteq Nat \ {0}
                            /\ Settings \subseteq [value : Int, called : BOOLEAN]

VARIABLES
    nodeOf,     \* where each call runs
    cat,        \* the catalog as committed
    flying,     \* writes on their way, in order
    held,       \* `Held::known`: the sequencer's copy of the counters it has touched
    seen,       \* the sequences as each node sees them
    blocks,     \* each node's blocks ...
    lock,       \* ... and the call that has them locked
    call,       \* the calls
    given,      \* the values each node handed out
    told,       \* the commit of the last `setval` that returned there
    takeovers

vars == <<nodeOf, cat, flying, held, seen, blocks, lock, call, given, told, takeovers>>

\* `version`: the commit that made or last changed it.  `life`: the commit since which no value may
\* come twice (the code keeps no such number: it is here to say so).
Counter == [shape : Shapes, last : Int, called : BOOLEAN, version : Nat, life : Nat]
Catalog == [n : Nat, seq : [Names -> Counter \cup {Nothing}]]
ASSUME CounterAssumption == {Nothing, Unknown} \cap Counter = {}
Block   == [version : Nat, next : Int, left : Nat, step : Int, life : Nat]

\* `version`: of its sequence as it found it; `after`: the last `setval` that had returned on its
\* node; `answer`: a block (`version` 0: refused).
Call == [step : {"idle", "found", "locked", "asked", "ordered", "answered"}, set : BOOLEAN, name : Names,
         value : Int, called : BOOLEAN, want : 0 .. Most, version : Nat, after : Nat, answer : Block]

\* `of`: whom it answers (a statement: Nothing; one who left: Unknown), and with what.
Write == [to : Catalog, of : Calls \cup {Nothing, Unknown}, answer : Block]

\* A value handed out: of a block taken in commit `version`, to a call begun after commit `after`.
Given == [name : Names, value : Int, step : Int, life : Nat, version : Nat, after : Nat]

NoBlock == [version |-> 0, next |-> 0, left |-> 0, step |-> 0, life |-> 0]
AName   == CHOOSE s \in Names : TRUE
NoCall  == [step |-> "idle", set |-> FALSE, name |-> AName, value |-> 0, called |-> FALSE, want |-> 0, version |-> 0,
            after |-> 0, answer |-> NoBlock]

Init ==
    /\ nodeOf \in [Calls -> Nodes]
    /\ cat = [n |-> 1, seq |-> [s \in Names |-> Nothing]]
    /\ flying = <<>>
    /\ held = [s \in Names |-> Unknown]
    /\ seen = [i \in Nodes |-> cat.seq]
    /\ blocks = [i \in Nodes |-> [s \in Names |-> NoBlock]]
    /\ lock = [i \in Nodes |-> Nothing]
    /\ call = [c \in Calls |-> NoCall]
    /\ given = [i \in Nodes |-> <<>>]
    /\ told = [i \in Nodes |-> [s \in Names |-> 0]]
    /\ takeovers = 0

Newest == IF flying = <<>> THEN cat ELSE flying[Len(flying)].to

-----------------------------------------------------------------------------
(* The sequencer.                                                          *)

\* The counter as the sequencer has it: its own copy, or the catalog's.
Get(s) == IF held[s] = Unknown THEN cat.seq[s] ELSE held[s]

Within(v, shape) == v \in shape.min .. shape.max

\* The value after the last, or that one if no call had it.  (Mutant: that one.)
Last(c)  == c.last
After(c) == IF c.called THEN c.last + c.shape.increment ELSE c.last

\* `take`: the next value; the other end past the bounds, if it cycles; nothing, if it is used up.
First(c) ==
    IF Within(After(c), c.shape) THEN {After(c)}
    ELSE IF c.shape.cycle THEN {IF c.shape.increment > 0 THEN c.shape.min ELSE c.shape.max}
    ELSE {}

\* How many values there are from one on.
Room(v, shape) ==
    1 + (IF shape.increment > 0 THEN (shape.max - v) \div shape.increment
                                ELSE (v - shape.min) \div (-shape.increment))

Least(a, b) == IF a < b THEN a ELSE b

\* A block of up to `count` values, and the counter after it.
Taken(c, count, version) ==
    LET first == CHOOSE v \in First(c) : TRUE
        n     == Least(count, Room(first, c.shape))
        again == ~Within(After(c), c.shape)
        life  == IF again THEN version ELSE c.life
    IN  [block |-> [version |-> version, next |-> first, left |-> n, step |-> c.shape.increment, life |-> life],
         counter |-> [c EXCEPT !.last = first + (n - 1) * c.shape.increment, !.called = TRUE, !.life = life]]

\* The op of a call or a statement is a commit: counters it leaves, and its answer.
Order(counters, of, answer) ==
    /\ Newest.n < MaxN
    /\ held' = [s \in Names |-> IF s \in DOMAIN counters THEN counters[s] ELSE held[s]]
    /\ flying' = Append(flying,
            [to |-> [n |-> Newest.n + 1,
                     seq |-> [s \in Names |-> IF s \in DOMAIN counters THEN counters[s] ELSE Newest.seq[s]]],
             of |-> of, answer |-> answer])

Refused(s) == [t \in {s} |-> Get(s)]

OrderTake(c) ==
    LET s == call[c].name
        t == Taken(Get(s), call[c].value, Newest.n)
    IN  /\ call[c].step = "asked" /\ ~call[c].set
        /\ IF Get(s) = Nothing \/ (Get(s) # Nothing /\ First(Get(s)) = {})
           THEN Order(Refused(s), c, NoBlock)
           ELSE Order([r \in {s} |-> t.counter], c, t.block)
        /\ call' = [call EXCEPT ![c].step = "ordered"]
        /\ UNCHANGED <<nodeOf, cat, seen, blocks, lock, given, told, takeovers>>

\* The values of a sequence that is set start over after the one given.
OrderSet(c) ==
    LET s == call[c].name
        v == call[c].value
    IN  /\ call[c].step = "asked" /\ call[c].set
        /\ IF Get(s) = Nothing \/ (Get(s) # Nothing /\ ~Within(v, Get(s).shape))
           THEN Order(Refused(s), c, NoBlock)
           ELSE Order([r \in {s} |-> [Get(s) EXCEPT !.last = v, !.called = call[c].called,
                                                    !.version = Newest.n, !.life = Newest.n]],
                      c, [NoBlock EXCEPT !.version = Newest.n])
        /\ call' = [call EXCEPT ![c].step = "ordered"]
        /\ UNCHANGED <<nodeOf, cat, seen, blocks, lock, given, told, takeovers>>

\* Statements, under the lake's lock: one after the other is committed, each checked on the catalog.
Statement(counters) ==
    /\ \A i \in 1 .. Len(flying) : flying[i].of # Nothing
    /\ Order(counters, Nothing, NoBlock)
    /\ UNCHANGED <<nodeOf, cat, seen, blocks, lock, call, given, told, takeovers>>

\* CREATE [OR REPLACE] SEQUENCE.
Make(s, shape) ==
    Statement([t \in {s} |-> [shape |-> shape, last |-> shape.start, called |-> FALSE,
                              version |-> Newest.n, life |-> Newest.n]])

\* ALTER SEQUENCE, with RESTART or without.
Alter(s, shape, restart) ==
    /\ cat.seq[s] # Nothing
    /\ Get(s) # Nothing
    /\ \/ ~restart /\ Statement([t \in {s} |->
            [Get(s) EXCEPT !.shape = shape, !.version = Newest.n,
                           !.life = IF shape = Get(s).shape THEN @ ELSE Newest.n]])
       \/ restart /\ Statement([t \in {s} |->
            [Get(s) EXCEPT !.shape = shape, !.last = shape.start, !.called = FALSE,
                           !.version = Newest.n, !.life = Newest.n]])

\* ALTER SEQUENCE ... RENAME TO.
Rename(s, to) ==
    /\ cat.seq[s] # Nothing /\ cat.seq[to] = Nothing
    /\ Get(s) # Nothing
    /\ Statement([t \in {s, to} |-> IF t = s THEN Nothing ELSE [Get(s) EXCEPT !.version = Newest.n]])

Drop(s) ==
    /\ cat.seq[s] # Nothing
    /\ Statement([t \in {s} |-> Nothing])

\* A commit is durable, and what it answers is answered.
Durable ==
    LET c == Head(flying).of IN
    /\ flying # <<>>
    /\ cat' = Head(flying).to
    /\ flying' = Tail(flying)
    /\ call' = IF c \in Calls /\ call[c].step = "ordered"
               THEN [call EXCEPT ![c].step = "answered", ![c].answer = Head(flying).answer] ELSE call
    /\ UNCHANGED <<nodeOf, held, seen, blocks, lock, given, told, takeovers>>

\* A takeover keeps k of the writes on their way; a new sequencer has touched nothing.
TakeOver(k) ==
    /\ takeovers < MaxTakeovers
    /\ takeovers' = takeovers + 1
    /\ cat' = IF k = 0 THEN cat ELSE flying[k].to
    /\ flying' = <<>>
    /\ held' = [s \in Names |-> Unknown]
    /\ UNCHANGED <<nodeOf, seen, blocks, lock, call, given, told>>

-----------------------------------------------------------------------------
(* A node's calls.                                                         *)

See(i) ==
    /\ seen' = [seen EXCEPT ![i] = cat.seq]
    /\ UNCHANGED <<nodeOf, cat, flying, held, blocks, lock, call, given, told, takeovers>>

\* `next`: finds its sequence, as its node sees it ...
StartNext(c, s, want) ==
    LET i == nodeOf[c] IN
    /\ call[c].step = "idle" /\ seen[i][s] # Nothing
    /\ call' = [call EXCEPT ![c] = [NoCall EXCEPT !.step = "found", !.name = s, !.want = want,
                                                  !.version = seen[i][s].version, !.after = told[i][s]]]
    /\ UNCHANGED <<nodeOf, cat, flying, held, seen, blocks, lock, given, told, takeovers>>

\* ... locks its node's blocks, and leaves the one from before a change of the sequence ...
\* (Mutant: the block stays.)
SameBlocks(i, s)   == blocks
WithoutBlock(i, s) == [blocks EXCEPT ![i][s] = NoBlock]
Lock(c) ==
    LET i == nodeOf[c]
        s == call[c].name
    IN  /\ call[c].step = "found" /\ lock[i] = Nothing
        /\ lock' = [lock EXCEPT ![i] = c]
        /\ blocks' = IF blocks[i][s].version < call[c].version THEN WithoutBlock(i, s) ELSE blocks
        /\ call' = [call EXCEPT ![c].step = "locked"]
        /\ UNCHANGED <<nodeOf, cat, flying, held, seen, given, told, takeovers>>

Blocks(c) == blocks[nodeOf[c]][call[c].name]

\* ... takes a block of what its node is used to, or of what it still wants ...
Ask(c, size) ==
    /\ call[c].step = "locked" /\ Blocks(c).left = 0
    /\ call' = [call EXCEPT ![c].step = "asked", ![c].value = IF size < call[c].want THEN call[c].want ELSE size]
    /\ UNCHANGED <<nodeOf, cat, flying, held, seen, blocks, lock, given, told, takeovers>>

HearBlock(c) ==
    /\ call[c].step = "answered" /\ ~call[c].set /\ call[c].answer.version > 0
    /\ blocks' = [blocks EXCEPT ![nodeOf[c]][call[c].name] = call[c].answer]
    /\ call' = [call EXCEPT ![c].step = "locked"]
    /\ UNCHANGED <<nodeOf, cat, flying, held, seen, lock, given, told, takeovers>>

\* ... and has the values of one, which are given as it returns (here, as it takes them).
\* (Mutant: every value that is left.)
Whole(want, left) == left
Share(want, left) == Least(want, left)
Give(c) ==
    LET i == nodeOf[c]
        b == Blocks(c)
        k == Share(call[c].want, b.left)
    IN  /\ call[c].step = "locked" /\ b.left > 0
        /\ given' = [given EXCEPT ![i] = @ \o [j \in 1 .. k |->
                        [name |-> call[c].name, value |-> b.next + (j - 1) * b.step, step |-> b.step, life |-> b.life,
                         version |-> b.version, after |-> call[c].after]]]
        /\ blocks' = [blocks EXCEPT ![i][call[c].name] = [b EXCEPT !.left = @ - k, !.next = @ + k * b.step]]
        /\ IF k = call[c].want
           THEN call' = [call EXCEPT ![c] = NoCall] /\ lock' = [lock EXCEPT ![i] = Nothing]
           ELSE call' = [call EXCEPT ![c].want = @ - k] /\ UNCHANGED lock
        /\ UNCHANGED <<nodeOf, cat, flying, held, seen, told, takeovers>>

\* `setval`: asks the sequencer ...
StartSet(c, s, to) ==
    LET i == nodeOf[c] IN
    /\ call[c].step = "idle" /\ seen[i][s] # Nothing
    /\ call' = [call EXCEPT ![c] = [NoCall EXCEPT !.step = "asked", !.set = TRUE, !.name = s,
                                                  !.value = to.value, !.called = to.called]]
    /\ UNCHANGED <<nodeOf, cat, flying, held, seen, blocks, lock, given, told, takeovers>>

\* ... and leaves its own node's block before it returns.
FinishSet(c) ==
    LET i == nodeOf[c]
        s == call[c].name
    IN  /\ call[c].step = "answered" /\ call[c].set /\ call[c].answer.version > 0 /\ lock[i] = Nothing
        /\ blocks' = WithoutBlock(i, s)
        /\ told' = [told EXCEPT ![i][s] = IF @ < call[c].answer.version THEN call[c].answer.version ELSE @]
        /\ call' = [call EXCEPT ![c] = NoCall]
        /\ UNCHANGED <<nodeOf, cat, flying, held, seen, lock, given, takeovers>>

\* Those who left are answered no more.
LeftBy(calls) == flying' = [j \in 1 .. Len(flying) |-> IF flying[j].of \in calls THEN [flying[j] EXCEPT !.of = Unknown]
                                                                          ELSE flying[j]]

\* A call is refused, or fails without an answer, though its op may be carried out.
Fail(c) ==
    LET i == nodeOf[c] IN
    /\ call[c].step \in {"asked", "ordered", "answered"}
    /\ call' = [call EXCEPT ![c] = NoCall]
    /\ lock' = IF lock[i] = c THEN [lock EXCEPT ![i] = Nothing] ELSE lock
    /\ LeftBy({c})
    /\ UNCHANGED <<nodeOf, cat, held, seen, blocks, given, told, takeovers>>

\* A node restarts: its blocks and its calls are gone.
Restart(i) ==
    LET here == {c \in Calls : nodeOf[c] = i} IN
    /\ blocks' = [blocks EXCEPT ![i] = [s \in Names |-> NoBlock]]
    /\ call' = [c \in Calls |-> IF c \in here THEN NoCall ELSE call[c]]
    /\ lock' = [lock EXCEPT ![i] = Nothing]
    /\ LeftBy(here)
    /\ UNCHANGED <<nodeOf, cat, held, seen, given, told, takeovers>>

Next ==
    \/ \E c \in Calls, s \in Names :
        \/ \E want \in 1 .. Most : StartNext(c, s, want)
        \/ \E to \in Settings : StartSet(c, s, to)
    \/ \E c \in Calls :
        \/ Lock(c) \/ HearBlock(c) \/ Give(c) \/ FinishSet(c) \/ Fail(c) \/ OrderTake(c) \/ OrderSet(c)
        \/ \E size \in Sizes : Ask(c, size)
    \/ \E s \in Names :
        \/ \E shape \in Shapes, restart \in BOOLEAN : Make(s, shape) \/ Alter(s, shape, restart)
        \/ Drop(s) \/ \E to \in Names \ {s} : Rename(s, to)
    \/ Durable \/ \E k \in 0 .. Len(flying) : TakeOver(k)
    \/ \E i \in Nodes : See(i) \/ Restart(i)

Spec == Init /\ [][Next]_vars

-----------------------------------------------------------------------------
(* What must hold.                                                         *)

TypeOK ==
    /\ nodeOf \in [Calls -> Nodes]
    /\ cat \in Catalog
    /\ flying \in Seq(Write)
    /\ held \in [Names -> Counter \cup {Nothing, Unknown}]
    /\ seen \in [Nodes -> [Names -> Counter \cup {Nothing}]]
    /\ blocks \in [Nodes -> [Names -> Block]]
    /\ lock \in [Nodes -> Calls \cup {Nothing}]
    /\ call \in [Calls -> Call]
    /\ given \in [Nodes -> Seq(Given)]
    /\ told \in [Nodes -> [Names -> Nat]]
    /\ takeovers \in 0 .. MaxTakeovers

\* No value is handed out twice, by whichever nodes, over takeovers, restarts and renames
\* (objects.rs:103), unless the sequence was set or changed in between or went round.
NeverTwice ==
    \A i, j \in Nodes : \A g \in DOMAIN given[i], h \in DOMAIN given[j] :
        (given[i][g].life = given[j][h].life /\ given[i][g].value = given[j][h].value) => i = j /\ g = h

\* Once `setval` returned on a node, it hands out no value from before (seq.rs `set`).
SetIsSeen == \A i \in Nodes : \A g \in DOMAIN given[i] : given[i][g].version > given[i][g].after \/ given[i][g].after = 0
=============================================================================
