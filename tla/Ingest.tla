-------------------------------- MODULE Ingest --------------------------------
(***************************************************************************)
(* Ingest (log.rs): producers number their batches; any node packs what it  *)
(* has into a flush, with the rows that an inline view derives from it; the *)
(* leader's sequencer skips what it has had, numbers the rest and commits   *)
(* it with the producers' seqs in one catalog write.  A view made over rows *)
(* that are there is filled once, from those up to where its flushes begin  *)
(* (views.rs), and a table whose entry moves has its appends held (ddl.rs). *)
(*                                                                         *)
(* The catalog is the log DurableLog promises: writes in order, of which a  *)
(* takeover keeps some of the first (an acknowledged one always, any other  *)
(* perhaps).  A write is kept here as the catalog it leads to.              *)
(***************************************************************************)
EXTENDS Naturals, FiniteSets, Sequences

CONSTANTS
    Producers,      \* those who send batches
    Chained,        \* ... those that name the seq each batch follows, and pipeline
    MaxSeq,         \* bound: batches of a producer
    Flights,        \* bound: flushes under way at once, of all nodes
    InFlight,       \* COMMITS_IN_FLIGHT
    Kinds,          \* "inline": small flushes, inside the commit; "object": big ones
    Twins,          \* may a node have a batch and its retry in one flush?
    Statements,     \* those run on the table: "view" (make one over it), "move" (its entry)
    MaxTakeovers,   \* bound: takeovers
    MaxN            \* bound: no number is asked for past it

Fill == "fill"      \* the producer of the view's filling: its one batch has seq 1
ASSUME ProducersAssumption == Chained \subseteq Producers /\ Fill \notin Producers
ASSUME BoundsAssumption == MaxSeq \in Nat /\ MaxSeq >= 1 /\ {InFlight, MaxTakeovers, MaxN} \subseteq Nat
ASSUME KindsAssumption ==
    Kinds \subseteq {"inline", "object"} /\ Twins \in BOOLEAN /\ Statements \subseteq {"view", "move"}

Batches == Producers \X (1 .. MaxSeq)
Marked  == Producers \cup {Fill}
Tally   == [Batches -> Nat]         \* how often a batch is in something

VARIABLES
    cat,        \* the catalog as committed: what the leader reads of it
    flying,     \* its writes on their way, in order
    seqr,       \* the sequencer
    flight,     \* the flushes
    cl,         \* what producers sent, and what they were told
    stmt,       \* the statement that makes the view, and the one that moves the table's entry
    takeovers

vars == <<cat, flying, seqr, flight, cl, stmt, takeovers>>

\* `at`: a batch's segment; `upto`: where the view's filling ends; `moved`: is the table's entry
\* gone from its name, and what its files had then?
Catalog == [n : Nat, mark : [Marked -> 0 .. MaxSeq], rows : Tally, at : Tally,
            view : {"none", "unbounded", "bounded"}, upto : Nat, shown : Tally,
            moved : BOOLEAN, filed : SUBSET Batches]

\* `slot`: is it the sequencer's?  `of`: the flushes it answers.
Write == [to : Catalog, slot : BOOLEAN, of : SUBSET Flights]

\* `number`: asks for a commit number; `hold`: that too, for a table that is held.
\* `twice`: parts that are in it twice; `derived`: has it the view's part?  `content`: what
\* a filling read.  Its outcome: `ok`, committed; `again`, to be sent again.
Flush == [step : {"free", "sent", "queued", "answered"},
          kind : {"inline", "object", "number", "hold", "fill"}, parts : SUBSET Batches,
          twice : SUBSET Batches, derived : BOOLEAN, content : SUBSET Batches,
          ok : SUBSET Batches, again : SUBSET Batches]

\* `n`: the next number; `last`: the seqs it remembers (0: none); `cache`: the views its commits
\* go by; `bounded`: has this process ended the filling?  Of the commit it builds: `todo`, flushes
\* left; `of`, those done; `seen`, the views as read; `bound`, does it end the filling; `seqs`, the
\* seqs it moves; `rows`, `at`, `shown`, what it adds; `inline`, those of the inline segment.
Sequencer == [step : {"idle", "reading", "open"}, queue : Seq(Flights), n : Nat,
              last : [Marked -> 0 .. MaxSeq], cache : {"forgotten", "none", "bounded"},
              bounded : BOOLEAN, todo : Seq(Flights), of : SUBSET Flights,
              seen : {"none", "unbounded", "bounded"}, upto : Nat,
              seqs : [Marked -> 0 .. MaxSeq], rows : Tally, at : Tally, shown : Tally,
              inline : SUBSET Batches]

NoFlush == [step |-> "free", kind |-> "inline", parts |-> {}, twice |-> {}, derived |-> FALSE,
            content |-> {}, ok |-> {}, again |-> {}]
NoSeqs  == [p \in Marked |-> 0]
None    == [b \in Batches |-> 0]

\* One that starts on a catalog has its `n`, and remembers nothing.  (Mutant: numbers start over.)
NewSequencer == [step |-> "idle", queue |-> <<>>, n |-> 1, last |-> NoSeqs, cache |-> "forgotten",
                 bounded |-> FALSE, todo |-> <<>>, of |-> {}, seen |-> "none", upto |-> 0,
                 seqs |-> NoSeqs, rows |-> None, at |-> None, shown |-> None, inline |-> {}]
NumbersAnew(c) == NewSequencer
Started(c)     == [NewSequencer EXCEPT !.n = c.n]

Empty == [n |-> 1, mark |-> NoSeqs, rows |-> None, at |-> None, view |-> "none", upto |-> 0,
          shown |-> None, moved |-> FALSE, filed |-> {}]

Init ==
    /\ cat = Empty
    /\ flying = <<>>
    /\ seqr = Started(Empty)
    /\ flight = [f \in Flights |-> NoFlush]
    /\ cl = [sent |-> [p \in Producers |-> 0], acked |-> {}]
    /\ stmt = [view |-> "no", move |-> "no", filed |-> {}]
    /\ takeovers = 0

\* The catalog as it will be once every write so far is committed.
Newest == IF flying = <<>> THEN cat ELSE flying[Len(flying)].to

\* Another writes the catalog: the write after those on their way.
WriteAfter(to) == flying' = Append(flying, [to |-> to, slot |-> FALSE, of |-> {}])

-----------------------------------------------------------------------------
(* Producers, and the batcher of each node.                                *)

\* One that pipelines sends its next batch before the last is answered.
Produce(p) ==
    /\ cl.sent[p] < MaxSeq
    /\ p \in Chained \/ \A s \in 1 .. cl.sent[p] : <<p, s>> \in cl.acked
    /\ cl' = [cl EXCEPT !.sent[p] = @ + 1]
    /\ UNCHANGED <<cat, flying, seqr, flight, stmt, takeovers>>

Unacked == {b \in Batches : b[2] <= cl.sent[b[1]] /\ b \notin cl.acked}

\* A node derives the view's rows once it knows the view, sooner or later.
Derives == IF cat.view = "none" THEN {FALSE} ELSE BOOLEAN

\* A node packs batches, new or sent again, into a flush, and sends it.
Pack(f) ==
    /\ flight[f].step = "free"
    /\ \E parts \in (SUBSET Unacked) \ {{}}, kind \in Kinds, derived \in Derives :
       \E twice \in IF Twins THEN SUBSET parts ELSE {{}} :
            flight' = [flight EXCEPT ![f] = [NoFlush EXCEPT
                !.step = "sent", !.kind = kind, !.parts = parts, !.twice = twice, !.derived = derived]]
    /\ UNCHANGED <<cat, flying, seqr, cl, stmt, takeovers>>

\* `Sequencer::enqueue`, from the leader or as another node's request arrives, in any order.
Arrive(f) ==
    /\ flight[f].step = "sent"
    /\ flight' = [flight EXCEPT ![f].step = "queued"]
    /\ seqr' = [seqr EXCEPT !.queue = Append(@, f)]
    /\ UNCHANGED <<cat, flying, cl, stmt, takeovers>>

\* The request is lost, or its answer: its producers may send their batches again.
Lose(f) ==
    /\ flight[f].step \in {"sent", "answered"} /\ flight[f].kind \in Kinds
    /\ flight' = [flight EXCEPT ![f] = NoFlush]
    /\ UNCHANGED <<cat, flying, seqr, cl, stmt, takeovers>>

\* Its answer: producers hear of what is committed, and the rest is packed again.
Hear(f) ==
    /\ flight[f].step = "answered"
    /\ cl' = [cl EXCEPT !.acked = @ \cup flight[f].ok]
    /\ \/ flight[f].again = {} /\ flight' = [flight EXCEPT ![f] = NoFlush]
       \/ flight[f].again # {} /\ \E derived \in Derives :
            flight' = [flight EXCEPT ![f] = [NoFlush EXCEPT
                !.step = "sent", !.kind = flight[f].kind, !.parts = flight[f].again, !.derived = derived]]
    /\ stmt' = IF flight[f].kind = "hold" THEN [stmt EXCEPT !.move = "still"] ELSE stmt
    /\ UNCHANGED <<cat, flying, seqr, takeovers>>

-----------------------------------------------------------------------------
(* The sequencer.                                                          *)

FreeSlot == Cardinality({i \in 1 .. Len(flying) : flying[i].slot}) < InFlight

\* It reads the catalog's views if they were forgotten (`views::inline`) ...
ReadViews ==
    /\ seqr.step = "idle" /\ seqr.queue # <<>> /\ FreeSlot /\ seqr.cache = "forgotten"
    /\ seqr' = [seqr EXCEPT !.step = "reading",
                            !.seen = IF cat.view = "unbounded" /\ seqr.bounded THEN "bounded" ELSE cat.view]
    /\ UNCHANGED <<cat, flying, flight, cl, stmt, takeovers>>

\* ... and keeps them.  A commit takes every flush that waits, and ends the filling of a view that
\* has no end yet (`views::bound`): the rows before this commit's first number.
Open ==
    LET seen == IF seqr.step = "reading" THEN seqr.seen ELSE seqr.cache IN
    /\ \/ seqr.step = "reading"
       \/ seqr.step = "idle" /\ seqr.queue # <<>> /\ FreeSlot /\ seqr.cache # "forgotten"
    /\ seqr' = [seqr EXCEPT !.step = "open", !.todo = seqr.queue, !.queue = <<>>,
                            !.seen = seen, !.upto = IF seen = "unbounded" THEN seqr.n - 1 ELSE 0,
                            !.bounded = @ \/ seen = "unbounded",
                            !.cache = IF seen = "unbounded" THEN "bounded" ELSE seen]
    /\ UNCHANGED <<cat, flying, flight, cl, stmt, takeovers>>

Now == seqr.step = "open" /\ seqr.todo # <<>>

\* The seq a producer is at: what this commit has, what the sequencer remembers, the catalog's.
\* (Mutant: not what the commits on their way have.)
SeqInCatalog(p) == IF seqr.seqs[p] > 0 THEN seqr.seqs[p] ELSE cat.mark[p]
SeqOf(p) ==
    IF seqr.seqs[p] > 0 THEN seqr.seqs[p] ELSE IF seqr.last[p] > 0 THEN seqr.last[p] ELSE cat.mark[p]

\* A part whose seq its producer is past, and one that doesn't follow the last before it.
\* (Mutant: one may be missing.)
Had(parts) == {b \in parts : b[2] <= SeqOf(b[1])}
GapOfTwo(parts) == {b \in parts \ Had(parts) : b[1] \in Chained /\ b[2] > SeqOf(b[1]) + 2}
Gap(parts) ==
    {b \in parts \ Had(parts) :
        b[1] \in Chained /\ \E s \in (SeqOf(b[1]) + 1) .. (b[2] - 1) : <<b[1], s>> \notin parts}

\* Those that are left out: of a table that is gone, had already, not in order.
LeftOut(parts) == IF cat.moved THEN parts ELSE Had(parts) \cup Gap(parts)

\* A flush goes back whole if its node knows other views than these, or the table is held ...
\* (Mutants: a node that knows none is let through; a table is held once all before are in.)
NoneUnknown(f) == flight[f].derived => seqr.seen # "none"
HeldLate      == stmt.move \in {"still", "filed", "moving"}
SameViews(f) == flight[f].derived = (seqr.seen # "none")
Held         == stmt.move \in {"holding", "still", "filed", "moving"}
Back(f)      == ~SameViews(f) \/ Held

\* ... and without what is left out, if the view's rows were derived from that too.
Redone(f) == flight[f].derived /\ (LeftOut(flight[f].parts) # {} \/ flight[f].twice # {})

\* What is answered of one whose parts are new, or not: as a retry, of what is left out and of the
\* second of two that are the same; as committed, of the rest.  (Mutant: of a gap, as a retry too.)
Answered(f, ok, again) == flight' = [flight EXCEPT ![f].ok = ok, ![f].again = again]
RetriesOrGaps(f) == IF cat.moved THEN {} ELSE (Had(flight[f].parts) \cup flight[f].twice \cup Gap(flight[f].parts))
Retries(f) == IF cat.moved THEN {} ELSE Had(flight[f].parts) \cup (flight[f].twice \ Gap(flight[f].parts))

SequenceBack(f) ==
    /\ flight[f].kind \in Kinds /\ Back(f)
    /\ Answered(f, {}, flight[f].parts)
    /\ seqr' = [seqr EXCEPT !.todo = Tail(@), !.of = @ \cup {f}]

SequenceRedone(f) ==
    /\ flight[f].kind \in Kinds /\ ~Back(f) /\ Redone(f)
    /\ Answered(f, Retries(f), flight[f].parts \ LeftOut(flight[f].parts))
    /\ seqr' = [seqr EXCEPT !.todo = Tail(@), !.of = @ \cup {f}]

\* (Mutant: how far a producer is, not where.)
OneOn(parts, p)  == SeqOf(p) + 1 + Cardinality({b \in parts : b[1] = p})
Latest(parts, p) == CHOOSE s \in {b[2] : b \in parts} : <<p, s>> \in parts /\ \A b \in parts : b[1] = p => b[2] <= s

\* A big flush is the next segment; the small ones share one, numbered as the commit is written.
SequenceRows(f) ==
    LET parts == flight[f].parts
        new   == parts \ LeftOut(parts)
        big   == flight[f].kind = "object" /\ new # {}
        Added(tally, to) == [b \in Batches |-> IF b \in to THEN tally[b] + 1 ELSE tally[b]]
    IN  /\ flight[f].kind \in Kinds /\ ~Back(f) /\ ~Redone(f)
        /\ Answered(f, new \cup Retries(f), {})
        /\ seqr' = [seqr EXCEPT
            !.todo = Tail(@), !.of = @ \cup {f},
            !.n = IF big THEN @ + 1 ELSE @,
            !.seqs = [p \in Marked |-> IF \E b \in new : b[1] = p THEN Latest(new, p) ELSE @[p]],
            !.rows = Added(@, new), !.shown = IF flight[f].derived THEN Added(@, new) ELSE @,
            !.at = IF big THEN [b \in Batches |-> IF b \in new THEN seqr.n ELSE @[b]] ELSE @,
            !.inline = IF big THEN @ ELSE @ \cup new]

\* A number, which no segment takes.
SequenceNumber(f) ==
    /\ flight[f].kind \in {"number", "hold"}
    /\ seqr' = [seqr EXCEPT !.todo = Tail(@), !.of = @ \cup {f}, !.n = @ + 1]
    /\ UNCHANGED flight

\* The view's filling, once.  (Nothing here asks for its segment's number.)
SequenceFill(f) ==
    /\ flight[f].kind = "fill"
    /\ seqr' = [seqr EXCEPT !.todo = Tail(@), !.of = @ \cup {f}, !.seqs[Fill] = 1,
                            !.shown = IF SeqOf(Fill) >= 1 THEN @
                                      ELSE [b \in Batches |-> IF b \in flight[f].content THEN @[b] + 1 ELSE @[b]]]
    /\ UNCHANGED flight

Sequence(f) ==
    /\ Now /\ f = Head(seqr.todo)
    /\ SequenceBack(f) \/ SequenceRedone(f) \/ SequenceRows(f) \/ SequenceNumber(f) \/ SequenceFill(f)
    /\ UNCHANGED <<cat, flying, cl, stmt, takeovers>>

\* One catalog write for everything, after those on their way: the next commit can follow.
Commit ==
    LET at == [b \in Batches |-> IF b \in seqr.inline THEN seqr.n ELSE seqr.at[b]]
        n  == IF seqr.inline = {} THEN seqr.n ELSE seqr.n + 1
        Moved(was, to) == [p \in Marked |-> IF to[p] > 0 THEN to[p] ELSE was[p]]
        to == [Newest EXCEPT
                !.n = n, !.mark = Moved(@, seqr.seqs),
                !.rows = [b \in Batches |-> @[b] + seqr.rows[b]],
                !.shown = [b \in Batches |-> @[b] + seqr.shown[b]],
                !.at = [b \in Batches |-> IF at[b] > 0 THEN at[b] ELSE @[b]],
                !.view = IF seqr.seen = "unbounded" THEN "bounded" ELSE @,
                !.upto = IF seqr.seen = "unbounded" THEN seqr.upto ELSE @]
    IN  /\ seqr.step = "open" /\ seqr.todo = <<>>
        /\ flying' = Append(flying, [to |-> to, slot |-> TRUE, of |-> seqr.of])
        /\ seqr' = [seqr EXCEPT !.step = "idle", !.n = n, !.last = Moved(@, seqr.seqs), !.of = {},
                                !.seen = "none", !.upto = 0, !.seqs = NoSeqs,
                                !.rows = None, !.at = None, !.shown = None, !.inline = {}]
        /\ UNCHANGED <<cat, flight, cl, stmt, takeovers>>

\* The first write on its way is committed; a commit of the sequencer's answers its flushes.
Durable ==
    /\ flying # <<>>
    /\ cat' = Head(flying).to
    /\ flying' = Tail(flying)
    /\ flight' = [f \in Flights |-> IF f \in Head(flying).of THEN [flight[f] EXCEPT !.step = "answered"]
                                                              ELSE flight[f]]
    /\ UNCHANGED <<seqr, cl, stmt, takeovers>>

-----------------------------------------------------------------------------
(* A takeover: k of the writes on their way are kept, and a new sequencer   *)
(* starts.  What the old leader had queued is lost, and its statements; the *)
(* flushes still on their way reach the new one.                            *)

TakeOver(k) ==
    LET kept == IF k = 0 THEN cat ELSE flying[k].to IN
    /\ takeovers < MaxTakeovers
    /\ takeovers' = takeovers + 1
    /\ cat' = kept
    /\ flying' = <<>>
    /\ seqr' = Started(kept)
    /\ flight' = [f \in Flights |-> IF flight[f].step = "queued" \/ flight[f].kind \notin Kinds
                                    THEN NoFlush ELSE flight[f]]
    /\ stmt' = [view |-> IF kept.view = "none" THEN "no" ELSE "made",
                move |-> IF kept.moved THEN "over" ELSE "no", filed |-> {}]
    /\ UNCHANGED cl

-----------------------------------------------------------------------------
(* Statements, on the leader under the lake's lock.                         *)

\* A flush of the leader's own, which its sequencer has at once.
Submit(f, flush) ==
    /\ flight[f].step = "free"
    /\ flight' = [flight EXCEPT ![f] = [flush EXCEPT !.step = "queued"]]
    /\ seqr' = [seqr EXCEPT !.queue = Append(@, f)]

Has(kind) == \E f \in Flights : flight[f].step # "free" /\ flight[f].kind = kind

\* CREATE MATERIALIZED VIEW writes its entry ...
MakeView ==
    /\ "view" \in Statements /\ stmt.view = "no" /\ stmt.move = "no"
    /\ WriteAfter([Newest EXCEPT !.view = "unbounded"])
    /\ stmt' = [stmt EXCEPT !.view = "writing"]
    /\ UNCHANGED <<cat, seqr, flight, cl, takeovers>>

\* ... and has the sequencer read its views again (`views::forget`).
ForgetViews ==
    /\ stmt.view = "writing" /\ cat.view # "none"
    /\ stmt' = [stmt EXCEPT !.view = "made"]
    /\ seqr' = [seqr EXCEPT !.cache = "forgotten"]
    /\ UNCHANGED <<cat, flying, flight, cl, takeovers>>

\* `fill_all`: a commit is asked for that sets where the filling ends ...
AskForEnd(f) ==
    /\ cat.view = "unbounded" /\ ~Has("number") /\ seqr.n < MaxN
    /\ Submit(f, [NoFlush EXCEPT !.kind = "number"])
    /\ UNCHANGED <<cat, flying, cl, stmt, takeovers>>

\* ... and the rows up to it are the view's first.
FillView(f) ==
    /\ cat.view = "bounded" /\ cat.mark[Fill] = 0 /\ ~Has("fill")
    /\ Submit(f, [NoFlush EXCEPT !.kind = "fill",
                    !.content = {b \in Batches : cat.rows[b] > 0 /\ cat.at[b] <= cat.upto}])
    /\ UNCHANGED <<cat, flying, cl, stmt, takeovers>>

\* ALTER TABLE ... RENAME, DROP: `Sequencer::hold`, heard once those before it are in (Hear) ...
Hold(f) ==
    /\ "move" \in Statements /\ stmt.move = "no" /\ stmt.view = "no"
    /\ stmt' = [stmt EXCEPT !.move = "holding"]
    /\ Submit(f, [NoFlush EXCEPT !.kind = "hold"])
    /\ UNCHANGED <<cat, flying, cl, takeovers>>

\* ... the rows in the log go to files (`still`) ...
ToFiles ==
    /\ stmt.move = "still"
    /\ stmt' = [stmt EXCEPT !.move = "filed", !.filed = {b \in Batches : cat.rows[b] > 0}]
    /\ UNCHANGED <<cat, flying, seqr, flight, cl, takeovers>>

\* ... and the entry moves.
Move ==
    /\ stmt.move = "filed"
    /\ WriteAfter([Newest EXCEPT !.moved = TRUE, !.filed = stmt.filed])
    /\ stmt' = [stmt EXCEPT !.move = "moving"]
    /\ UNCHANGED <<cat, seqr, flight, cl, takeovers>>

\* The hold ends with the statement, which may have failed before.
Release ==
    /\ stmt.move \in {"still", "filed"} \/ (stmt.move = "moving" /\ cat.moved)
    /\ stmt' = [stmt EXCEPT !.move = "over", !.filed = {}]
    /\ UNCHANGED <<cat, flying, seqr, flight, cl, takeovers>>

Next ==
    \/ \E p \in Producers : Produce(p)
    \/ \E f \in Flights : Pack(f) \/ Arrive(f) \/ Lose(f) \/ Hear(f) \/ Sequence(f)
    \/ ReadViews \/ Open \/ Commit \/ Durable
    \/ \E k \in 0 .. Len(flying) : TakeOver(k)
    \/ MakeView \/ ForgetViews \/ \E f \in Flights : AskForEnd(f) \/ FillView(f) \/ Hold(f)
    \/ ToFiles \/ Move \/ Release

Spec == Init /\ [][Next]_vars

-----------------------------------------------------------------------------
(* What must hold.                                                         *)

TypeOK ==
    /\ cat \in Catalog
    /\ flying \in Seq(Write)
    /\ seqr \in Sequencer
    /\ flight \in [Flights -> Flush]
    /\ cl \in [sent : [Producers -> 0 .. MaxSeq], acked : SUBSET Batches]
    /\ stmt \in [view : {"no", "writing", "made"}, move : {"no", "holding", "still", "filed", "moving", "over"},
                 filed : SUBSET Batches]
    /\ takeovers \in 0 .. MaxTakeovers

\* However often a batch is sent, to whichever leader, it is committed at most once (log.rs:9:
\* exactly-once), and what a producer was told is committed stays so over takeovers.
OnceOnly     == \A b \in Batches : cat.rows[b] <= 1
AckedIsThere == \A b \in cl.acked : cat.rows[b] = 1

\* A producer that names the seq each batch follows has no batch committed before the one it
\* follows, whatever was lost on the way (log.rs `sent_again`) ...
NoGaps ==
    \A b, c \in Batches :
        (b[1] = c[1] /\ b[1] \in Chained /\ b[2] < c[2] /\ cat.rows[c] > 0) => cat.rows[b] > 0

\* ... nor read before it: its rows are in that order (log.rs:328).
InOrder ==
    \A b, c \in Batches :
        (b[1] = c[1] /\ b[1] \in Chained /\ b[2] < c[2] /\ cat.rows[c] > 0) => cat.at[b] <= cat.at[c]

\* A view has each of its source's rows at most once, those committed after the end of its
\* filling from their flush, and once it is filled every one (views.rs `Inline`, `bound`).
ViewHolds ==
    \A b \in Batches :
        /\ cat.shown[b] <= cat.rows[b]
        /\ (cat.view = "bounded" /\ (cat.mark[Fill] = 1 \/ cat.at[b] > cat.upto)) => cat.shown[b] = cat.rows[b]

\* A table whose entry moved left no row in the log under the name it had (ddl.rs `still`).
MovedWhole == cat.moved => \A b \in Batches : cat.rows[b] > 0 => b \in cat.filed

\* Once a view is made, the sequencer holds every flush to it from its next commit (ddl.rs:549).
HeldToIt == stmt.view = "made" => seqr.cache # "none"
=============================================================================
