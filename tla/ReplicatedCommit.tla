-------------------------- MODULE ReplicatedCommit --------------------------
(***************************************************************************)
(* Replicated commits (`--ack replicated`): Lake::commits and the leader's  *)
(* Catalog (store.rs), the followers' ReplicaLog, `recover` and `members`   *)
(* (replica.rs), and the takeovers and restarts around them (cluster.rs,    *)
(* terms.rs), over a bucket that only the newest writer may append to.      *)
(*                                                                         *)
(* A change is known by the writer that first wrote it (`by`, the writer's  *)
(* epoch) and by its commit number, its place in the log; what it puts and  *)
(* deletes is left out but for "m", the list of the members.                *)
(***************************************************************************)
EXTENDS Integers, FiniteSets, Sequences

CONSTANTS
    Nodes,      \* the nodes, known by their addresses
    Replicas,   \* [Nodes -> 1, 2, ...]: --replicas, as each node was started
    Ahead,      \* AHEAD: commits acknowledged before the bucket has them, at most
    MaxSkips,   \* members a recovery may have to do without, at most
    LateOpen,   \* may a claimer open the catalog after a newer term was claimed?
    MaxTerm,    \* bound: terms claimed
    MaxEpoch,   \* bound: catalogs opened as their writer
    MaxId,      \* bound: changes in the log
    MaxCrashes  \* bound: nodes killed

ASSUME NodesAssumption == IsFiniteSet(Nodes)
ASSUME ReplicasAssumption == Replicas \in [Nodes -> Nat \ {0}]
ASSUME AheadAssumption == Ahead \in Nat
ASSUME SkipsAssumption == MaxSkips \in Nat
ASSUME LateAssumption == LateOpen \in BOOLEAN
ASSUME BoundsAssumption == MaxTerm \in Nat /\ MaxEpoch \in Nat /\ MaxId \in Nat /\ MaxCrashes \in Nat

VARIABLES
    bucket,     \* the catalog in the bucket: its changes, in commit order
    fence,      \* the epoch of its newest writer (SlateDB's fence)
    owner,      \* cluster/term/{n}: who claimed term n
    proc,       \* each node's process: its role, its leader's term, its epoch as a writer
    lead,       \* ... its state as a leader
    fol,        \* ... its state as a follower
    held,       \* each node's replica files
    wire,       \* acknowledgements sent and not yet received
    acked,      \* (history) every change acknowledged to its writer
    crashes     \* how many nodes were killed

vars == <<bucket, fence, owner, proc, lead, fol, held, wire, acked, crashes>>

-----------------------------------------------------------------------------
(* Values                                                                  *)

Ids    == 1 .. MaxId
Terms  == 1 .. MaxTerm
NoList == {}            \* a change that doesn't put "m"; one that does holds the list
Change == [by : 1 .. MaxEpoch, m : {NoList} \cup {{s} : s \in SUBSET Nodes}]

\* A copy in a replica file: the change, and the term it was streamed under.
Copy   == [id : Ids, term : Terms, change : Change]
Ack    == [from : Nodes, to : Nodes, term : Terms, first : Ids, upto : Ids]
Placed == [id : Ids, change : Change]

\* `proc`: "opening" claimed a term and hasn't opened the catalog yet;
\* "recovering" collects the members' copies, "settling" waits for what it
\* wrote again to reach the bucket, "leading" and "follower" serve.
Roles  == {"down", "follower", "opening", "recovering", "settling", "leading"}
Proc   == [role : Roles, term : 0 .. MaxTerm, epoch : 0 .. MaxEpoch]

\* The members loop: between rounds, waiting to drop members, waiting to
\* count the ones it listed.
Job    == [at : {"idle", "drain", "list"}, live : SUBSET Nodes, upto : 0 .. MaxId]

Lead   == [log : Seq(Change), opened : 0 .. MaxId, sent : 0 .. MaxId, close : BOOLEAN,
           committed : 0 .. MaxId, flushed : 0 .. MaxId, durable : 0 .. MaxId,
           counting : SUBSET Nodes, acks : [Nodes -> (Nat \X Nat)], job : Job,
           todo : SUBSET Nodes, skipped : Nat, outside : BOOLEAN, found : SUBSET Copy]
Fol    == [seen : 0 .. MaxTerm, run : Nat \X Nat, conn : 0 .. MaxEpoch,
           sterm : 0 .. MaxTerm, last : 0 .. MaxId]

None   == <<1, 0>>      \* the empty run of changes
Idle   == [at |-> "idle", live |-> {}, upto |-> 0]
NoLead == [log |-> <<>>, opened |-> 0, sent |-> 0, close |-> FALSE,
           committed |-> 0, flushed |-> 0, durable |-> 0,
           counting |-> {}, acks |-> [f \in Nodes |-> None], job |-> Idle,
           todo |-> {}, skipped |-> 0, outside |-> FALSE, found |-> {}]

MaxOf(S) == CHOOSE x \in S : \A y \in S : y <= x

\* The newest term a replica file holds (ReplicaLog::open).
NewestTerm(copies) == MaxOf({0} \cup {c.term : c \in copies})

\* A follower's state as its process starts.
NewFol(copies) == [seen |-> NewestTerm(copies), run |-> None, conn |-> 0,
                   sterm |-> 0, last |-> 0]

\* Of two sets of copies, for each change the one of the newest term, and
\* the later one of the same term (`keep`, `merge`).
Merge(old, new) ==
    {o \in old : ~ \E n \in new : n.id = o.id /\ o.term <= n.term}
    \cup {n \in new : ~ \E o \in old : o.id = n.id /\ o.term > n.term}

\* The entry "m" after the changes of `log`.
Listed(log) ==
    LET puts == {i \in DOMAIN log : log[i].m # NoList}
    IN  IF puts = {} THEN {} ELSE UNION log[MaxOf(puts)].m

\* The copies found after change b, as far as they are consecutive and their
\* terms don't fall: where that run ends.
CopyOf(copies, i) == CHOOSE c \in copies : c.id = i
RunEnd(copies, b) ==
    MaxOf({k \in b .. MaxId :
              \A i \in (b + 1) .. k :
                 /\ \E c \in copies : c.id = i
                 /\ i > b + 1 => CopyOf(copies, i - 1).term <= CopyOf(copies, i).term})

-----------------------------------------------------------------------------
(* Who is who                                                              *)

Latest     == Len(owner)
Need(n)    == Replicas[n] - 1
Commits(n) == proc[n].role \in {"settling", "leading"}   \* its commit loop has work
Leads(n)   == proc[n].role = "leading"
Unfenced(n) == proc[n].epoch = fence

\* Catalog::holders
Holders(l, i) ==
    {f \in lead[l].counting : lead[l].acks[f][1] <= i /\ i <= lead[l].acks[f][2]}

\* The node's process ends and another starts as `p`: what was in memory is
\* gone, and an acknowledgement under way reaches the new process only if it
\* leads the same term (of any other it doesn't count: `ReceiveAck`).
NewProcess(n, p) ==
    /\ proc' = [proc EXCEPT ![n] = p]
    /\ lead' = [lead EXCEPT ![n] = NoLead]
    /\ fol'  = [fol EXCEPT ![n] = NewFol(held[n])]
    /\ wire' = {a \in wire : a.to = n => a.term = p.term}

-----------------------------------------------------------------------------
Init ==
    /\ bucket = <<>>
    /\ fence = 0
    /\ owner = <<>>
    /\ proc = [n \in Nodes |-> [role |-> "down", term |-> 0, epoch |-> 0]]
    /\ lead = [n \in Nodes |-> NoLead]
    /\ fol = [n \in Nodes |-> NewFol({})]
    /\ held = [n \in Nodes |-> {}]
    /\ wire = {}
    /\ acked = {}
    /\ crashes = 0

-----------------------------------------------------------------------------
(* Terms: who leads next (cluster.rs, terms.rs)                            *)

\* Is the claimer of the newest term still opening the catalog?
Opening == Latest > 0 /\ proc[owner[Latest]].role = "opening"

\* May a node take the newest term's leader for gone?  (Mutant: at once.)
TakenForGoneAtOnce(n) == TRUE
TakenForGone(n) == Opening => LateOpen \/ owner[Latest] = n

\* A node that starts, or a follower that lost its leader, claims the next
\* term (put-if-absent: a follower asks for the one after its leader's) and
\* restarts as its leader.  Whether the old leader is really gone, it can't
\* know.
Claim(n) ==
    /\ proc[n].role \in {"down", "follower"}
    /\ proc[n].role = "follower" => proc[n].term = Latest
    /\ TakenForGone(n)
    /\ Latest < MaxTerm
    /\ owner' = Append(owner, n)
    /\ NewProcess(n, [role |-> "opening", term |-> Latest + 1, epoch |-> 0])
    /\ UNCHANGED <<bucket, fence, held, acked, crashes>>

\* A node joins, or any node restarts (its leader's term is over, its writes
\* were fenced, a commit failed), and follows the newest term's leader.
Follow(n) ==
    /\ Latest > 0
    /\ owner[Latest] # n
    /\ <<proc[n].role, proc[n].term>> # <<"follower", Latest>>
    /\ NewProcess(n, [role |-> "follower", term |-> Latest, epoch |-> 0])
    /\ UNCHANGED <<bucket, fence, owner, held, acked, crashes>>

\* A leader restarts in place (node::restart) and takes its own term back.
TakeBack(n) ==
    /\ Latest > 0
    /\ owner[Latest] = n
    /\ proc[n].role \in {"recovering", "settling", "leading"}
    /\ NewProcess(n, [role |-> "opening", term |-> Latest, epoch |-> 0])
    /\ UNCHANGED <<bucket, fence, owner, held, acked, crashes>>

\* A node is killed.  Its replica files stay.
Crash(n) ==
    /\ proc[n].role # "down"
    /\ crashes < MaxCrashes
    /\ crashes' = crashes + 1
    /\ NewProcess(n, [role |-> "down", term |-> 0, epoch |-> 0])
    /\ UNCHANGED <<bucket, fence, owner, held, acked>>

-----------------------------------------------------------------------------
(* A new leader recovers what the members hold (replica::recover)          *)

\* A node's copies beyond change `after` (ReplicaLog::serve).  (Mutant: beyond
\* the one after it.)
AnswerTooLate(p, after) == {c \in held[p] : c.id > after + 1}
Answer(p, after) == {c \in held[p] : c.id > after}

\* A node that answers the leader of term t helps no older one from then on.
Hears(f, t) == MaxOf({fol[f].seen, t})

\* The catalog is opened as its writer, which fences the writer before it;
\* the list of the members is read, and this node's own copies come first.
Open(n) ==
    /\ proc[n].role = "opening"
    /\ fence < MaxEpoch
    /\ fence' = fence + 1
    /\ proc' = [proc EXCEPT ![n].role = "recovering", ![n].epoch = fence + 1]
    /\ LET at == Len(bucket)
           m  == Listed(bucket)
       IN  lead' = [lead EXCEPT ![n] =
                      [NoLead EXCEPT !.log = bucket, !.opened = at, !.sent = at,
                                     !.committed = at, !.flushed = at, !.durable = at,
                                     !.todo = m \ {n},
                                     !.outside = (m # {} /\ n \notin m),
                                     !.found = Answer(n, at)]]
    /\ fol' = [fol EXCEPT ![n].seen = Hears(n, proc[n].term)]
    /\ UNCHANGED <<bucket, owner, held, wire, acked, crashes>>

\* A member answers with its copies.
Collect(n, p) ==
    /\ proc[n].role = "recovering"
    /\ p \in lead[n].todo
    /\ proc[p].role \in {"follower", "leading"}
    /\ lead' = [lead EXCEPT ![n].todo = @ \ {p},
                            ![n].found = Merge(@, Answer(p, lead[n].opened))]
    /\ fol' = [fol EXCEPT ![p].seen = Hears(p, proc[n].term)]
    /\ UNCHANGED <<bucket, fence, owner, proc, held, wire, acked, crashes>>

\* (Mutant of Skip: a recovery waits for every member.)
SkipNever(n, p) == FALSE

\* A member that doesn't answer for 20 s is done without.  (An acknowledgement
\* it sent to this node before was given up long ago: it is sent once, for 2 s.)
Skip(n, p) ==
    /\ proc[n].role = "recovering"
    /\ p \in lead[n].todo
    /\ lead[n].skipped < MaxSkips
    /\ lead' = [lead EXCEPT ![n].todo = @ \ {p}, ![n].skipped = @ + 1]
    /\ wire' = {a \in wire : ~ (a.from = p /\ a.to = n)}
    /\ UNCHANGED <<bucket, fence, owner, proc, fol, held, acked, crashes>>

\* ... but not by a claimer from outside the members whose last leader was
\* marked alive a moment ago: it lets its term go (Unreached).
LetGo(n, p) ==
    /\ proc[n].role = "recovering"
    /\ p \in lead[n].todo
    /\ lead[n].outside
    /\ NewProcess(n, [role |-> "down", term |-> 0, epoch |-> 0])
    /\ UNCHANGED <<bucket, fence, owner, held, acked, crashes>>

\* The run of changes found.  (Mutant: nothing is recovered.)
RecoveredNothing(n) == <<>>
Recovered(n) ==
    LET b == lead[n].opened
    IN  [i \in 1 .. (RunEnd(lead[n].found, b) - b) |-> CopyOf(lead[n].found, b + i).change]

\* Everyone was asked: the run is written again, in one go, and a leader
\* that doesn't replicate takes the members off the list.
Rewrite(n) ==
    /\ proc[n].role = "recovering"
    /\ lead[n].todo = {}
    /\ LET off == IF Replicas[n] = 1 /\ Listed(bucket) # {}
                  THEN <<[by |-> proc[n].epoch, m |-> {{}}]>> ELSE <<>>
           log == lead[n].log \o Recovered(n) \o off
       IN  /\ Len(log) <= MaxId
           /\ lead' = [lead EXCEPT ![n].log = log, ![n].found = {}]
    /\ proc' = [proc EXCEPT ![n].role = "settling"]
    /\ UNCHANGED <<bucket, fence, owner, fol, held, wire, acked, crashes>>

\* What it wrote again is in the bucket: it takes writes, and its door opens.
Serve(n) ==
    /\ proc[n].role = "settling"
    /\ lead[n].committed = Len(lead[n].log)
    /\ lead[n].durable >= lead[n].committed
    /\ proc' = [proc EXCEPT ![n].role = "leading"]
    /\ UNCHANGED <<bucket, fence, owner, lead, fol, held, wire, acked, crashes>>

-----------------------------------------------------------------------------
(* The leader writes and commits (Catalog::write, Lake::commits)           *)

Write(n) ==
    /\ Leads(n)
    /\ Len(lead[n].log) < MaxId
    /\ lead' = [lead EXCEPT ![n].log = Append(@, [by |-> proc[n].epoch, m |-> NoList])]
    /\ UNCHANGED <<bucket, fence, owner, proc, fol, held, wire, acked, crashes>>

\* The bucket takes the next write, unless a newer writer fenced this one.
Flush(n) ==
    /\ Commits(n)
    /\ Unfenced(n)
    /\ lead[n].flushed < Len(lead[n].log)
    /\ bucket' = Append(bucket, lead[n].log[lead[n].flushed + 1])
    /\ lead' = [lead EXCEPT ![n].flushed = @ + 1]
    /\ UNCHANGED <<fence, owner, proc, fol, held, wire, acked, crashes>>

\* Is the next write close enough to the bucket to count its copies?  (Mutant:
\* off by one.)
OneTooFar(n) == lead[n].durable + Ahead >= lead[n].sent
IsClose(n) == lead[n].durable + Ahead >= lead[n].sent + 1

\* The commit loop takes the next write: it streams it to the followers, and
\* sees once whether it is close enough.
Stream(n) ==
    /\ Commits(n)
    /\ lead[n].sent = lead[n].committed
    /\ lead[n].sent < Len(lead[n].log)
    /\ lead' = [lead EXCEPT ![n].sent = @ + 1,
                            ![n].close = IsClose(n)]
    /\ UNCHANGED <<bucket, fence, owner, proc, fol, held, wire, acked, crashes>>

\* Enough members hold the write, or the bucket has it.  (Mutants: only copies
\* count; a leader that needs none counts them too.)
EnoughHold(n) == lead[n].close /\ Cardinality(Holders(n, lead[n].sent)) >= Need(n)
OnlyCopies(n) == Need(n) > 0 /\ EnoughHold(n)
NoneNeeded(n) == EnoughHold(n) \/ lead[n].flushed >= lead[n].sent
Decides(n)    == (Need(n) > 0 /\ EnoughHold(n)) \/ lead[n].flushed >= lead[n].sent

\* (Mutant of Commit: it doesn't wait for the next write.)
CommitAgain(n) ==
    /\ Commits(n)
    /\ lead[n].sent > 0
    /\ Decides(n)
    /\ lead' = [lead EXCEPT ![n].committed = @ + 1]
    /\ UNCHANGED <<bucket, fence, owner, proc, fol, held, wire, acked, crashes>>

\* The write it waits for is committed, and acknowledged.
Commit(n) ==
    /\ Commits(n)
    /\ lead[n].sent = lead[n].committed + 1
    /\ Decides(n)
    /\ lead' = [lead EXCEPT ![n].committed = @ + 1]
    /\ acked' = acked \cup {[id |-> lead[n].sent, change |-> lead[n].log[lead[n].sent]]}
    /\ UNCHANGED <<bucket, fence, owner, proc, fol, held, wire, crashes>>

\* The loop behind it notes what is in the bucket, and tells the followers.
NoteDurable(n) ==
    /\ Commits(n)
    /\ lead[n].durable < lead[n].committed
    /\ lead[n].durable < lead[n].flushed
    /\ lead' = [lead EXCEPT ![n].durable = @ + 1]
    /\ UNCHANGED <<bucket, fence, owner, proc, fol, held, wire, acked, crashes>>

\* An acknowledgement arrives.  One of another term, or at a node that isn't
\* a leader, doesn't count.
ReceiveAck(a) ==
    /\ a \in wire
    /\ wire' = wire \ {a}
    /\ lead' = IF Leads(a.to) /\ proc[a.to].term = a.term
               THEN [lead EXCEPT ![a.to].acks[a.from] = <<a.first, a.upto>>] ELSE lead
    /\ UNCHANGED <<bucket, fence, owner, proc, fol, held, acked, crashes>>

-----------------------------------------------------------------------------
(* The leader keeps the list of members in step with the live followers    *)
(* (replica::members)                                                      *)

\* The followers live as the leader sees it (Cluster::nodes): those whose
\* heartbeats it answers.
Beating(n) == {f \in Nodes \ {n} : proc[f].role = "follower" /\ proc[f].term = proc[n].term}

\* Are the changes up to the round's last in the bucket?  (Mutants: never asked;
\* one more is awaited.)
NotAwaited(n)  == TRUE
OneMore(n)     == lead[n].durable > lead[n].job.upto
JobInBucket(n) == lead[n].durable >= lead[n].job.upto

\* A round begins: members no longer live stop counting at once.
Shrink(n, live) ==
    LET listed == Listed(SubSeq(lead[n].log, 1, lead[n].committed))
    IN  /\ Leads(n)
        /\ Need(n) > 0
        /\ lead[n].job = Idle
        /\ live # listed
        /\ lead' = [lead EXCEPT ![n].counting = listed \cap live,
                                ![n].job = [at |-> "drain", live |-> live, upto |-> lead[n].committed]]
        /\ UNCHANGED <<bucket, fence, owner, proc, fol, held, wire, acked, crashes>>

\* What they helped commit is in the bucket: the new list is written.
List(n) ==
    /\ Leads(n)
    /\ lead[n].job.at = "drain"
    /\ JobInBucket(n)
    /\ Len(lead[n].log) < MaxId
    /\ lead' = [lead EXCEPT ![n].log = Append(@, [by |-> proc[n].epoch, m |-> {lead[n].job.live}]),
                            ![n].job.at = "list", ![n].job.upto = Len(lead[n].log) + 1]
    /\ UNCHANGED <<bucket, fence, owner, proc, fol, held, wire, acked, crashes>>

\* The list is in the bucket: the new members' copies count.
Count(n) ==
    /\ Leads(n)
    /\ lead[n].job.at = "list"
    /\ JobInBucket(n)
    /\ lead' = [lead EXCEPT ![n].counting = lead[n].job.live, ![n].job = Idle]
    /\ UNCHANGED <<bucket, fence, owner, proc, fol, held, wire, acked, crashes>>

-----------------------------------------------------------------------------
(* A follower keeps what its leader streams (cluster::mirror,              *)
(* members::follow, ReplicaLog)                                            *)

\* The leader's process a follower reads, by its address.
LeaderOf(f) == owner[proc[f].term]
Connected(f) ==
    /\ proc[f].role = "follower"
    /\ Leads(LeaderOf(f))
    /\ fol[f].conn = proc[LeaderOf(f)].epoch

\* What a new leader's `Start` leaves of a follower's copies: older terms' go
\* (ReplicaLog::start).  (Mutant: its own term's too.)
OnlyNewer(copies, t) == {c \in copies : c.term > t}
StillGood(copies, t) == {c \in copies : c.term >= t}

\* May a follower help the leader of term t?
Helps(f, t) == t >= fol[f].seen

\* The copies that aren't needed any more (ReplicaLog::prune).  (Mutant: those
\* that are committed.)
Committed(f) == {c \in held[f] : c.id <= fol[f].last /\ c.id <= lead[LeaderOf(f)].committed}
Durable(f)   == {c \in held[f] : c.id <= fol[f].last /\ c.id <= lead[LeaderOf(f)].durable}

\* The changes its stream has had: a leader that doesn't replicate sends a
\* change once it is committed.
Streamed(l) == IF Need(l) > 0 THEN lead[l].sent ELSE lead[l].committed

\* The connection breaks, or the follower falls too far behind.
Disconnect(f) ==
    /\ Connected(f)
    /\ fol' = [fol EXCEPT ![f].conn = 0]
    /\ UNCHANGED <<bucket, fence, owner, proc, lead, held, wire, acked, crashes>>

\* The stream opens (`Start`): copies of older terms go, and none is
\* acknowledged again.  The stream begins with what the leader still keeps of
\* its changes (`recent`, from change `from` on); one no newer than the last
\* is skipped, unless the term is new.
Connect(f) ==
    /\ proc[f].role = "follower"
    /\ Leads(LeaderOf(f))
    /\ ~ Connected(f)
    /\ LET l    == LeaderOf(f)
           t    == proc[l].term
           last == IF fol[f].sterm = t THEN fol[f].last ELSE 0
       IN  \E from \in (lead[l].opened + 1) .. (Streamed(l) + 1) :
              /\ fol' = [fol EXCEPT ![f].conn = proc[l].epoch, ![f].sterm = t,
                                    ![f].seen = Hears(f, t), ![f].last = MaxOf({from - 1, last})]
              /\ held' = [held EXCEPT ![f] = StillGood(@, t)]
    /\ UNCHANGED <<bucket, fence, owner, proc, lead, wire, acked, crashes>>

\* A change arrives.  From a leader that replicates it is kept on disk and
\* acknowledged, as the end of the run of consecutive changes held -- unless
\* a newer leader was heard of (ReplicaLog::hold).
Hold(f) ==
    LET l == LeaderOf(f)
        t == fol[f].sterm
        i == fol[f].last + 1
        r == fol[f].run
        run == IF r[2] > 0 /\ i = r[2] + 1 THEN <<r[1], i>> ELSE <<i, i>>
        keeps == Need(l) > 0 /\ Helps(f, t)
    IN  /\ Connected(f)
        /\ i <= Streamed(l)
        /\ fol' = [fol EXCEPT ![f].last = i, ![f].run = IF keeps THEN run ELSE r]
        /\ held' = IF keeps
                   THEN [held EXCEPT ![f] = Merge(@, {[id |-> i, term |-> t, change |-> lead[l].log[i]]})]
                   ELSE held
        /\ wire' = IF keeps
                   THEN wire \cup {[from |-> f, to |-> l, term |-> t, first |-> run[1], upto |-> i]}
                   ELSE wire
        /\ UNCHANGED <<bucket, fence, owner, proc, lead, acked, crashes>>

\* The stream says which changes are in the bucket (`Durable`, behind those
\* changes): their copies go (ReplicaLog::prune).
Prune(f) ==
    /\ Connected(f)
    /\ Durable(f) # {}
    /\ held' = [held EXCEPT ![f] = @ \ Durable(f)]
    /\ UNCHANGED <<bucket, fence, owner, proc, lead, fol, wire, acked, crashes>>

-----------------------------------------------------------------------------
Takeover(n)   == Claim(n) \/ Follow(n) \/ TakeBack(n) \/ Crash(n)
Ask(n)        == \E p \in Nodes : Collect(n, p) \/ Skip(n, p)
Recover(n)    == Open(n) \/ Ask(n) \/ Rewrite(n) \/ Serve(n) \/ \E p \in Nodes : LetGo(n, p)
CommitStep(n) == Write(n) \/ Flush(n) \/ Stream(n) \/ Commit(n) \/ NoteDurable(n)
Members(n)    == List(n) \/ Count(n) \/ \E live \in SUBSET Beating(n) : Shrink(n, live)
Mirror(f)     == Connect(f) \/ Disconnect(f) \/ Hold(f) \/ Prune(f)

Next ==
    \/ \E n \in Nodes : Takeover(n) \/ Recover(n) \/ CommitStep(n) \/ Members(n) \/ Mirror(n)
    \/ \E a \in wire : ReceiveAck(a)

Spec == Init /\ [][Next]_vars

\* The loops of a node that runs go on, and the bucket answers: what it was
\* asked for is there at some point.
Fairness ==
    \A n \in Nodes :
        /\ WF_vars(Ask(n)) /\ WF_vars(Rewrite(n)) /\ WF_vars(Serve(n))
        /\ WF_vars(Flush(n)) /\ WF_vars(Stream(n)) /\ WF_vars(Commit(n)) /\ WF_vars(NoteDurable(n))
        /\ WF_vars(List(n)) /\ WF_vars(Count(n))

-----------------------------------------------------------------------------
(* Properties                                                              *)

\* Type invariant.
TypeOK ==
    /\ bucket \in Seq(Change)
    /\ fence \in 0 .. MaxEpoch
    /\ owner \in Seq(Nodes)
    /\ Len(owner) <= MaxTerm
    /\ proc \in [Nodes -> Proc]
    /\ lead \in [Nodes -> Lead]
    /\ fol \in [Nodes -> Fol]
    /\ held \in [Nodes -> SUBSET Copy]
    /\ wire \in SUBSET Ack
    /\ acked \in SUBSET Placed
    /\ crashes \in 0 .. MaxCrashes

\* A change acknowledged to its writer is never replaced: once the bucket has
\* a change under its number, it is that change, whoever led in between
\* (replica::recover commits what the members hold before any new write).
AckedInBucket ==
    \A a \in acked : a.id <= Len(bucket) => bucket[a.id] = a.change

\* A change acknowledged ahead of the bucket survives every failure the
\* cluster was sized for: more of the listed members than a recovery may do
\* without hold it (replica.rs: "a committed change is on at least
\* `replicas - 1` of them").
Holds(p, a) == \E c \in held[p] : c.id = a.id /\ c.change = a.change
Keepers(a) == {f \in Listed(bucket) : Holds(f, a)}
AckedIsKept ==
    \A a \in acked : a.id > Len(bucket) => Cardinality(Keepers(a)) > MaxSkips

\* A leader that takes writes, and that the bucket doesn't refuse, has every
\* change any leader acknowledged before: a deposed leader can't acknowledge
\* another one behind its back (ReplicaLog::serve, Catalog::ack).
LeaderHasAcked ==
    \A n \in Nodes : Leads(n) /\ Unfenced(n) =>
        \A a \in acked : a.id <= Len(lead[n].log) /\ lead[n].log[a.id] = a.change

\* A copy that counts towards committing a change is a copy of that change,
\* on disk, however late its acknowledgement arrives, until the bucket has
\* the change or a newer writer fenced the leader (Catalog::holders,
\* ReplicaLog::hold).
InBucket(i, c) == i <= Len(bucket) /\ bucket[i] = c
CountedIsHeld ==
    \A n \in Nodes : Commits(n) /\ Unfenced(n) /\ lead[n].sent > lead[n].committed =>
        LET i == lead[n].sent
            c == lead[n].log[i]
        IN  InBucket(i, c) \/ \A f \in Holders(n, i) : \E h \in held[f] : h.id = i /\ h.change = c

\* A new leader that had every member's answer recovers an acknowledged change
\* that one of them holds (replica.rs: it "first collects, from every member,
\* the commits they hold beyond what the bucket has, and commits them again").
RecoverFindsAcked ==
    \A n \in Nodes :
        proc[n].role = "recovering" /\ Unfenced(n) /\ lead[n].todo = {} /\ lead[n].skipped = 0 =>
            \A a \in acked : a.id > lead[n].opened /\ (\E p \in Listed(bucket) : Holds(p, a)) =>
                \E c \in lead[n].found : c.id = a.id /\ c.change = a.change

\* Once a newer term's leader has opened the catalog, the bucket refuses the
\* commits of every older leader (cluster.rs: "SlateDB fencing guarantees an
\* older leader can no longer commit").
OlderIsFenced ==
    \A n, p \in Nodes :
        proc[n].epoch > 0 /\ proc[p].epoch > 0 /\ proc[n].term < proc[p].term => ~ Unfenced(n)

\* Only members the bucket lists count towards committing, so the next
\* leader knows everyone it has to ask (replica::members).
ListedBeforeCounted ==
    \A n \in Nodes : Unfenced(n) => lead[n].counting \subseteq Listed(bucket)

\* At most AHEAD changes are acknowledged ahead of the bucket, so what a
\* failover has to recover stays bounded (Lake::commits).
AheadIsBounded ==
    \A n \in Nodes : lead[n].committed <= MaxOf({lead[n].flushed, lead[n].durable + Ahead})

\* Whatever the followers do, a write of a leader that goes on, and that isn't
\* fenced, is committed: once in the bucket it waits for no copy (Lake::commits:
\* "whichever comes first").
Over(n) == ~ Commits(n) \/ ~ Unfenced(n)
WritesCommit ==
    \A n \in Nodes, i \in Ids :
        (Commits(n) /\ i <= Len(lead[n].log)) ~> (lead[n].committed >= i \/ Over(n))

\* The members loop gets through every round it begins (with room left in the
\* log): neither of its two waits is for something that needs the round's end
\* (replica::members).
RoundsEnd ==
    \A n \in Nodes :
        (Leads(n) /\ lead[n].job # Idle)
            ~> (lead[n].job = Idle \/ Over(n) \/ (lead[n].job.at = "drain" /\ Len(lead[n].log) = MaxId))

\* A recovery ends, though members don't answer (replica::recover).
RecoveryEnds ==
    \A n \in Nodes :
        (proc[n].role \in {"recovering", "settling"})
            ~> (proc[n].role \notin {"recovering", "settling"} \/ ~ Unfenced(n))

\* What was decided: the bucket's changes, then those acknowledged ahead of it.
Decided ==
    [i \in 1 .. MaxOf({Len(bucket)} \cup {a.id : a \in acked}) |->
        IF i <= Len(bucket) THEN bucket[i] ELSE (CHOOSE a \in acked : a.id = i).change]

Promise == INSTANCE DurableLog WITH decided <- Decided

\* The commit path implements one log that only ever grows at its end.
ImplementsDurableLog == Promise!Spec
=============================================================================
