# Pondra in TLA+

Pondra is a lake house in one binary: SQL, ingest and streaming over tables whose files, log and
catalog live in one bucket (or folder). Any number of nodes can open a lake; the bucket is the only
thing they share, and there is no coordination service. This directory models the parts of it where
several nodes, crashes and delays meet, model-checks them with TLC, and proves what matters most with
TLAPS. Source lines below are under `src/` of the repository.

## The system

| Component | State it keeps | Operations | Talks to |
|---|---|---|---|
| **Catalog and commit loop** (`store.rs`) | the catalog in the bucket (SlateDB: one writer, fenced by the next), the leader's writes in order, how far they are streamed, committed, durable | `Catalog::write`, `Lake::commits`, `send`, `subscribe`, `ack`, `set_members`, `wait_durable` | the bucket; followers' streams; every writer of the node |
| **Replicated commits** (`replica.rs`) | each follower's copies of changes not in the bucket, in files; the list `m` of members | `ReplicaLog::hold/serve/start/prune/open`, `recover`, `members` | the leader's stream, its acks, the next leader |
| **Cluster** (`cluster.rs`) | heartbeats, the follower's view, whether the leader is cut off | `join`, `follow`, `keep_alive`, `mirror`, `watch_leader`, `guest` | terms, the catalog, `node::restart` |
| **Terms** (`terms.rs`) | `cluster/term/{n}`, `cluster/alive/{n}`, `cluster/left/{n}`, lock files | `claim`, `claim_one_off`, `mark_alive`, `alive`, `deaf`, `release`, `step_down`, `prune` | the bucket, other processes of the machine |
| **Commit stream on a follower** (`members.rs`, `store.rs`) | pending changes, overlay over the view, last change had | `follow`, `hold`, `commit_upto`, `drop_pending`, `relay` | the leader (or a node, for a page) |
| **Ingest** (`log.rs`) | batches per flush, each producer's last seq, commits in flight | `queued`, `send`, `Sequencer`, `commit` | the catalog; inline views |
| **Row locks** (`locks.rs`) | holder and queue per row, leases, ended owners, tables closed | `take`, `wait_for`, `release`, `close`, `sweep` | transactions, autocommitted writes |
| **Transactions** (`txn.rs`, `change.rs`) | what a session read and staged | `BEGIN`, writes, `commit_here`, autocommit | row locks, the sequencer |
| **Sequences** (`seq.rs`) | a counter in the catalog, blocks taken by nodes | `nextval`, blocks, `setval` | the sequencer |
| **Tiering** (`tier.rs`) | a table's file list and its tiered mark | rounds, compaction, retention, garbage | the catalog, scans |
| **Inbox** (`inbox.rs`) | requests and answers in the bucket, a bell | `send`, `ring`, `serve` | terms, the write path |
| **Node** (`node.rs`, `node/run.rs`) | what a start took and a stop gives back | start, `restart`, `start_app`, stop, idle exit | all of the above |
| **Branches, backups, formats** (`branch.rs`, `backup.rs`, `format.rs`) | pins, a frozen catalog, the lake's format number | clone, refresh, backup, raise | the catalog, tiering |
| **Memory** (`memory.rs`, `ledger.rs`, `hot.rs`, `held.rs`) | bytes held by caches, queries and lakes in memory | charge, evict, spill | queries |
| **SQL engine, doors, users, pages** | none of their own, or sessions | parsing, rewriting, encoding, sign-in | the statement path |

The hard behaviours are in the first nine rows: leaders that don't know they were deposed, followers
that restart with copies on disk, acknowledgements that arrive late, commits that are acknowledged
before the bucket has them, a list of members that changes while it decides who counts, retries of
flushes over a takeover, locks whose leases lapse, transactions checked against a log that moves, and
blocks of values on nodes that restart. `PROJECT.json` lists each at its line under
`hazards`.

What makes each component correct:

- commits: an acknowledged change has its number for good; followers see the leader's log, in order;
  acknowledgements run ahead of the bucket by `AHEAD` at most;
- replicas: whoever counted towards a commit is asked by the next leader, and has the change; a node
  that answered a new leader helps no older one;
- terms: one owner per term; an older term's leader commits nothing once a newer one opened the
  catalog; a live holder isn't deposed, a dead one is replaced;
- ingest: each batch is committed once, whatever is retried; a flush's parts and what views derive
  from them commit together;
- locks: one holder per row; first come, first served; no wait for ever, no loop of waits;
- transactions: no lost update, whatever happened to the locks;
- sequences: no value given twice; tiering: no row lost or repeated by a round.

## The modules

### `ReplicatedCommit`

Models `replica.rs` whole, the writing side of `store.rs` (`Catalog::write`, `Lake::commits` with both
loops, `holders`, `set_members`, `ack`), `server.rs`'s `ack` and `replica`, and, of `cluster.rs`,
`terms.rs`, `members.rs` and `node.rs`, what takes a node from one role to another and a change from a
leader to a follower.

State: `bucket` and `fence` are SlateDB (external): a log that takes the next write of its newest
writer only. `owner` is `cluster/term/{n}`. Each node has a process (`proc`: role, its leader's term,
its epoch as a writer), what it keeps as a leader (`lead`), as a follower (`fol`), and its replica files
(`held`), which survive a restart. `wire` holds acknowledgements on their way: any of them may be lost,
late or overtaken (one is received, or dropped with the process it was for, or not ever). `acked` is a
history variable: every change acknowledged to its writer.

| Action | Code |
|---|---|
| `Claim`, `Follow`, `TakeBack`, `Crash` | `Cluster::join`, `Cluster::follow`, `coming_back`/`relock`, a kill; each starts a new process (`node::restart`) |
| `Open` | `Lake::open_polled` as leader, `Catalog::writer`, and the start of `recover` (its own copies first) |
| `Collect`, `Skip`, `LetGo` | `recover`'s loop over the members: an answer, 20 s without one, `Unreached` |
| `Rewrite`, `Serve` | the run written again in one go and the list emptied by a leader that doesn't replicate; the wait until it is in the bucket |
| `Write` | `Catalog::write` |
| `Flush` | the bucket takes the next write |
| `Stream`, `Commit` | `Lake::commits`: the next write is streamed and `close` is read; it is decided by copies or by the bucket |
| `NoteDurable` | the loop behind it (`Frame::Durable`) |
| `ReceiveAck` | `server::ack`, `Catalog::ack` |
| `Shrink`, `List`, `Count` | a round of `replica::members`, at its two waits |
| `Connect`, `Disconnect` | `members::follow`, `ReplicaLog::start`, the replay of `recent` |
| `Hold`, `Prune` | `cluster::mirror` with `ReplicaLog::hold` (and the ack it posts), and `prune` |

Abstractions: a change is known by its first writer's epoch and by the list of members it puts, if
any. Several leaders, old and new, are in `lead` at once: a deposed leader goes on streaming, writing and
collecting acknowledgements until it restarts. *Whether* a leader is really gone is left open: any
follower may claim the next term at any time. Two timing facts of the code are assumed:

- an acknowledgement is posted once, with a 2 s timeout (`cluster.rs`, `mirror`), and a member is
  skipped after 20 s without an answer, so none it sent to the same node before is still under way
  when it is skipped (`Skip`);
- `LateOpen = FALSE`: a claimer opens the catalog before anyone takes it for gone. The code gives it
  30 s (`STARTUP`) and has no check after the claim. `LateOpen = TRUE` leaves that out: see the findings.

A new leader's `put` of the nodes' key, `order`'s lock, the format's raise and the overlay are left out;
none of them writes `m` or decides a commit.

### `DurableLog`

The promise to writers: one log of changes, `decided`, that only ever gets another change at its end.
`ReplicatedCommit` implements it with `Decided` = the bucket's changes followed by those acknowledged
ahead of it (`ImplementsDurableLog`).

### `MCReplicatedCommit`

Small clusters, and two more initial states that the runs start from: `Working` (a leader, its
followers listed and counted, nothing in flight) and `Restarting` (the leader of that cluster comes
back to its term while one follower holds a change that was never acknowledged). Both are states that
`Init` leads to; starting there spends the bounds on what comes after.

### `RowLocks`

Models `locks.rs` whole: the leader's `Table` of one lake, `take` and `wait_for` (the requests it serves),
`ask` (a follower's, with its retries), `Hold`, and the gate (`close`); and, of `txn.rs`, what transactions
and autocommitted writes do with locks: `passes`, `upkeep`, `autocommit`, `commit_here`, `end`.

State: `tab` is the `Table`, field by field (`won` has the places whose channel carries a grant nobody has
received). `call` has the requests at the leader, `own` the owners (transactions and autocommitted writes),
`gate` the writer under the lake's lock. The operators of the first part are the `Table`'s methods; each action
is one turn of its mutex, and what the async code does until its next one. A place in a queue is the call that
waits there (the code's token).

| Action | Code |
|---|---|
| `Ask` | a key's turn in `take`: `Table::ask` (ended, free or its own, queued, or refused for a loop) |
| `Wait`, `DontWait` | what `take` does with a place: leave the appenders and wait, or cancel it (NOWAIT) |
| `Receive`, `PlaceGone`, `Look`, `GiveUp` | `wait_for`: the grant, a closed channel, a tick, a timeout; `GiveUp` is `Queued::drop` too |
| `Enter` | `enter`, an appender's last step |
| `Sweep`, `SweepKey` | `Table::sweep`, from `take` or `count`: one turn of the mutex, whose keys come in any order |
| `Begin`, `BeginNowait`, `Retry`, `Answer` | `passes` and `take_on`; a follower's `ask` |
| `SendAppend`, `Appended` | an autocommitted write's append (`hold.sending`), its answer or its loss (`hold.lost`) |
| `End`, `LetGo`, `Upkeep`, `Die` | `txn::end`, `release_place`, `upkeep`; a follower's node dies |
| `Close`, `PassGate`, `OpenGate` | `close`, its wait, `Gate::drop`; a COMMIT's locks are let go after it |
| `Tick` | time: what is left of leases, refusals and waits |

Abstractions: time is what is left of it, in steps of the clock; `Lease` is one or two of them. With
`Stalls = FALSE` a lease doesn't run out for an owner that `upkeep` renews (three times a lease) or that has a call
waiting here (renewed every 50 ms); `Stalls = TRUE` leaves that out. Autocommitted writes have no upkeep, and
their leases run out in both. What the rows hold, the check for rows that moved (whether a pass repeats is left
open), and the takeover of a leader are left out.

### `MCRowLocks`

One table for autocommitted writes, and `Holding`: every owner holds a row after its first statement, from where
the run on loops starts.

### `Ingest`

Models the batcher and the sequencer of `log.rs`, the inline views of `views.rs` that a flush feeds, and the hold
that `ddl.rs` puts on a table whose entry moves.

State: `cat` is the catalog as committed (how often each batch is in the table and in the view, each producer's
mark, where the view's filling ends); `flying` the sequencer's writes on their way, each kept as the catalog it
leads to; `seqr` the sequencer: its queue, its views' list, and the commit it builds, one flush after the other
(`seqs`, `todo`, `of`); `flight` the flushes under way at the nodes; `cl` what producers sent and were told; `stmt`
the statements that make the view or move the table.

| Action | Code |
|---|---|
| `Produce` | `append`, `queue`: a batch with its seq, and the seq it follows (`sent_again`) |
| `Pack`, `Arrive`, `Lose`, `Hear` | `send`: packing with the views the node knows, the request, its loss, its answer (`Acks`, `Retry`) |
| `ReadViews`, `Open`, `Sequence`, `Commit`, `Durable` | `commit`: its batch of flushes and `views::inline`; each flush's checks and numbers (`Back`, `Redone`, `SequenceRows`, `SequenceNumber`, `SequenceFill`); the write; the answers once it is durable |
| `TakeOver` | `Sequencer::start` at a new leader: some of the writes on their way are kept |
| `MakeView`, `ForgetViews`, `AskForEnd`, `FillView` | `views::create`, `forget`, `fill_all` and `fill_one` |
| `Hold`, `ToFiles`, `Move`, `Release` | `Sequencer::hold`, `to_files`, `rename`/`move_entry`, `Hold::drop` |

A batch is a producer and a seq; a tally counts how often each is somewhere, so "twice" can be seen. The catalog is
the log that `DurableLog` promises, of which a takeover keeps a prefix. Left out: the expiry of producers' marks
(`settle`), file commits (Kafka's and COPY's files, `Filing`), backpressure (`Pace`), a frozen lake, blocks of row ids, and
views with a state of their own.

### `SequenceValues`

Models `seq.rs`: the counters in the catalog, the sequencer's own copy of them (`Held`), and the blocks of values
that nodes hand out.

| Action | Code |
|---|---|
| `StartNext`, `Lock`, `Ask`, `HearBlock`, `Give` | `next`: the lookup, the node's lock, a block asked for, its answer, the values |
| `StartSet`, `FinishSet` | `set` |
| `OrderTake`, `OrderSet`, `Make`, `Alter`, `Rename`, `Drop` | `Held::apply`, one op under a commit number of its own |
| `Durable`, `TakeOver` | the write is in the bucket and answered; a new leader's `Held` is empty |
| `See`, `Fail`, `Restart` | a node's view of the catalog moves; a submit fails, though it may have been made; a node restarts |

Left out: who owns a sequence (`gone_with`, `drop_owned`), `currval`, and the end of i64 for a sequence without bounds.

### `Terms`

Models `terms.rs` and, of `cluster.rs`, `node.rs` and `write.rs`, who calls it: `join`, `follow`, `keep_alive`,
`coming_back`, `relock`, `restart`, one-off writers.

State: `term`, `mark`, `left` are the records under `cluster/`; the lock files, the rings left unanswered and each
process with what it saw last are the rest. A claim is what the code does: its record put if absent, then, side by
side, a listing and its mark (`Put`, `ListFirst`, `MarkFirst`, `BothDone`), then `StepAside`, `ClaimFails` or `Prune`.
`Start`, `TakeBack`, `NotBack`, `Free`, `FollowLeader`, `Ring`, `Heard`, `Deaf`, `Beat`, `LeaderLost`, `TakeOver`, `OtherTerm`
are the loops of `join` and `follow`; `Mark`, `Restart`, `Stop`, `Release`, `Land`, `Stall`, `Crash` what becomes of a holder.

There is no clock. A mark goes stale, a ring stays unanswered, or a restart takes too long only where the claimer is
gone or *has been slow* (`Stall` sets `slow`, for good), and then at any time. So "in time" is an assumption on one
process, not on how fast the others are. Left out: guests and readers, `claim_owned`, peers asked before a takeover
(`peer_sees_leader`), and the clocks' differences.

### `Transactions`

Models `txn.rs` over one keyed table, with the writers' side of `locks.rs` (`passes`, `take_on`, `enter`, `close`), the
changes a leader works out itself (`change.rs`, `run`), loads, and the log's expiry (`tier.rs`, `expire`).

State: `log` (each commit: who wrote which keys, and how it was kept from the others), `seen` (the follower's view),
`lock`, `flying`, `over` at the leader; `txn` and `stmt` in the sessions; `asked`, the COMMITs on their way; `gate`, the
writer under the lake's lock.

| Action | Code |
|---|---|
| `Begin`, `Rollback`, `Savepoint`, `RollbackTo`, `Commit`, `SendFails` | the session's words, and the COMMIT's request |
| `Start`, `StartAuto` | a statement's snapshot; an autocommitted write's |
| `Pass`, `Moved`, `Grant`, `Enter`, `Refuse`, `Check` | `passes`: rows found, locks taken, the gate for appenders, rows that moved and are looked at again |
| `Keep`, `KeepLocks`, `Land`, `Load` | `keep` with `note`, `read_keys`, `autocommit_as`, an append with neither locks nor gate |
| `Close`, `Change`, `PassCheck`, `Conflict`, `GateTimeout`, `Flush` | `commit_here`, `change::run`, `conflicts`, `write_changes` |
| `See`, `Lapse`, `Expire`, `Restart` | the follower's view moves; a lease runs out; the log's old segments go; the leader restarts without locks |

A row is its key, a version the commit that wrote it. A lock is granted when it is free: requests, queues and leases
are `RowLocks`. Left out: append tables' row ids and `ON` keys, DDL in a transaction, jobs (`alone`), protocol transactions,
the refusal of an inbox guest, and the state a session is in after its idle end (25P03).

### `MCIngest`, `MCSequenceValues`, `MCTerms`, `MCTransactions`

`MCSequenceValues` starts where a sequence was made and a node gave the first of its first block (`MadeSpec`). `MCTerms`
says who may ever start (`GroupSpec`, `Groups`), so that a run goes over nodes near and far, reachable or not, and a one-off
writer, without having them all at once. `MCTransactions` names no more than the module: its two writers differ in kind.

### The proof modules

`ReplicatedCommit_proofs`, `Leaders_proofs` and `Durability_proofs` build on one another, in that order; `Ingest_proofs`,
`SequenceValues_proofs`, `Terms_proofs`, `RowLocks_proofs` and `Transactions_proofs` stand beside their modules. See "What is proved".

## The runs

| Run | Bounds | What it shows |
|---|---|---|
| `nothing_yet` | 2 nodes, of which one replicates; `Ahead` 1, `MaxTerm`, `MaxEpoch`, `MaxId` 2, one crash | from an empty bucket: two nodes come up, list each other, replicate, crash, take over. Whoever counts is listed (`ListedBeforeCounted`), a leader has what was acknowledged (`LeaderHasAcked`), the whole implements `DurableLog` |
| `takeovers` | 3 nodes, 3 copies, from a working cluster; `MaxTerm` 2, `MaxEpoch` 3, `MaxId` 2, one skip | leaders that restart in place, a takeover with the deposed leader still at work, a member a recovery does without: `AckedInBucket`, `AckedIsKept`, `CountedIsHeld`, `RecoverFindsAcked`, `OlderIsFenced`, types |
| `progress` | 2 nodes, `MaxId` 3, one skip, fair | liveness: `WritesCommit`, `RoundsEnd`, `RecoveryEnds`; and `AheadIsBounded` over a bucket that stalls |
| `reused_number` | 4 nodes, 3 copies, from a restart in place | finding 1 |
| `rows` | 3 transactions, 3 rows, one request each, `Lease` 1, from no locks and from a row each | types, `Fifo`, and `NoLoop` over loops of two and three |
| `gate` | a transaction on a follower, an autocommitted write on the leader, one row, one table, two requests each, `Lease` 2, `Stalls` | `NeverBetween`, `Agrees`, `HeldAsTold`, with leases that run out on anybody and late requests asked again |
| `waits_end` | 2 transactions, one of them on a follower, one row, fair | liveness: `WaitsEnd`, though the holder's node may have died |
| `ingest` | a producer that pipelines two batches, 2 flushes, 2 commits in flight, `MaxN` 4, a takeover, one view, one move | `OnceOnly`, `AckedIsThere`, `NoGaps`, `InOrder`, `ViewHolds`, `MovedWhole`, types |
| `values` | 2 calls on 1 or 2 nodes, 2 names, 2 shapes (one that goes round, one that is used up), two more commits, a takeover | `NeverTwice`, `SetIsSeen`, types |
| `terms` | a node, a one-off writer and a second node, which is far and replicates, or is far and can't be reached; 3 numbers, one fault | `OneOwner`, `LeaderLooksAlive`, `NewerIsSeen`, `NewestStays`, types |
| `led_again` | the same processes in three pairs, fair | liveness: `LedAgain` |
| `transactions` | a session on a follower, an autocommitted write, one row, two commits, a lapsed lease or a restart, both isolation levels, savepoints | `NoLostUpdate`, `AutoKeeps`, `LockedCommits`, types |

Why these bounds are enough. `MaxTerm` 2 and `MaxEpoch` 2 or 3 allow a takeover and a restart in place before or
after it, which is where an older process's copies and acknowledgements meet a newer one's. `MaxId` 2 or 3 allows
one or two changes beyond the list of members: one acknowledged ahead of the bucket and one that takes its number after
it. `Ahead` 1 makes the limit bite with a log of three. `MaxCrashes` is 1 in `nothing_yet` and 0 elsewhere: a restart
(`Follow`, `TakeBack`, `Claim`) already loses all memory, and a node that takes no step is as good as killed to a
safety property. `MaxSkips` is how many members recoveries may do without; the promise is for fewer failures than
`replicas - 1`, which is what `AckedIsKept` counts.

`Tries` (1 or 2 requests of an owner) allows a second statement, a second pass or a retry; two are needed for a late
request to meet its retry. `Lease` 1 is the shortest time that can lapse; 2 tells a lease from the part of it that a
renewal adds, and lets one lapse with no sweep due. `rows` has three owners and three rows, the smallest loop that
isn't two waits for each other.

Two batches are a batch and the one that follows it; two flushes and two commits in flight let a retry overtake what
it retries; one takeover loses what was on its way. Three numbers of a term let a number be pruned and claimed again
(`Keep` is 1), three processes are a holder, a claimer and one that follows or claims beside it, and one fault is what separates a holder from what others see of it. Two calls, one restart or
takeover and a block of two values leave a value in a block that the counter has gone past. Two commits in
`transactions` are the one that is checked and the one it could write over.

Every bound is a guard of the action it bounds; runs whose system may stop (every node down, every bound reached, every
statement done) say `CHECK_DEADLOCK FALSE`. In `rows`, `gate` and `waits_end` time goes on, and TLC looks for deadlocks.

Symmetry: all nodes but the first leader are alike (`takeovers`, `reused_number`), all owners of a kind (`rows`), flushes
(`ingest`), calls and nodes (`values`); in safety runs only.

Fairness.

- `progress`: a running node's tasks go on (`tokio`), and the bucket takes what it was given: weak fairness of asking
  members (`Ask`: an answer or, after 20 s, a skip), `Rewrite`, `Serve`, `Flush`, `Stream`, `Commit`, `NoteDurable`, `List` and
  `Count`. Nothing is assumed of followers, acknowledgements, heartbeats, new writes, crashes or takeovers; a property
  ends with "or its node was fenced, restarted or killed".
- `waits_end`: a request gets its turns of the mutex although others take theirs (strong fairness), statements and
  transactions finish (an idle transaction is ended after `PONDRA_TXN_IDLE_SECS`), `upkeep` runs, writers leave the gate
  (its wait is bounded by `GATE_WAIT`), sweeps end and time passes. The locks of an owner on the leader go when it ends;
  nothing is assumed of a follower's message that lets them go, of its retries, of its node's life, or of a waiter's
  own timeout: a wait ends because its row is freed or its holder's lease lapses.
- `led_again`: the loops of `join`, `follow` and `claim` go on and a running leader marks its term (weak fairness of `Going`
  and `Mark`); a process that finds the lake free, or its leader gone, again and again, gets to claim (strong fairness of
  `Free` and `TakeOver`: another's mark may come in between). Nothing is assumed of starts, stops, stalls or crashes.

Every property has a mutant of the model that a plausible slip in the code would make, and that breaks it: they stand
beside the definitions they replace ("Mutant: ...").

## What disagreed

### Shown by a run

1. **A number used twice in one term** (`reused_number`). A leader that restarts in place keeps its term. If its
   recovery does without a member that holds an unacknowledged change, that change's number is given to another
   change in the same term; the member keeps its copy (`start` keeps its own term's), and the next recovery takes
   whichever of the two it was sent last (`src/src/replica.rs:149`). Two failures are needed (a member away during
   the restart, a takeover after it) with `--replicas 3`, where one member less was to be survived.

### Seen by changing a run's constants

Each of these is outside what the passing runs claim, and each shows at once when the constant named is changed.

| What | How to see it | Where |
|---|---|---|
| A late opener fences its successor: nothing between the claim and the opening of the catalog looks whether the term is still the newest, though "an older leader can no longer commit" is said of older leaders. No acknowledged change is lost; it finds itself superseded at its next mark | `LateOpen = TRUE`: `OlderIsFenced` fails | `node/run.rs:235-240`; `cluster.rs:5-7` |
| An old acknowledgement counts after a restart in place: a follower's copy of the change that had this number before, streamed and not in the bucket, counts as one of the new | a working cluster whose next list, and one change after it, are streamed and not in the bucket, `MaxSkips = 0`: `CountedIsHeld` fails after `TakeBack` and one more change | `replica.rs:149`, `members.rs:122` |
| A batch and its retry in one flush are committed once, but the first of the two may be answered before it is there | `Twins = TRUE` in `INRows.cfg`: `AckedIsThere` fails | `log.rs:918-921`; `log.rs:8-9`, `116` |
| A producer's two batches in one commit, the first inside the commit and the second an object, are read in the other order | `Kinds = {"inline", "object"}`: `InOrder` fails | `log.rs:328` |
| The sequencer's list of views, read while a statement makes one, is kept over the forgetting: the nodes that know the view have their flushes sent back until something else forgets the list | `HeldToIt` as an invariant of `ingest` | `ddl.rs:549`, `views.rs:1579-1599` |
| NOWAIT through a follower is always refused: a wait of zero is NOWAIT to `take`, and "time is up" to a follower's `ask`, which answers 55P03 without asking the leader | `RefusedForARow` with `Remote = {b}`, `Lease` and `Tries` 1 | `locks.rs:549-551`; `locks.rs:338-339` |
| A follower's autocommitted write in a closed table: `leave` is by the owner's name, in another turn of the mutex than the asking, so a first request that its follower has given up on, granted its place after all, takes the owner off the appenders after its retry entered | `Remote = {b}` in `RLGate.cfg`: `NeverBetween` fails | `locks.rs:366-367` |
| An autocommitted write has no upkeep: one whose pass outlasts its lease lets a closer in, gets the lease back at its next `take`, and enters the closed table as "one already appending" | `NeverBetween` of writes with a live lease instead of `sure` ones | `locks.rs:149-150` |
| An appender polls for the gate, without a queue: writers that close its table one after another keep it out, and with it those that wait for its rows, which it renews meanwhile | `Autos = {b}` and `Tables = {x}` in `RLProgress.cfg`: `WaitsEnd` fails | `locks.rs:381-392` |
| A loop of waits that nobody looked for: `ahead` counts no lapsed holder, and a renewal that comes late, before the key was settled, makes it a holder again | `Stalls = TRUE` and `Lease = 2` in `RLRows.cfg`: `NoLoop` fails (some minutes) | `locks.rs:262` |
| A deposed leader isn't told: its number was pruned and claimed again, or a delete of the prune failed (the record stays, and the next number's is gone) | `PruneWhole = FALSE`: `NewerIsSeen` fails | `terms.rs:158-177` |
| A REPEATABLE READ transaction that outlives `--retain-secs` loses an update: COMMIT reads the log since its read point, of which `expire` deletes segments whatever is open; "none can lose an update" | `Retained = FALSE`: `NoLostUpdate` fails, and `AutoKeeps` | `txn.rs:1839-1870`, `tier.rs:718-770`; `adr-067` rule 6 |
| Statements of one session that run at once lose an update: an unlocked read noted after a key's lock lowers only the table's floor, and `read_keys` doesn't look whether the transaction is still its own, as `keep` does | `Overlap = 2`, `Serial = FALSE`, `Kinds = {"lock", "many"}`, no `Autos`: `NoLostUpdate` fails | `txn.rs:1288-1310` |
| A statement that changed no row sets the floor, so a row locked and read again later is still refused for a commit before the lock | `LockedCommits` without `locked` | `txn.rs:1296-1297`; `adr-067` rule 6 |
| An autocommitted UPDATE over `LOCK_MAX` takes no lock, no gate, and is checked by nothing ("rule 6 alone keeps it right") | `"many"` in `Kinds`, and `AutoKeeps` without `locked`: it fails | `adr-067:66-67` |

Read, not modelled: `drop_task` doesn't call `forget_producers`, so the sequencer's memory of a task's seqs outlives
it (`tasks.rs:134`); `bound` may put back the entry of a view that was dropped meanwhile; a claimer's prune may take
10 s, during which it doesn't listen to the bell, whose silence counts after 5 s; a node killed while its lock file says
"restarting" takes back, started again, a term that others rang in vain; `write.rs:2748` says no mark lands after a
release, `terms.rs:316-317` that one can; a follower's autocommitted write survives a leader's restart in place, whose lock
table is empty, and lands unchecked.

## What is proved

41 theorems, for every value of the constants. Each module's own assumptions are those its `ASSUME`s state (finite
sets of owners, naturals, a `Nobody` that is nobody); where a theorem assumes more, it is named here, with the reason.

**Commits: types and order** (`ReplicatedCommit_proofs`). `IInv` is inductive (`Inductive`): `TypeOK`, `TermInv`
(a leader owns its term), `EpochInv` (epochs are taken once), `OpeningInv`, `CountInv` (a write counted close stays close:
`close` is read once, before a wait during which `durable` moves on), `BucketInv` (the bucket has exactly the flushed
changes of the leader it doesn't refuse), `FolInv`, `OlderInv`. From it:

- `TypeCorrect`; `StaysClose`: at most `AHEAD` changes are acknowledged ahead of the bucket;
- `OlderFenced`, with `~LateOpen`: the bucket refuses every leader older than one that opened the catalog;
- `ListedCounted`, with nothing assumed: whoever counts is listed in the bucket.

**Commits: nothing acknowledged is lost** (`Leaders_proofs`, `Durability_proofs`). `AckedStays`, `AckedKept`, `LeaderHas`,
`CountedHeld`, `RecoverFinds`, and `Implements`: the commit path refines `DurableLog`. They assume three things, and each is needed:

- `MaxSkips = 0`: every recovery gets every member's answer. With skips the promise is "fewer than `replicas - 1`", and
  the argument has to count copies over several takeovers; `takeovers` checks it with one skip;
- `~LateOpen`: a claimer opens in time (above);
- `[][~InPlace]_vars`: no leader that takes writes restarts in place under its own term (`reused_number`, and the old
  acknowledgement of the table above).

The argument, over any number of takeovers. A change beyond the bucket is *chosen* once it is acknowledged, or as soon
as the copy that will make its leader acknowledge it is counted or on its way. A copy is *firm* when no copy beyond the
bucket and no leader is of a newer term. Every chosen change has a firm copy at a member of each list the next leader
may read (`KeepInv`); a copy's number and term say which change it is (`CopyInv`), so two chosen changes never share a
number; a member that still helps an older leader is yet to be asked by every newer one (`HelpInv`), so what a recovery finds
holds every chosen change (`FoundInv`), and so does the log it writes again (`LogInv`).

**Ingest** (`Ingest_proofs`). `TypeCorrect`; and, with `~Twins`, `Inductive`, `ExactlyOnce`, `AckedStays`, `NoneMissing`. All follow from
one fact (`RowsInv`): every catalog, the committed one and each on its way, has of each producer exactly the batches up to
its mark, once each. `~Twins` is needed (above); a node of the code can pack a batch with its retry. Three more, each with an
invariant of its own:

- `NoneLeftBehind`, with nothing assumed. `MoveInv`: a table is held from the moment its statement asks for the hold's number
  until its entry is gone, and what the sequencer takes for it meanwhile is left out; so from the write that has the hold's
  number on the rows are the same in every catalog (`Still`, `StillFrom`), and those in files are all there are;
- `ReadInOrder`, with `~Twins` and flushes of one kind (above). `NumberedInv`: segments of the commit that is built have numbers
  from the newest catalog's on; `OrderInv`: they are in order now, and whatever number the inline segment gets;
- `ViewIsRight`, with `~Twins`. `LineInv`: each catalog goes on from the one before (an end of a filling stays, with the rows
  up to it), and shows what it should; `SeenInv`: what the sequencer knows of the views, and has read of them, fits the newest
  catalog although it reads the committed one (`bounded` is needed for that: the write that ends a filling may be on its way);
  `FillInv`: a filling is of the rows up to the end, and counts once.

**Sequences** (`SequenceValues_proofs`), with nothing assumed. `TypeCorrect`, `NeverGivenTwice`, `SetIsSeenAfter`, from `Inductive`. A value
of a life is at one place: handed out, left in a node's block, in the block a call was answered with, or in the answer of a
write on its way (`ApartInv`). Wherever it is, its life's counter is past it in the committed catalog and in every one on its
way (`PassInv`; a value whose write is on its way, from that write on), so the next block begins behind it whichever of them a
takeover keeps. Three more facts carry that: a life belongs to one name at a time, over renames too (`LineInv`); what the
sequencer holds of a counter is the newest, and what it doesn't hold no write on its way has moved (`HeldInv`); and one call at
a time has its node's blocks, and waits for one write (`CallInv`), or two answers could be kept over each other. For `setval`,
a block that a node has or will have was taken in a commit after the last `setval` that returned there (`ToldInv`).
Every op is shown to be one of a kind (`Ordering`): one counter that begins a life or goes on from the one it replaces, and
values it wasn't past before.

**Terms** (`Terms_proofs`). `TypeCorrect`, `Inductive`, `OneLeads`, `NewestNeverBack`, `LooksAlive`, with nothing assumed; `NewerSeen`
with `PruneWhole`. What a claim may rely on is that the record it put is there until a newer one is (`PutInv`), so whoever then
saw no newer one knows that its own stands.

**Row locks** (`RowLocks_proofs`). `IInv` is inductive (`Inductive`): the Table's indexes agree and nobody waits for a free key
(`TabInv`), a place or a grant nobody received belongs to a request that waits for that key (`PlaceInv`), what requests and
owners are at (`CallInv`, `OwnInv`, `GateInv`), what an owner was told it holds it does (`TellInv`), since its lease lasts
(`LeaseInv`), and one that let go has nothing (`EndInv`). From it `TypeCorrect`, `IndexesAgree`, `KeptAsTold`, and
`FirstComeFirstServed`, an action property. Two more need more:

- `NeverALoop`, with `~Stalls`: whoever waits has a lease that lasts, so `ahead` overlooks nobody, and a step makes nobody wait
  for more, except the `ask` that looked. A loop of any length is meant: `Reached` is the least closed set;
- `NeverInBetween`, with no autocommitted write on a follower (above).

**Transactions** (`Transactions_proofs`). `TypeCorrect`, with nothing assumed; `KeptAlone`, `NothingLost`, `LocksSuffice` and the
`Inductive` fact under them. A row is kept by one of two things. Its lock: since owner `o` was granted row `k` no writer that
kept its own locks wrote it (`Alone`), as long as `o`'s lease lasts; every step leaves an owner that (`Steady`), but the one that
lets it go (`Lets`). Or the check: a row a transaction keeps is checked from before the first commit its version
doesn't have (`KeptFits`), in a log that goes back that far. `StmtInv` and `SlotInv` say both of the statement at work, which
hands them to what its transaction keeps; savepoints, `ROLLBACK TO` and a COMMIT on its way take them along (`TxnInv`,
`PendingInv`); the check under the gate uses them up, and until the flush the gate keeps every other checked writer out. What is
assumed, each of it shown to be needed by the table above:

- `Retained`: the log isn't cut under an open transaction. `expire` (`tier.rs:718-770`) asks none; it is so where transactions end
  before `--retain-secs`;
- for `NothingLost` and `LocksSuffice`, `Serial` and `Overlap = 1`: a session has one statement in progress, and its next word after
  the answer. A client over a connection can't do otherwise; nothing makes one over HTTP. `KeptAlone` needs neither.

Only model-checked, and why: liveness (`WritesCommit`, `RoundsEnd`, `RecoveryEnds`, `WaitsEnd`, `LedAgain`), which the prover
can't do; and what the theorems assume away, in so far as a run has it (recoveries that do without a member, in `takeovers`).

## Not modelled

Tiering, the bucket inbox, branches and backups, formats, memory and the request budget are components with state of their
own, for which there is no module yet. The store served over HTTP has no state but its retries. The SQL engine and the
dialects are pure rewriting over DataFusion; the doors are encodings around the statement path; users and sign-in are
lookups in the catalog; pages' interface, the console, packages and the site have nothing to interleave. What a module
leaves out of its own component is said with the module.

## The plan

1. Done: `ReplicatedCommit`, `DurableLog`, `RowLocks`, `Ingest`, `SequenceValues`, `Terms`, `Transactions`, their runs, and the theorems above.
2. Modules left: `CommitStream` (a follower's pending changes, overlay and relay: reads are a prefix of the log), `Tiering` (a round
   loses no row and repeats none), `Inbox` (a request is executed once or withdrawn), then `Format`, `PageLog`, `Ledger`.
3. Proofs left: the counting argument for recoveries that do without a member (`MaxSkips` above 0), and for `InPlace` the copies
   that a leader's own restart leaves behind.
