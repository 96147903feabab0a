# Specification of GoRaft

TLA+ models, TLC runs and TLAPS proofs for GoRaft, a key-value store
replicated with a Raft engine written by hand (`src/backend`). Paths in this
file are relative to `src/backend/internal` unless they start with `src/`.

## 1. The system

| component | state | operations | talks to |
|---|---|---|---|
| raft node (`raft/`) | `Node` (node.go:44): hard state, role, votes, log, commitIndex, lastApplied, progress per peer, membership, pending proposals and reads | tick, campaign, Propose, ChangeMembership, LinearizableRead, RequestVote / AppendEntries / InstallSnapshot and the callbacks of their replies, New, Stop | WAL, snapshot store, state machine, transport |
| log (`raft/log.go`) | `snapIndex`, `snapTerm`, `ents` | Term, At, Slice, Append, TruncateFrom, Compact, Restore | owned by the node |
| hard state (`raft/hardstate.go`) | `hardstate.json`, and records in the WAL | persistHardState, persistEntries, restoreLog | WAL |
| write-ahead log (`wal/`) | segments, dirty bytes, group-commit waiters | AppendSync, flusher, rotate, TruncatePrefix, Close, recover | raft node |
| linearizable reads (`raft/readindex.go`) | pending reads: index, term, who confirmed | LinearizableRead, ackReads, tryFinishReads, failPending | raft node, state machine |
| snapshots (`snapshot/`, `raft/snapshot.go`) | snapshot files, the `Incoming` transfer, `snapshotSending` per peer | Save, Latest, gc, sendSnapshot, handleInstallSnapshot, BeginInstall, Write, Abort, Split | raft node |
| state machine (`statemachine/`) | map of keys, sessions | Apply, Snapshot, Restore, Get | raft node, API |
| rpc (`rpc/`) | chaos switches, connection pool | call, Mount, Chaos | raft nodes of other processes |
| api, cmd, config | - | HTTP routes, process wiring, environment | raft node |
| linearizability checker | a recorded history | Check | tests |
| observability, clock, logutil, web console | event ring, subscribers, traces | Publish, Push, Fanout | everything emits into it |

A node is one goroutine (`loop`, node.go:178): ticks and the closures queued by
`do` run one at a time. What interleaves is (1) the nodes, (2) the goroutines that
send an RPC and afterwards queue its callback, so that the callback may run
terms later, (3) crashes, between and inside handlers, (4) the goroutines of the
HTTP server, which queue handlers and give up when the node stops, (5) the WAL's
flusher.

What is hard: callbacks that use what was true when the call was sent; calls
that are delivered late, twice or never; crashes between two writes; the log
addressed by position while its indexes are stored in the entries; snapshots
replacing logs that moved on; membership changing under elections. The list with
one line of code for each is `hazards` in `PROJECT.json`.

## 2. The modules

    RaftLog            the log in memory and its replay from the WAL
      RaftNode         a node's record and the steps its handlers are made of
        Raft           the cluster: one action per handler, callback, tick, crash
          RaftProperties   types, invariants, action properties
            MCRaft         small instances for TLC
            RaftProofs -> MatchProofs -> CommitProofs -> VotersProofs

    ReplicatedLog      what the cluster promises (abstract): one log, which nodes
                       apply in order; RaftProperties maps Raft to it

    SnapshotTransfer   the chunks of transfers between a leader and a follower
      TransferProperties   what is installed is whole; transfers end
        MCTransfer     small instances for TLC
        TransferProofs

    DurableLog         what a write-ahead log promises (abstract)
    WAL                segments, group commit, crashes, recovery
      WALProperties    invariants, liveness, WAL implements DurableLog
        WALProofs

    AtomicStore        what the service promises (abstract): one store, commands that
                       take effect at once, answers
    KVSessions         handlers with retries, sessions, snapshots of the KV
      KVProperties     each command takes effect once, KVSessions implements AtomicStore
        MCKV           small instances for TLC
        KVProofs

    Linearizability    recorded histories, and Check against the definition
      MCHistory        small instances for TLC
      HistoryProofs

The groups meet at these interfaces. `Raft` takes from `WAL` that what was
appended with `sync` is there after a crash (`DurableLog`), and from
`SnapshotTransfer` that an installed snapshot is the one the leader sent
(`InstalledWhole`), so that in `Raft` a transfer is one call. It gives to
`KVSessions` that all replicas apply one sequence of committed entries
(`ReplicatedLog`). `Linearizability` is apart: the tests of the repository judge
recorded histories with it.

`RaftLog` is the data type of `log.go`, as operators on a record. It keeps the
feature the code's trouble comes from: `At(i)` is a position
(`i - snapIndex - 1`), `LastIndex` is the index stored in the last entry. The
loop of `handleAppendEntries` over the entries of a call is given in closed form
(`Merge`), and `Replay` is what a restart makes of the WAL.

`RaftNode` has the functions of the node that several handlers call, as
functions from the node's record to the record after the call: `MaybeApply`,
`MaybeCommit`, `SendTo` (sendAppend, sendSnapshot), `Accept` (append, commit,
broadcast), `MaybePromoteLearner`, `MaybeSnapshot`, `Install`, `TakeEntries`. The
calls a handler starts with `go` collect in the field `out` and are sent when the
handler ends.

`Raft` has the hard state, roles, votes and messages, and the actions. Each
action is a whole handler, for instance `OnAppendReply` is the callback of
sendAppend with onAppendReply, maybeCommit, maybeApply, the next sendAppend and
maybePromoteLearner. `granted` is a history variable: the votes that were written
to disk. The field `acked` of a node is one, too: the entries whose proposer was
told success. Reads are in `Raft` too: `LinearizableRead` queues a barrier at the
node, append replies confirm it (`AckReads`), and the apply loop answers it
(`TryFinishReads`). `missed` of a node is a history variable: acknowledged writes that
a read answered by this node did not see although they were acknowledged before
it was asked.

| code | definition |
|---|---|
| tick (node.go:213) | `Campaign`, `Heartbeat`, `IdleTick`, each with `Housekeeping` |
| Propose, ChangeMembership, LinearizableRead | `Propose`, `ChangeMembership`, `LinearizableRead` |
| ackReads, tryFinishReads, failPending | `AckReads`, `TryFinishReads`, `FailPending` |
| handleRequestVote, handleAppendEntries, handleInstallSnapshot | `HandleRequestVote`, `HandleAppendEntries`, `HandleInstallSnapshot` |
| callbacks of sendVote, sendAppend, sendSnapshot | `OnVoteReply`, `OnAppendReply`, `OnInstallReply`, `InstallFails` |
| New after a stop or a kill; a kill inside a handler; Stop that overtakes a request | `Restart`; `CrashInHandler`; `StopWhileServing` |

`WAL` has the write-ahead log as one sequence of records in file order, each with
the segment it is in and whether it is on disk. `AppendSync` is the part under
the mutex, rotation included. The flusher's turn is three steps, `Capture`,
`FlushSync`, `Reply`, because it syncs without the mutex: appends, rotations and
crashes fall between. `promised` is a history variable: how much of the log some
writer was told is safe. `Open` is recovery, the replay of all segments.

`KVSessions` has the handlers of PUT and DELETE (`Send`), callers that ask again
(`Retry`) or give up, the committed log, and per replica the machine (data and
sessions), `lastApplied`, the newest snapshot and the callers whose handlers wait
there (`proposals`). A command has the number its caller gave it or the clock of the
node that served it (`Numbers`). `ApplyNext` is one turn of maybeApply with KV.Apply and
the answer. `told` is a history variable: what callers were answered, and at which index.
`AtomicStore` is what this comes to for a caller; KVProperties maps the committed log to
its store (`StoreNow`, `Effects`).

| code | definition |
|---|---|
| Open; AppendSync; Sync; Close (wal.go) | `Open`; `AppendSync`; `Sync`; `Close` |
| rotateLocked; segment.sync | `Rotated`; `Synced` |
| flushLocked (group_commit.go) | `Capture`, `FlushSync`, `Reply` |
| recoverDir, replaySegment after a kill or a power failure | `Crash`, `CrashInRotation`, `Unreadable` |
| handlePutKV, handleDeleteKV, Propose | `NewRequest`, `Retry`, `Send` |
| Sessions.Check; KV.Apply | `Hit`; `Result`, `Apply` |
| KV.Snapshot, KV.Restore, handleInstallSnapshot, New | `TakeSnapshot`, `RestoreKV`, `InstallSnapshot`, `Restart` |
| sendAppend and sendSnapshot, from a heartbeat; the loop over chunks with the final callback; its error | `Heartbeat`, `SendAppend`; `Continue`; `TimeOut` |
| handleInstallSnapshot with BeginInstall, Assembler.Add, Store.Save | `Receive` (`Receiving`, `Fits`, `Saved`), in `Deliver` and `DeliverLate` |
| handleAppendEntries and onAppendReply after a transfer | `Probe` |
| Check (linearizability/checker.go) | `Check`, `Search`, `CanLinearize`, `Step` |

`SnapshotTransfer` has one leader, one follower and the chunks between them. The
goroutine of a transfer sends a chunk, waits for its answer, sends the next; a call
that times out leaves its chunk in the network (`late`), where it may still reach
the follower after a newer transfer has begun. The follower's `Incoming` is not
keyed by transfer: it takes the next chunk from whatever transfer it comes, and a
chunk that does not follow the ones before ends it. `machine` is what was installed, as the sequence of
chunks it was made of, so that a mixed snapshot is told from a whole one.

`Linearizability` builds every history call by call and asks `Check` about it.
`Legal`, `InRealTime` and `Linearizable` define linearizability from its meaning: an
order of the operations that respects real time and the register of each key.

### Abstractions

- Time: the counters `electionElapsed` and `heartbeatElapsed` are left out, so a
  timer may fire at any tick. That allows every schedule the code has.
- Network: a message is delivered at any later time or never. A partition, a dead
  node (`rpc/chaos.go`) and a timeout are messages that are not delivered.
  `Capacity` bounds the calls under way on a link; a call that does not fit is
  lost or replaces the older ones, and both happen. With `Resend` a delivered
  call stays in the network. Messages that no handler would act on any more
  leave the network (`Live`), because the guards of the callbacks make them
  steps without effect.
- Commands are model values; noops stay in the sequence of applied entries `sm`,
  so that two nodes are compared position by position.
- Hard state and its file are one variable: `New` prefers the file when its term
  is not older than the WAL's (node.go:108), and the file is written last.
  `AppendCommit` records are left out for the same reason: the commit index of
  the file is used.
- In `Raft` a snapshot transfer is one call, and the membership it carries is read
  when it starts; the chunks are in `SnapshotTransfer`. The leader hint `n.leader`,
  addresses, and disk errors are left out.
- Reads: the value a read returns is left out. What matters is which acknowledged
  entries its answer covers: the history variable `missed` collects those it does not.
- SnapshotTransfer: the leader stays leader of its term, and what a chunk holds is
  its snapshot and index. Snapshot `s` is `Chunks[s]` chunks long. Late chunks are
  not bounded, transfers under way are at most `Slots`, and faults (timeouts, restarts,
  overlapping starts) at most `MaxFaults`.
- Linearizability: a history is recorded in the order of its events, one call per id at
  a time; the clock moves or stands still between two events, so that ties occur.

- WAL: segments hold records instead of bytes. A crash keeps any prefix of the
  records that are not synced; a torn record is one that replay cuts off. The
  `dirty` channel is left out, because the ticker runs the flusher anyway.
  TruncatePrefix is called with 1 and removes nothing. Disk errors and the
  durability of directory entries are left out. Records of an earlier process that
  were recovered but not synced again by Open may be lost by a later crash, as any
  record that nobody was promised.
- WAL: when a segment was rotated away under a flush, its sync fails (the file is
  closed), and the writer gets an error although its record is on disk. The code
  races there (`segment.close` sets `f` to nil); a failed sync stands for it.
- WAL: the node calls the WAL from one goroutine and stops it after that goroutine
  has ended, so `Close` needs that nobody waits. `Writers` has two members because
  the group commit is written for several.
- Sessions: a number is any of `1..MaxNumber`, for a new request and for a retry. A put
  may have any number its caller likes (kv.go:18); a put without one and every delete get
  the clock of the node that serves them (kv.go:43, 51), which has nothing to do with
  callers' numbers, nor with the clocks of other nodes, and may step back. The number of an
  anonymous command is never looked at and is 1. Commands reach the log in any order,
  because the number is drawn before the node's loop sees the command.
- Sessions: a put writes the tag of its request as its value, which makes all writes
  different; a retry keeps the tag. The mark `Dup` of an answer is left
  out. A caller listens to the handler of its last request only.
- Sessions: a snapshot installed at a replica that is past it (`LateSnapshots`) is
  what configuration `MCRaft_wiped` shows; KVSessions runs without it.

## 3. What must hold, and the runs

| property | what it says |
|---|---|
| `TypeOK` | types, and no call of a finished handler is left unsent |
| `ElectionSafety`, `ElectionInv` | one leader per term, and why: votes are on disk, genuine, and counted in their own term only |
| `LogMatching`, `LogInv` | logs that agree on an entry agree on everything before it, and why: each entry has one predecessor, wherever it is |
| `LeaderCompleteness`, `CommitInv` | what any node knows to be committed is in every leader of its or a later term, and why: it is part of the beginning of a log that a majority backs |
| `StateMachineSafety` | nodes apply the same entries in the same order |
| `AckedDurable` | an acknowledged write is on a quorum, whatever arrives later |
| `MatchIndexSound`, `MatchInv` | a leader never believes a follower has more than it has, and why: until a follower's log begins its leader's, no call of the leader matches before the fork of the two |
| `Recoverable` | replaying the WAL under the newest snapshot gives back the log in memory, at every moment |
| `VoteKept`, `LeaderAppendOnly`, `CommitMonotone` | steps that may never happen |
| `PromisedDurable`, `GroupInv` | what AppendSync reported safe is on disk, and why: only the newest segment has records that are not |
| `AppendReturns` | a writer that waits for a group commit is answered, or the process ends |
| `ImplementsDurableLog` | WAL refines DurableLog: append, promise a prefix, lose what was not promised |
| `Openable` | Open can read what earlier processes left |
| `EffectsOnce` | the data of a replica are the committed commands, each counted once; the definition looks at the log and not at sessions |
| `ImplementsReplicatedLog` | the cluster refines ReplicatedLog: one committed log that only grows, and nodes that apply it in order; the log is the longest state machine |
| `ImplementsThroughCrashes` | the same when nodes crash and have nothing applied: the log is the longest beginning a majority backs (`Chosen`), and a crashed node falls back |
| `ReadsCurrent`, `ReadInv` | a linearizable read sees every write that was acknowledged before it was asked, by whichever leader, and why two voters keep to it: a leader that has committed in its term has committed all that anybody was told of |
| `InstalledWhole` | what a follower has installed is the chunks of one snapshot, in order, none missing, none of another |
| `InstalledWhenAlone` | once transfers no longer overlap, the follower is brought up to date, and the leader knows it |
| `CheckIsSound`, `CheckIsExact` | Check accepts only linearizable histories, and all of those whose operations were all answered |
| `SessionsOfLog` | the sessions of a machine or a snapshot are those of the log at the index its data are of, whatever numbers the log holds |
| `UnrivalledIsOwn` | a caller is told success for a request that was lost, or another's result, only if another request of its client_id with a number as large or larger was committed before it; retries, restarts and snapshots never bring it about |
| `AnswerIsOwn` | success means that the caller's own command has taken effect, and the result is that command's: the code does not keep this (`shared_id`) |
| `ImplementsAtomicStore` | the service refines AtomicStore: a command takes effect when it is committed, between its request and its answer, a numbered one once and not behind one of its client with a number as large, and the answer says what it met (a delete: whether the key had a value), or what the one met that overtook it |

The runs of Raft use module `MCRaft` and the configuration `MCRaft_<run>.cfg`, those
of the sessions `MCKV` and `MCKV_<run>.cfg`, and likewise `MCTransfer`, `MCHistory`;
those of the WAL use `WALProperties`, which needs no instance module.

| run | instance | result |
|---|---|---|
| core | 3 nodes, 2 campaign, terms and indexes up to 2, one entry per call, one call per link | 268,236 states: LogMatching, LeaderCompleteness, StateMachineSafety, AckedDurable, LogInv, MatchInv, CommitInv |
| restart | 3 nodes, one of which crashes once, 2 terms | 282,689 states: ElectionSafety, ElectionInv, Recoverable, VoteKept |
| catchup | 3 nodes, one leader, compaction at 2 entries | 233,211 states: LogMatching, ImplementsReplicatedLog |
| join | 2 founders, a third node added, promoted, removed | 241,236 states: TypeOK, ElectionSafety, LeaderCompleteness, MatchIndexSound, LeaderAppendOnly, CommitMonotone, ImplementsReplicatedLog |
| reads | 2 nodes, 3 terms, 2 reads, one restart | 120,106 states: ReadsCurrent, ReadInv, ImplementsThroughCrashes |
| stale_read | 3 nodes, 2 terms, 1 read | ReadsCurrent is violated |
| transfer | snapshots of 1 and of 3 chunks, 2 transfers at once, 4 faults | 168,747 states: InstalledWhole, InstalledWhenAlone |
| wal_group | 2 writers, 4 records, 2 records per segment, 3 opens | 7,062 states: PromisedDurable, GroupInv, AppendReturns, ImplementsDurableLog |
| wal_torn_header | 1 writer, crashes also between creating a file and syncing its header | Openable is violated |
| sessions | a caller with a client_id, which puts and deletes, and an anonymous one, which puts; 3 requests with any of 2 numbers, 2 replicas, one restart | 1,373,280 states: TypeOK, EffectsOnce, SessionsOfLog, UnrivalledIsOwn, ImplementsAtomicStore |
| shared_id | two callers with one client_id, numbers of one clock | AnswerIsOwn is violated |
| checker | all histories of 3 calls of 3 clients on one key | 840,511 states: CheckIsSound, CheckIsExact |

Eleven more configurations stand beside these. `MCRaft_terms` is `core` with three terms,
noops only, and at most three messages under way (`FewMessages`): 851,446 states, in
which LogMatching, LogInv, MatchInv, LeaderCompleteness and StateMachineSafety hold. It
takes three terms before a follower has to compare the term of the entry before a call
and not only its index; LogMatching, LogInv and MatchInv, which rest on that, are proved
for all terms (section 4). `MCKV_rising` is `sessions` for callers that wait only for a
command numbered above all others of their client_id (`Rising`): AnswerIsOwn holds in
533,240 states. Each of the other nine ends in a violation; section 3.1 says which. All of
them but `MCKV_mixed_numbers` add one kind of event to an instance that holds without it.

The runs do not meet every hazard. `core` and `restart` take no snapshots, and `core` has two
terms, one too few for a leader that counts replicas of an older term's entry: `MCRaft_terms`
and the theorems of section 4 have that case. `catchup` has one leader and no late
calls, `reads` two voters and no learners, `transfer` one split snapshot. Where the code
breaks a property beyond these limits, one of the configurations shows it.

Bounds. `Campaigners` and `MaxTerm` bound elections: two candidates in two
terms give split votes, a deposed leader, and an entry of term 1 that is
overwritten in term 2. `MaxIndex` bounds proposals; noops come on top, so
`MaxIndex = 2` gives logs of three entries. `MaxBatch = 1` makes a follower
receive its log in several calls, which is what makes the difference between the
last entry of a call and the last entry of the log visible. `SnapshotLogN` of 1
or 2 makes snapshots happen in such short logs. `Capacity`, `MaxRestarts` and
`Crashers` bound messages and crashes. Nodes of the same kind are symmetric in
`core`, `restart` and `join`.

For the WAL, four records in segments of two give a rotation under a flush that
has captured the older segment, and three opens a crash before and after it. For
the sessions, three requests are a request, its retry, and a command of another
caller committed between the two copies; two numbers are a number below, equal to or above
that of the session; one key makes all writes conflict. The replicas are symmetric.

For reads, two nodes are enough for an old and a new leader who each believe
themselves in office, three terms give a read asked between two elections, and a
restart a leader who lost its pending reads. With two nodes a confirmation is needed
from the only other node, and a node that confirms has stepped down; the third node of
`stale_read` is what lets the confirmation be older than the next election.
Snapshots of one and of three chunks give a transfer whose first chunk is
its last and one with a middle; four faults let two transfers overlap and both be cut.
Three operations are a write, an overwrite and a read that tell their orders apart;
keys are independent in the checker, so one is enough.

Fairness. `WAL!Fairness` is weak fairness of the three steps of the flusher, which
runs again at every tick of its ticker for as long as the process lives; nothing
is assumed of writers, Open or crashes. `SnapshotTransfer!Fairness` is weak
fairness of the leader's tick that starts a transfer for a lagging follower (its
ticker runs for as long as it leads), of the goroutine's next chunk, and of the
delivery of a call whose caller still waits. Nothing is
assumed of late chunks, snapshots or restarts, and faults are finitely many: under
an endless sequence of timeouts no transfer ends. The other modules assume no fairness,
and no liveness is claimed for them.

Deadlock is not checked: when the bounds on terms, proposals, records or requests
are reached and nothing is under way, an instance has nothing more to do.

### 3.1 Findings

- `stale_read`: ackReads (readindex.go:56) counts any successful append reply as a
  confirmation of all pending reads, also the reply to a call that was sent before
  the read was asked. A deposed leader that still waits for such a reply answers
  from its own machine and misses a write its successor has acknowledged.
- `wal_torn_header`: Open continues a segment file that has no header
  (segment.go:39), and the Open after that cannot read it.
- `shared_id`: a command with a number below the session's last is answered with
  success and not applied (session.go:24). The command-line client and the
  dashboard send one client_id for all their uses, so concurrent writes get lost. In the
  instance all numbers are those of one clock that never goes back, and still the commands
  reach the log in another order than that of their numbers.

README.md:34 of the repository promises linearizable reads and writes; the first and
the last end in a state that breaks it.

The configurations beside the runs:

- `MCRaft_impostor` (LeaderCompleteness): the last callback of sendSnapshot
  (snapshot.go:90) checks neither term nor role, so a deposed leader calls sendAppend
  and sends InstallSnapshot in the term of its successor, which accepts it and drops
  its log.
- `MCRaft_late_entries` (StateMachineSafety): `At` reports compacted entries absent, and
  handleAppendEntries (replication.go:207) appends them again.
- `MCRaft_wiped` (AckedDurable): handleInstallSnapshot (snapshot.go:134) drops the
  entries after the snapshot even when they match, and heartbeats send snapshots again.
- `MCRaft_reboot` (StateMachineSafety): after InstallSnapshot the WAL does not start at
  index 1, and Compact (log.go:115) cuts the replayed log by position (node.go:116).
- `MCRaft_stopped` (MatchIndexSound, and StateMachineSafety with it): a node stopped while
  it serves an append answers with a zero reply (node.go:197), for which the leader moves
  `NextIndex` back by one. A later call can then match below the point where the logs
  part, and the follower, restarted, reports the length of its log with its stale end.
  Here one entry per call makes one stop enough; with batches of 64 it takes a stop for
  every entry of the stale end beyond a batch.
- `MCTransfer_mixed_chunks` (InstalledWhole): chunks are not keyed by transfer
  (snapshot.go:122), and a late chunk of an older snapshot of the same length takes the
  place of the newer one's.
- `MCTransfer_livelock` (EventuallyInstalled): two overlapping transfers to one follower
  abort each other's `Incoming`, start again, and never end.
- `MCKV_mixed_numbers` (AnswerIsOwn): one caller, alone with its client_id, that asks only
  when it has its answer. It numbers its puts 1, 2, ...; its delete gets the clock
  (kv.go:51), and the put after it is below the session: it is answered with success and
  the delete's result, and not applied (session.go:24). Puts without a number, served by
  two leaders one after the other, are lost the same way when the second clock is behind.
- `MCHistory_pending` (CheckIsComplete): an operation without a reply is not tried as
  one that took effect (checker.go:36), so Check rejects a linearizable history in
  which a read sees a put that was never answered.

## 4. What is proved

TLAPS proves, for every value of the constants and without bounds on the number
of nodes, terms, entries or crashes:

- `RaftProofs!TypeCorrect`: `Spec => []TypeOK`. It starts with the type of
  every operator of RaftLog and RaftNode (`At` and `Slice` never leave the slice,
  no index is negative). Then there is one lemma per action. The actions
  that replicate share the lemma of `Replicates`: hard state and roles of other
  nodes do not change, the node's record is well typed, its calls are typed.
- `RaftProofs!VotesAreKept`: `Spec => VoteKept`, from the same step lemmas
  (`Persisted`, `SteppedDown`, `Reboot` keep or raise the term).
- `RaftProofs!OneLeaderPerTerm`: for a finite set of voters,
  `Spec /\ []FixedVoters => []ElectionSafety`. ElectionSafety is not inductive: a step
  from a state in which a node counts a vote nobody gave would break it.
  `ElectionInv` closes it: every vote in `granted` is not newer than its voter's
  hard state and is the one on disk if of the same term (`VotesRecorded`), no two
  votes of one voter and term differ (`OneVote`), granted replies under way are in
  `granted` and their candidate is still candidate of that term
  (`BallotsGenuine`), counted votes are in `granted` (`VotesGenuine`), leaders have
  a majority (`LeadersElected`). Two majorities of one finite set meet (a lemma
  about cardinalities), and the node in both has voted once.
  `VotesAreGenuine` is `[]ElectionInv` itself.
- `RaftProofs!LogsMatch`: for a finite set of voters,
  `Spec /\ []FixedVoters /\ []Uncompacted => []LogMatching`. LogMatching is not
  inductive: an AppendEntries call under way may carry what no log holds. `LogInv`
  speaks of links instead, an entry with the term of the one before it. Every log and
  every call is made of links; no two links of one index and term differ
  (`LinksUnique`), because a node makes links only of a term it was elected in
  (`LinksElected`, from ElectionInv) and only behind its own last (`LeadersAhead`).
  Two logs with the same link have, going down, the same links below it. Each
  handler is shown either to append one link at the leader or to splice the links
  of a call into a follower's log behind the entry its prev check compared.
  `LinksStayUnique` is `[]LogInv` itself.
- `RaftProofs!WALKeepsLog` and `RaftProofs!LeadersAppend`: under the same premises
  `[]Recoverable` and `LeaderAppendOnly`. A call that reaches a leader in its own term
  would be another leader's, so a leader's log changes by its own appends only.
- `MatchProofs!MatchesAreSound`: for a finite set of voters,
  `Spec /\ []FixedVoters /\ []Uncompacted /\ []NoBlanks => []MatchIndexSound`. The code is
  harder to justify than Raft as published: a follower reports the end of its whole log and
  not of the call, so that a stale end would be taken for the leader's entries. `MatchInv`
  says why it is not. A follower has not heard of the leader's term yet (`Unreached`), or its log is the
  beginning of the leader's (`Following`), or every call the leader has made or makes next
  is at or behind the fork of the two logs (`Forked`), and then the first call it
  accepts cuts off everything that is not the leader's. That a rejection does not move the
  leader before the fork (`Reports`) rests on the conflict term and index, and on terms that
  never fall along a log (`TermsOrdered`). `CallsElected`, `RepliesCurrent` and `LeadersHold` keep
  calls and replies of other terms apart. `ProgressIsKnown` is `[]MatchInv` itself.
- `CommitProofs!LeadersComplete`, `StateMachinesAgree`, `AckedStays` and `CommitsGrow`: under the
  same premises `[]LeaderCompleteness`, `[]StateMachineSafety`, `[]AckedDurable` and
  `CommitMonotone`; AckedStays also supposes the same RAFT_PEERS everywhere. None of the
  four is inductive: whether an index may be committed depends on what acknowledgements,
  calls and votes are under way. `CommitInv` speaks of beginnings of logs instead. A
  set of nodes backs a beginning p (`Backed`) when its members have p and are in the
  term of p's last entry or later (`Held`), no candidate of a later term that lacks p has
  a vote of theirs (`Unelectable`), no log that reaches as far as p is without it
  (`NoneReaches`), and no call of that term or a later one can take p away (`CallsFit`,
  `CallsMeet`). What a leader has written in its own term is backed by those that have
  acknowledged it or whose acknowledgement is under way, or a majority without them has
  gone on to a later term (`OwnEntries`); then maybeCommit, which counts entries of the
  leader's term only, commits what a majority backs (`Chosen`, `DecidedChosen`). A step of any
  node keeps all that is backed: if it elects a leader of a later term, the votes of a
  majority come from the backers or leave the backers without one (`ElectedHas`,
  `BackedStep`, `ChosenStays`). Two chosen beginnings share a backer, so one
  begins the other (`ChosenAgree`), and every leader of a later term has them
  (`ChosenLeads`). Commit indexes, LeaderCommit in calls, what is applied and what
  was acknowledged stay within what is chosen (`CommitsChosen`, `AppliedCommitted`).
  Each handler is shown to make a `CommitStep`: it raises the commit index by counting or
  by taking LeaderCommit with the entries of that call, and by nothing else.
  `CommittedIsChosen` is `[]CommitInv` itself.
- `CommitProofs!ClusterImplementsLog`: under the same premises `ImplementsThroughCrashes`.
  The replicated log is the longest chosen beginning. There is one because a chosen
  beginning is no longer than the longest log, and it is unique because of two chosen
  beginnings one begins the other. `ChosenStays` makes it grow only. A step of a running
  node is `Advance`: machines are beginnings of the log, and grow. A crash is `FallBack`;
  it may come in the middle of a handler, so that the log grows in that step, too.
- `CommitProofs!MachinesImplementLog`: under the same premises, and as long as nobody
  restarts (`NoRestarts`), `ImplementsReplicatedLog`, in which the log is the longest state
  machine and not a history variable of the proof. Nobody is told of an entry before the
  machine of the leader has it (`ToldApplied`), and a longest machine never gets shorter.
- `VotersProofs!VotersStay`: `StaticMembership` (no membership change is asked for and
  RAFT_PEERS is the same everywhere) implies `Spec => []FixedVoters`. FixedVoters is not
  inductive: a node takes the membership of any config entry and of any snapshot it
  receives. `SteadyInv` adds that no log, WAL or call holds a config entry and that
  every snapshot under way carries the founders.
- `VotersProofs!StaticOneLeader`, `StaticLogsMatch`, `StaticMatchesAreSound`,
  `StaticLeadersComplete`, `StaticStateMachinesAgree`, `StaticAckedStays` and
  `StaticClusterImplementsLog`: with StaticMembership, ElectionSafety holds of every
  behaviour, LogMatching as long as Uncompacted does, and MatchIndexSound,
  LeaderCompleteness, StateMachineSafety, AckedDurable and ImplementsThroughCrashes as long
  as Uncompacted and NoBlanks do.
- `VotersProofs!ReadsOfTwo`: under the premises of MatchesAreSound and with at most two
  voters, `[]ReadInv`; `StaticReadsAreCurrent` is `[]ReadsCurrent` with StaticMembership.
  A majority of two voters is both of them, so what was promised is in both
  logs. A leader that has committed an entry of its own term (`CurrentTermCommitted`) has
  committed all that was promised: what is of older terms stands before that entry
  (terms never fall along a log), and what is of its own term it has told itself
  (`PendingAtLeaders`). So an answer covers all that was promised before, and confirmations
  have no part in it. With three voters one of them may be leader of a later term without
  the old leader hearing of it; `stale_read` shows that the confirmations of the code do
  not exclude this, so that the premise cannot be dropped.

The premise `[]FixedVoters` says that all nodes know the same voters; the run `join`
checks ElectionSafety, LeaderAppendOnly, LeaderCompleteness, CommitMonotone and
MatchIndexSound where it does not hold.
`[]Uncompacted` says that no node has taken a snapshot; LogMatching is checked with
snapshots by `catchup`. `MCRaft_late_entries`, `MCRaft_wiped` and `MCRaft_impostor` violate
StateMachineSafety, AckedDurable and LeaderCompleteness with snapshots, so that for these
the premise cannot be dropped either. Recoverable does not hold once a node has handled an
InstallSnapshot (the instance of `MCRaft_reboot` violates it), so its premise cannot be
dropped. `[]NoBlanks` says that no node is stopped between taking an append and
answering it, which makes the answer a zero reply; `MCRaft_stopped` violates
MatchIndexSound and StateMachineSafety without it.

- `WALProofs!OnlyNewestUnsynced` and `PromisesKept`: `Spec => []GroupInv` and
  `Spec => []PromisedDurable`. With TypeOK the conjunction is inductive. PromisedDurable alone is not: a reply may promise
  what the sync before it did not cover. GroupInv says that all segments but the
  newest are synced (rotation syncs before it closes), that segments follow each
  other in the log, and that a flush under way covers its waiters.
- `WALProofs!WalImplementsDurableLog`: `Spec => ImplementsDurableLog`, from that
  invariant: an append extends the numbers of the records (`AppendExtends`), a
  crash cuts off nothing promised (`CrashLosesOnlyTheTail`), a reply promises a
  longer prefix or the same, and syncs and rotations are stutters.
- `TransferProofs!InstalledWholeHolds`: if at most one snapshot is larger than a chunk
  (`OneSplit`), `Spec => []InstalledWhole`. The invariant adds what the follower has not
  installed yet: an `Incoming` holds the first chunks of the snapshot that began it,
  because only a chunk of the one snapshot that has several can follow, and a stored
  file is whole. `OneSplit` is needed: `MCTransfer_mixed_chunks` has two snapshots of
  two chunks.
- `KVProofs!KVTypeCorrect`: `Spec => []TypeOK`.
- `KVProofs!EveryEffectOnce` and `KVProofs!SessionsFollowLog`: without late snapshots,
  `Spec => []EffectsOnce` and `Spec => []SessionsOfLog`, for any numbers. The data alone do
  not tell whether the next command is a duplicate. The invariant says of every machine and
  every snapshot that both its data and its sessions are those of the log (`Faithful`), and
  that no snapshot is ahead of its replica. `HitMeansNoEffect` is the heart: Check
  says hit exactly when the command must not take effect.
- `KVProofs!UnrivalledAnswersAreOwn`: without late snapshots, `Spec => []UnrivalledIsOwn`, for
  any numbers and any sharing of client_ids. The invariant says of every answer that it is
  the result, by the log, of the command at its index or of one of the same client_id with a
  number as large before it (`TrueAnswer`). If that one is no rival it is an attempt at the
  same request, and the answer is the caller's own.
- `KVProofs!AnswersAreOwn`: without late snapshots, `Spec /\ []Rising => []AnswerIsOwn`: as
  long as whoever waits waits for a command numbered above all others of its client_id, no
  answer is behind a rival. The code does not see to this premise, callers would have
  to. Without it `shared_id` violates AnswerIsOwn with rising numbers and two
  callers, and `MCKV_mixed_numbers` with one caller.
- `KVProofs!ServiceIsAtomicStore`: without late snapshots, `Spec => ImplementsAtomicStore`, for
  any numbers and any sharing of client_ids. The abstract store is what all commands of the
  log come to (`StoreNow`), not what some replica has applied, so that a command takes
  effect in the step that commits it, and applying, snapshots and restarts are stutters
  until somebody is told. That an answer is an effect of the log, the command's own or
  that of the one that overtook it, is `TrueAnswer`.

  Late snapshots have to be excluded in all of these: with them EffectsOnce and
  SessionsOfLog fail with three requests, and with four the answers. A replica that has
  applied a put, an anonymous delete and a numbered put, and is then given the snapshot of
  the first, deletes again, takes the put for a duplicate, and answers the fourth, a
  delete, that there was nothing to delete.
- `HistoryProofs!CheckAcceptsSound` and `HistoryProofs!CheckDecidesAnswered`:
  `Spec => []CheckIsSound` and `Spec => []CheckIsExact`, for any numbers of clients,
  calls, keys and values. Both follow from `CheckDecides`: Check accepts a history
  exactly when its answered calls have an order that is legal and keeps real time. The
  search is a function of the calls left and the state of the registers. `Orderable`,
  the relation that such an order exists, obeys the equation of the search (`Unfold`);
  a function that does exists, therefore, and there is only one, because a smallest set
  of calls at which two of them differ cannot be (`Searching`). Calls without an answer
  do nothing in Check and keep nobody back, so they can all go first (`FailedFirst`),
  which is also why Check is not complete for histories that have them.

Assumptions used: `PeersAssumption`, `LimitsAssumption`, `BoundsAssumption`,
`NoneAssumption` (a node knows itself; batch sizes are positive; `None` is no
node), `WalAssumption`, `TransferAssumption` and `KVAssumption` (types of the constants;
the empty client_id is a client_id), `HistoryAssumption` (no put writes the value that
stands for none). TLC evaluates them in every run.

Only model-checked: AppendReturns and InstalledWhenAlone, because the prover has no rule
for fairness; ImplementsReplicatedLog with snapshots (`catchup`) and with membership changes
(`join`), and the other safety properties where the premises above do not hold.

## 5. Plan

In this order; what is done is described above.

1. RaftLog, RaftNode, Raft, their runs, TypeCorrect, OneLeaderPerTerm (done).
2. DurableLog, WAL, their runs and proofs (done).
3. KVSessions, its runs and proofs (done).
4. Linearizable reads; ReplicatedLog and the refinement; SnapshotTransfer, its runs and
   proof; the linearizability checker (done).
5. HardState (the file against the records of the WAL); ChaosRpc; EventRing.
6. Proofs: FixedVoters without membership changes, LeaderAppendOnly, Recoverable and
   LogMatching, MatchIndexSound, LeaderCompleteness, StateMachineSafety, AckedDurable and
   CommitMonotone without snapshots; sessions that follow the log, and AnswerIsOwn for callers
   whose numbers rise;
   the refinements of ReplicatedLog and of AtomicStore; ReadsCurrent of two voters; the
   linearizability checker (done). Left: what holds
   with snapshots, LogMatching first; ElectionSafety across membership changes.

## 6. Not modelled

HTTP routes other than PUT and DELETE of a key, commands, configuration parsing, log
output and the web console translate or display and keep no protocol state. The clock package is not used by
the node. Traces, events and metrics do not feed back into the protocol.
