------------------------------ MODULE RaftNode ------------------------------
(***************************************************************************)
(* What a node keeps besides its hard state and role, and the steps its    *)
(* handlers are made of: appending, applying, committing, sending, reading,*)
(* local snapshots and membership (backend/internal/raft/{node,apply,      *)
(* progress,replication,readindex,snapshot,membership,hardstate}.go).      *)
(*                                                                         *)
(* Every operator here maps a node record to the record after the call of  *)
(* the same name; the calls a handler starts with `go` are collected in    *)
(* the field out.  A node runs one handler at a time (node.go, loop), so a *)
(* handler of module Raft is one composition of these operators.           *)
(***************************************************************************)
EXTENDS RaftLog, FiniteSets

CONSTANTS
    Server,         \* node ids
    None,           \* the empty NodeID, and the data of an entry without data
    Value,          \* the commands clients propose
    Peers,          \* Peers[i]: the ids in the RAFT_PEERS of node i
    MaxBatch,       \* entries in one AppendEntries call (64 in replication.go)
    SnapshotLogN    \* log length at which a node takes a snapshot

ASSUME PeersAssumption ==
    /\ Peers \in [Server -> SUBSET Server]
    /\ \A i \in Server : i \in Peers[i] /\ IsFiniteSet(Peers[i])

ASSUME LimitsAssumption == MaxBatch \in Nat \ {0} /\ SnapshotLogN \in Nat

Membership == [voters : SUBSET Server, learners : SUBSET Server]

Members(conf) == conf.voters \cup conf.learners

\* Mutant: half of the voters is enough.
QuorumOfHalf(conf) == Cardinality(conf.voters) \div 2

Quorum(conf) == Cardinality(conf.voters) \div 2 + 1

Entry(index, term, type, data) ==
    [index |-> index, term |-> term, type |-> type, data |-> data]

(***************************************************************************)
(* A node record.                                                          *)
(*   log         the log in memory                                         *)
(*   wal         the entries the write-ahead log gives back on a restart   *)
(*   snap        the newest snapshot of the snapshot store (index 0: none) *)
(*   commit, applied, sm                                                   *)
(*               commitIndex, lastApplied, and what maybeApply has applied *)
(*   waiting     the indexes of proposals, the clients not yet answered    *)
(*   acked       history: the entries whose proposer was told success      *)
(*   reads       the reads not yet answered                                *)
(*   missed      history: what answered reads should have seen, see Read   *)
(*   next, match, installing                                               *)
(*               prg: NextIndex (0: no Progress), MatchIndex, Snapshot     *)
(*   conf, pending                                                         *)
(*               conf and pendingConfIndex                                 *)
(*   out         the calls started by the running handler                  *)
(***************************************************************************)
NoSnapshot == [index |-> 0, term |-> 0, sm |-> <<>>]

NoProgress == [j \in Server |-> 0]

\* New: what a (re)started node rebuilds from its WAL entries w, its newest
\* snapshot s and the commit index c of its hard state.
Booted(i, w, s, c, acked, missed) ==
    LET log == IF s.index = 0 THEN w ELSE Compact(w, s.index, s.term)
    IN  [log |-> log, wal |-> w, snap |-> s,
         commit |-> c, applied |-> MinOf(log.snapIndex, c), sm |-> s.sm,
         waiting |-> {}, acked |-> acked, reads |-> {}, missed |-> missed,
         next |-> NoProgress, match |-> NoProgress,
         installing |-> [j \in Server |-> FALSE],
         conf |-> [voters |-> Peers[i], learners |-> {}], pending |-> 0,
         out |-> {}]

-----------------------------------------------------------------------------
(***************************************************************************)
(* Progress, and sending: sendAppend and sendSnapshot.                     *)
(***************************************************************************)

\* progressOf: the Progress of j, created at the end of the log if missing.
NextOf(n, j) == IF n.next[j] = 0 THEN LastIndex(n.log) + 1 ELSE n.next[j]

NeedsSnapshot(n, j) ==
    LET prev == NextOf(n, j) - 1
    IN  \/ n.installing[j]
        \/ prev < n.log.snapIndex
        \/ ~KnowsTerm(n.log, prev)

AppendCall(n, i, term, j) ==
    LET prev == NextOf(n, j) - 1
        all  == Slice(n.log, prev + 1, LastIndex(n.log))
    IN  [type |-> "AppendEntries", from |-> i, to |-> j, term |-> term,
         prevIndex |-> prev, prevTerm |-> Term(n.log, prev),
         ents |-> SubSeq(all, 1, MinOf(Len(all), MaxBatch)),
         commit |-> n.commit]

\* The chunks of one snapshot go out in one call; open: the caller waits for
\* the reply.
SnapshotCall(n, i, term, j) ==
    [type |-> "InstallSnapshot", from |-> i, to |-> j, term |-> term,
     snap |-> n.snap, conf |-> n.conf, open |-> TRUE]

\* Without a snapshot in the store sendSnapshot gives up.
CallTo(n, i, term, j) ==
    CASE ~NeedsSnapshot(n, j)                      -> {AppendCall(n, i, term, j)}
      [] NeedsSnapshot(n, j) /\ n.snap.index > 0   -> {SnapshotCall(n, i, term, j)}
      [] NeedsSnapshot(n, j) /\ n.snap.index = 0   -> {}

\* sendAppend to every node of J.
SendTo(n, i, term, J) ==
    [n EXCEPT
        !.next       = [j \in Server |-> IF j \in J THEN NextOf(n, j) ELSE n.next[j]],
        !.installing = [j \in Server |-> IF j \in J /\ NeedsSnapshot(n, j)
                                         THEN n.snap.index > 0 ELSE n.installing[j]],
        !.out        = @ \cup UNION {CallTo(n, i, term, j) : j \in J}]

\* bcastAppend (its callers are leaders).
Bcast(n, i, term) == SendTo(n, i, term, Members(n.conf) \ {i})

ResetProgress(n, i) ==
    LET last == LastIndex(n.log)
    IN  [n EXCEPT
            !.next  = [j \in Server |-> IF j \in Members(n.conf) THEN last + 1 ELSE 0],
            !.match = [j \in Server |-> IF j = i /\ i \in Members(n.conf) THEN last ELSE 0],
            !.installing = [j \in Server |-> FALSE]]

-----------------------------------------------------------------------------
(***************************************************************************)
(* Applying and committing.                                                *)
(***************************************************************************)

\* A pending linearizable read of a leader of term: the index it waits for and
\* the nodes that have confirmed the leader.  known is a history: the entries, at
\* any node, whose proposers had been told success when the read was asked.
Read(i, index, term, known) ==
    [index |-> index, acks |-> {i}, term |-> term, known |-> known]

\* What tryFinishReads asks of a read.  Every node that confirmed counts, also
\* one that is no voter.
Answerable(n, r) == n.applied >= r.index /\ Cardinality(r.acks) >= Quorum(n.conf)

\* The known entries the answer to r does not reflect.
Unseen(n, r) == {e \in r.known : \A x \in 1..Len(n.sm) : n.sm[x] # e}

TryFinishReads(n) ==
    LET Done == {r \in n.reads : Answerable(n, r)}
    IN  [n EXCEPT !.reads  = @ \ Done,
                  !.missed = @ \cup UNION {[term : {r.term}, entry : Unseen(n, r)] : r \in Done}]

\* ackReads: a successful AppendEntries reply of j confirms every pending read,
\* whenever its call was sent.
AckReads(n, j) ==
    TryFinishReads([n EXCEPT !.reads = {[r EXCEPT !.acks = @ \cup {j}] : r \in @}])

\* Mutant: a leader answers reads before it has committed in its term.
AnyTermCommitted(n, term) == n.commit > 0

\* currentTermCommitted (its caller is leader of term).
CurrentTermCommitted(n, term) ==
    /\ n.commit > 0
    /\ IF KnowsTerm(n.log, n.commit) THEN Term(n.log, n.commit) = term
                                     ELSE n.commit <= n.log.snapIndex

\* The loop of maybeApply in closed form: skip what a snapshot covers, then apply
\* the entries the log has up to the commit index and answer their proposers.
ApplyCommitted(n) ==
    LET base == n.log.snapIndex
        from == IF n.applied < n.commit
                THEN MaxOf(n.applied, MinOf(base, n.commit)) ELSE n.applied
        to   == MinOf(n.commit, base + Len(n.log.ents))
        run  == SubSeq(n.log.ents, from - base + 1, to - base)
    IN  IF from < base \/ to <= from THEN [n EXCEPT !.applied = from]
        ELSE [n EXCEPT
                !.applied = to,
                !.sm      = @ \o run,
                !.acked   = @ \cup {run[k] : k \in {x \in 1..(to - from) : from + x \in n.waiting}},
                !.waiting = @ \ (from + 1 .. to)]

MaybeApply(n) == TryFinishReads(ApplyCommitted(n))

\* Mutant: what was sent counts as replicated.
ReplicatedWhenSent(n, i, x) ==
    {j \in n.conf.voters : IF j = i THEN LastIndex(n.log) >= x ELSE n.next[j] >= x}

\* replicated(idx), as the set of voters it counts.
Replicated(n, i, x) ==
    {j \in n.conf.voters : IF j = i THEN LastIndex(n.log) >= x ELSE n.match[j] >= x}

Committable(n, i, term) ==
    {x \in n.commit + 1 .. LastIndex(n.log) :
        /\ Has(n.log, x)
        /\ Term(n.log, x) = term
        /\ Cardinality(Replicated(n, i, x)) >= Quorum(n.conf)}

\* maybeCommit (its callers are leaders of term).
MaybeCommit(n, i, term) ==
    LET C == Committable(n, i, term)
    IN  IF C = {} THEN n
        ELSE MaybeApply([n EXCEPT !.commit = CHOOSE x \in C : \A y \in C : y <= x])

-----------------------------------------------------------------------------
(***************************************************************************)
(* Appending and membership.                                               *)
(***************************************************************************)

\* applyConfigBytes: the membership m takes effect, new members get a Progress.
ApplyConfig(n, m) ==
    [n EXCEPT
        !.conf = m,
        !.next = [j \in Server |-> IF j \in Members(m) THEN NextOf(n, j) ELSE n.next[j]]]

AppendData(n, i, term, type, data) ==
    LET e == Entry(LastIndex(n.log) + 1, term, type, data)
        a == [n EXCEPT !.log      = AppendTo(@, <<e>>),
                       !.wal      = Replay(@, <<e>>),
                       !.match[i] = IF n.next[i] # 0 THEN e.index ELSE @,
                       !.next[i]  = IF @ # 0 THEN e.index + 1 ELSE 0]
    IN  IF type = "config" THEN [ApplyConfig(a, data) EXCEPT !.pending = e.index] ELSE a

\* appendData, maybeCommit, bcastAppend: how a leader takes a new entry.
Accept(n, i, term, type, data) ==
    Bcast(MaybeCommit(AppendData(n, i, term, type, data), i, term), i, term)

Promoted(conf, j) ==
    [voters |-> conf.voters \cup {j}, learners |-> conf.learners \ {j}]

MaybePromoteLearner(n, i, term, j) ==
    IF /\ j \in n.conf.learners
       /\ n.pending <= n.commit
       /\ n.match[j] >= LastIndex(n.log)
    THEN Accept(n, i, term, "config", Promoted(n.conf, j))
    ELSE n

-----------------------------------------------------------------------------
(***************************************************************************)
(* Snapshots.                                                              *)
(***************************************************************************)

\* Store.Save then Latest: the newest snapshot is the one of the largest index.
Saved(old, new) == IF new.index >= old.index THEN new ELSE old

MaybeSnapshot(n) ==
    IF Len(n.log.ents) < SnapshotLogN \/ n.applied <= n.log.snapIndex THEN n
    ELSE LET term == IF KnowsTerm(n.log, n.applied)
                     THEN Term(n.log, n.applied) ELSE n.log.snapTerm
         IN  [n EXCEPT
                !.snap = Saved(@, [index |-> n.applied, term |-> term, sm |-> n.sm]),
                !.log  = Compact(@, n.applied, term)]

\* What every tick ends with.
Housekeeping(n) == MaybeSnapshot(MaybeApply(n))

\* Mutant: the state machine is not restored from the installed snapshot.
InstallKeepsMachine(n, s, m) ==
    [n EXCEPT !.snap    = Saved(@, s),
              !.log     = Restore(s.index, s.term),
              !.commit  = MaxOf(@, s.index),
              !.applied = s.index]

\* The installation of a complete snapshot s with membership m.
Install(n, s, m) ==
    LET store == Saved(n.snap, s)
    IN  [n EXCEPT
            !.snap    = store,
            !.sm      = store.sm,
            !.log     = Restore(s.index, s.term),
            !.commit  = MaxOf(@, s.index),
            !.applied = s.index,
            !.conf    = IF m.voters # {} THEN m ELSE @]

-----------------------------------------------------------------------------
(***************************************************************************)
(* What a follower does with the entries of an accepted AppendEntries.     *)
(***************************************************************************)
TakeEntries(n, es) ==
    LET added   == Appended(n.log, es)
        Configs == {k \in 1..Len(added) : added[k].type = "config"}
        a       == [n EXCEPT !.log = Merge(@, es),
                             !.wal = Replay(Replay(@, Stale(n.log, es)), Fresh(n.log, es))]
    IN  IF Configs = {} THEN a
        ELSE ApplyConfig(a, added[CHOOSE k \in Configs : \A x \in Configs : x <= k].data)

\* Mutant: a smaller LeaderCommit is taken over, too.
FollowCommitBack(n, c) == MaybeApply([n EXCEPT !.commit = MinOf(c, LastIndex(n.log))])

\* Mutant: the commit index may run ahead of the log.
FollowCommitAhead(n, c) == IF c > n.commit THEN MaybeApply([n EXCEPT !.commit = c]) ELSE n

FollowCommit(n, c) ==
    IF c > n.commit THEN MaybeApply([n EXCEPT !.commit = MinOf(c, LastIndex(n.log))]) ELSE n
=============================================================================
