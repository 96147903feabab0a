---------------------------- MODULE VotersProofs ----------------------------
(***************************************************************************)
(* Who votes when nobody changes the membership: nodes that start with the *)
(* same RAFT_PEERS know the same voters for ever, because no log, no WAL,  *)
(* no call and no snapshot ever carries another membership.  With it the   *)
(* theorems that suppose fixed voters hold of every behaviour.             *)
(* The second half is about linearizable reads of at most two voters.      *)
(***************************************************************************)
EXTENDS CommitProofs

Founding == [voters |-> Voters, learners |-> {}]

\* No client asks for a membership change, and RAFT_PEERS is the same everywhere.
StaticMembership == Changes = {} /\ \A i \in Server : Peers[i] = Voters

\* The entries that are no membership.
Commands == {e \in Entries : e.type # "config"}

CommandLogs == [snapIndex : Nat, snapTerm : Nat, ents : Seq(Commands)]

-----------------------------------------------------------------------------
(***************************************************************************)
(* Logs without memberships stay so.                                       *)
(***************************************************************************)
LEMMA CommandSeqs ==
    ASSUME NEW es \in Seq(Commands)
    PROVE  es \in Seq(Entries)
BY DEF Commands

LEMMA CommandLogTypes ==
    ASSUME NEW log \in CommandLogs
    PROVE  /\ log \in Logs /\ log.ents \in Seq(Commands) /\ log.ents \in Seq(Entries)
           /\ log.snapIndex \in Nat /\ Len(log.ents) \in Nat
<1>1. log.ents \in Seq(Commands) /\ log.snapIndex \in Nat /\ Len(log.ents) \in Nat
  BY DEF CommandLogs
<1>2. log.ents \in Seq(Entries)
  BY <1>1, CommandSeqs
<1> QED BY <1>1, <1>2 DEF CommandLogs, Logs

LEMMA CommandParts ==
    ASSUME NEW es \in Seq(Commands), NEW a \in 1..Len(es) + 1, NEW b \in a - 1 .. Len(es)
    PROVE  SubSeq(es, a, b) \in Seq(Commands)
BY SubSeqProperties

LEMMA AppendCommands ==
    ASSUME NEW log \in CommandLogs, NEW es \in Seq(Commands)
    PROVE  AppendTo(log, es) \in CommandLogs
BY ConcatProperties DEF AppendTo, CommandLogs

LEMMA TruncateCommands ==
    ASSUME NEW log \in CommandLogs, NEW i \in Int
    PROVE  TruncateFrom(log, i) \in CommandLogs
<1> DEFINE keep == i - log.snapIndex - 1
           n    == Len(log.ents)
<1>1. n \in Nat /\ keep \in Int /\ log.ents \in Seq(Commands) /\ <<>> \in Seq(Commands)
  BY DEF CommandLogs
<1>2. \A es \in Seq(Commands) : [log EXCEPT !.ents = es] \in CommandLogs
  BY DEF CommandLogs
<1>3. CASE keep <= 0
  BY <1>3, <1>1, <1>2 DEF TruncateFrom
<1>4. CASE keep > 0 /\ keep >= n
  BY <1>4, <1>1 DEF TruncateFrom
<1>5. CASE keep > 0 /\ keep < n
  <2>1. SubSeq(log.ents, 1, keep) \in Seq(Commands)
    BY <1>1, <1>5, CommandParts
  <2>2. TruncateFrom(log, i) = [log EXCEPT !.ents = SubSeq(log.ents, 1, keep)]
    BY <1>5, <1>1 DEF TruncateFrom
  <2> QED BY <2>1, <2>2, <1>2
<1> QED BY <1>1, <1>3, <1>4, <1>5

LEMMA CompactCommands ==
    ASSUME NEW log \in CommandLogs, NEW i \in Nat, NEW t \in Nat
    PROVE  Compact(log, i, t) \in CommandLogs
<1> DEFINE off == i - log.snapIndex
           n   == Len(log.ents)
<1>1. n \in Nat /\ off \in Int /\ log.ents \in Seq(Commands) /\ <<>> \in Seq(Commands)
  BY DEF CommandLogs
<1>2. off > 0 /\ off <= n => SubSeq(log.ents, off + 1, n) \in Seq(Commands)
  BY <1>1, CommandParts
<1> QED BY <1>1, <1>2 DEF Compact, CommandLogs

LEMMA StaleCommands ==
    ASSUME NEW log \in CommandLogs, NEW es \in Seq(Commands)
    PROVE  Stale(log, es) \in Seq(Commands)
<1>1. Covered(log, es) \in 0..Len(es) /\ Len(es) \in Nat
  BY CommandLogTypes, CommandSeqs, CoveredType
<1> QED BY <1>1, CommandParts DEF Stale

LEMMA FreshCommands ==
    ASSUME NEW log \in CommandLogs, NEW es \in Seq(Commands)
    PROVE  Fresh(log, es) \in Seq(Commands)
<1> DEFINE base == AppendTo(log, Stale(log, es))
           News == {k \in Covered(log, es) + 1 .. Len(es) :
                       Has(base, es[k].index) => At(base, es[k].index).term # es[k].term}
           first == CHOOSE k \in News : \A j \in News : k <= j
<1>1. Covered(log, es) \in 0..Len(es) /\ Len(es) \in Nat
  BY CommandLogTypes, CommandSeqs, CoveredType
<1>2. CASE News = {}
  BY <1>2 DEF Fresh
<1>3. CASE News # {}
  <2>1. News \in SUBSET Int /\ IsFiniteSet(News)
    <3>1. News \subseteq Covered(log, es) + 1 .. Len(es) /\ Covered(log, es) + 1 \in Int /\ Len(es) \in Int
      BY <1>1
    <3> QED BY ONLY <3>1, FS_Interval, FS_Subset
  <2>2. first \in News
    BY <2>1, <1>3, MinExists
  <2>3. first \in 1..Len(es)
    BY <1>1, <2>2
  <2>4. Fresh(log, es) = SubSeq(es, first, Len(es))
    BY <1>3 DEF Fresh
  <2> HIDE DEF first
  <2>5. first \in 1..Len(es) + 1 /\ Len(es) \in first - 1 .. Len(es)
    BY <1>1, <2>3
  <2> QED BY <2>4, <2>5, CommandParts
<1> QED BY <1>2, <1>3

LEMMA MergeCommands ==
    ASSUME NEW log \in CommandLogs, NEW es \in Seq(Commands)
    PROVE  Merge(log, es) \in CommandLogs
<1> DEFINE base  == AppendTo(log, Stale(log, es))
           fresh == Fresh(log, es)
<1>1. base \in CommandLogs /\ fresh \in Seq(Commands)
  BY StaleCommands, FreshCommands, AppendCommands
<1>2. Merge(log, es) = IF fresh = <<>> THEN base
                       ELSE AppendTo(TruncateFrom(base, fresh[1].index), fresh)
  BY DEF Merge
<1> HIDE DEF base, fresh
<1>3. fresh # <<>> => fresh[1].index \in Int
  BY <1>1, CommandSeqs DEF Entries
<1>4. fresh # <<>> => TruncateFrom(base, fresh[1].index) \in CommandLogs
  BY <1>1, <1>3, TruncateCommands
<1> QED BY <1>1, <1>2, <1>4, AppendCommands

LEMMA ReplayCommands ==
    ASSUME NEW wal \in CommandLogs, NEW run \in Seq(Commands)
    PROVE  Replay(wal, run) \in CommandLogs
<1>1. run # <<>> => run[1].index \in Int
  BY CommandSeqs DEF Entries
<1>2. run # <<>> => TruncateFrom(wal, run[1].index) \in CommandLogs
  BY <1>1, TruncateCommands
<1> QED BY <1>2, AppendCommands DEF Replay

LEMMA SliceCommands ==
    ASSUME NEW log \in CommandLogs, NEW lo \in Int, NEW hi \in Int
    PROVE  Slice(log, lo, hi) \in Seq(Commands)
<1> DEFINE from == MaxOf(lo, log.snapIndex + 1)
           to   == MinOf(MinOf(hi, LastIndex(log)), log.snapIndex + Len(log.ents))
<1>0. LastIndex(log) \in Nat /\ log.snapIndex \in Nat /\ Len(log.ents) \in Nat
  BY CommandLogTypes, LogReads
<1>1. from \in Int /\ to \in Int /\ from >= log.snapIndex + 1 /\ to <= log.snapIndex + Len(log.ents)
  BY <1>0 DEF MinOf, MaxOf
<1> HIDE DEF from, to
<1>2. CASE from > to
  BY <1>2 DEF Slice, from, to
<1>3. CASE ~(from > to)
  <2>1. /\ from - log.snapIndex \in 1..Len(log.ents) + 1
        /\ to - log.snapIndex \in (from - log.snapIndex) - 1 .. Len(log.ents)
    BY <1>0, <1>1, <1>3
  <2>2. SubSeq(log.ents, from - log.snapIndex, to - log.snapIndex) \in Seq(Commands)
    BY <2>1, CommandLogTypes, CommandParts
  <2> QED BY <1>3, <2>2 DEF Slice, from, to
<1> QED BY <1>2, <1>3

-----------------------------------------------------------------------------
(***************************************************************************)
(* A node that knows the founding voters only.                             *)
(***************************************************************************)
Harmless(m) ==
    /\ m.type = "AppendEntries" => m.ents \in Seq(Commands)
    /\ m.type = "InstallSnapshot" => m.conf = Founding

Steady(n) ==
    /\ n \in Nodes
    /\ n.conf = Founding
    /\ n.log \in CommandLogs /\ n.wal \in CommandLogs
    /\ \A c \in n.out : Harmless(c)

\* Nothing that Steady looks at has changed.
Alike(n, b) == Quiet(n, b) /\ b.conf = n.conf

LEMMA AlikeSteady ==
    ASSUME NEW n, Steady(n), NEW b \in Nodes, Alike(n, b)
    PROVE  Steady(b)
BY DEF Steady, Alike, Quiet

LEMMA SameConf ==
    ASSUME NEW n \in Nodes, NEW i \in Server, NEW term \in Nat
    PROVE  /\ TryFinishReads(n).conf = n.conf /\ MaybeApply(n).conf = n.conf
           /\ \A j \in Server : AckReads(n, j).conf = n.conf
           /\ MaybeCommit(n, i, term).conf = n.conf /\ FailPending(n).conf = n.conf
           /\ ResetProgress(n, i).conf = n.conf
           /\ \A c \in Nat : FollowCommit(n, c).conf = n.conf
<1>1. \A b \in Nodes : TryFinishReads(b).conf = b.conf
  BY DEF TryFinishReads, Nodes
<1>2. \A b \in Nodes : ApplyCommitted(b).conf = b.conf
  BY DEF ApplyCommitted, Nodes
<1>3. \A b \in Nodes : MaybeApply(b).conf = b.conf
  BY <1>1, <1>2, ApplyCommittedType DEF MaybeApply
<1>4. ASSUME NEW j \in Server PROVE AckReads(n, j).conf = n.conf
  BY DEF AckReads, TryFinishReads, Nodes
<1>5. ASSUME NEW c \in Nat PROVE MaybeApply([n EXCEPT !.commit = c]).conf = n.conf
  <2> DEFINE b == [n EXCEPT !.commit = c]
  <2>1. b \in Nodes /\ b.conf = n.conf
    BY DEF Nodes
  <2> HIDE DEF b
  <2>2. MaybeApply(b).conf = n.conf
    BY <2>1, <1>3
  <2> QED BY <2>2 DEF b
<1>6. MaybeCommit(n, i, term).conf = n.conf
  BY <1>5, CommittablePick DEF MaybeCommit
<1>7. ASSUME NEW c \in Nat PROVE FollowCommit(n, c).conf = n.conf
  <2>1. MinOf(c, LastIndex(n.log)) \in Nat
    <3>1. LastIndex(n.log) \in Nat
      BY LogReads DEF Nodes
    <3> QED BY <3>1 DEF MinOf
  <2> QED BY <2>1, <1>5 DEF FollowCommit
<1>8. FailPending(n).conf = n.conf /\ ResetProgress(n, i).conf = n.conf
  BY DEF FailPending, ResetProgress, Nodes
<1> QED BY <1>1, <1>3, <1>4, <1>6, <1>7, <1>8

LEMMA SteadySteps ==
    ASSUME NEW n, Steady(n), NEW i \in Server, NEW term \in Nat
    PROVE  /\ Steady(TryFinishReads(n)) /\ Steady(MaybeApply(n))
           /\ \A j \in Server : Steady(AckReads(n, j))
           /\ Steady(MaybeCommit(n, i, term)) /\ Steady(FailPending(n))
           /\ Steady(ResetProgress(n, i))
           /\ \A c \in Nat : Steady(FollowCommit(n, c))
<1>1. n \in Nodes
  BY DEF Steady
<1>2. Steady(TryFinishReads(n)) /\ Steady(MaybeApply(n))
  BY <1>1, QuietSteps, SameConf, TryFinishReadsType, MaybeApplyType, AlikeSteady DEF Alike
<1>3. \A j \in Server : Steady(AckReads(n, j))
  BY <1>1, QuietSteps, SameConf, AckReadsType, AlikeSteady DEF Alike
<1>4. Steady(MaybeCommit(n, i, term)) /\ Steady(FailPending(n))
  BY <1>1, QuietSteps, SameConf, MaybeCommitType, FailPendingType, AlikeSteady DEF Alike
<1>5. Steady(ResetProgress(n, i))
  BY <1>1, QuietSteps, SameConf, ResetProgressType, AlikeSteady DEF Alike
<1>6. \A c \in Nat : Steady(FollowCommit(n, c))
  BY <1>1, QuietSteps, SameConf, FollowCommitType, AlikeSteady DEF Alike
<1> QED BY <1>2, <1>3, <1>4, <1>5, <1>6

\* What a steady node sends is harmless: entries of its log, or its membership.
LEMMA HarmlessCalls ==
    ASSUME NEW n, Steady(n), NEW i \in Server, NEW term \in Nat, NEW j \in Server,
           NEW c \in CallTo(n, i, term, j)
    PROVE  Harmless(c)
<1>1. n \in Nodes /\ n.conf = Founding /\ n.log \in CommandLogs /\ n.snap.index \in Nat
  BY DEF Steady, Nodes, Snapshots
<1>2. CASE c = SnapshotCall(n, i, term, j)
  BY <1>1, <1>2 DEF SnapshotCall, Harmless
<1>3. CASE c = AppendCall(n, i, term, j)
  <2> DEFINE prev == NextOf(n, j) - 1
             all  == Slice(n.log, prev + 1, LastIndex(n.log))
             k    == MinOf(Len(all), MaxBatch)
  <2>1. prev + 1 \in Int /\ LastIndex(n.log) \in Int
    <3>1. NextOf(n, j) \in Nat /\ n.log \in Logs
      BY <1>1, NextOfType DEF Nodes
    <3>2. LastIndex(n.log) \in Nat
      BY <3>1, LogReads
    <3> QED BY <3>1, <3>2
  <2>2. all \in Seq(Commands)
    BY <1>1, <2>1, SliceCommands
  <2>3. c.type = "AppendEntries" /\ c.ents = SubSeq(all, 1, k)
    BY <1>3 DEF AppendCall
  <2> HIDE DEF all
  <2>4. k \in 0..Len(all)
    BY <2>2, LimitsAssumption DEF MinOf
  <2> HIDE DEF k
  <2>5. SubSeq(all, 1, k) \in Seq(Commands)
    BY <2>2, <2>4, CommandParts
  <2> QED BY <2>3, <2>5 DEF Harmless
<1>4. c = AppendCall(n, i, term, j) \/ c = SnapshotCall(n, i, term, j)
  BY <1>1 DEF CallTo
<1> QED BY <1>2, <1>3, <1>4

LEMMA SteadySends ==
    ASSUME NEW n, Steady(n), NEW i \in Server, NEW term \in Nat, NEW J \in SUBSET Server
    PROVE  Steady(SendTo(n, i, term, J))
<1> DEFINE b == SendTo(n, i, term, J)
<1>1. n \in Nodes /\ b \in Nodes
  BY SendToType DEF Steady
<1>2. /\ b.log = n.log /\ b.wal = n.wal /\ b.conf = n.conf
      /\ b.out = n.out \cup UNION {CallTo(n, i, term, j) : j \in J}
  BY <1>1 DEF SendTo, Nodes
<1> HIDE DEF b
<1>3. \A c \in b.out : Harmless(c)
  BY <1>2, HarmlessCalls DEF Steady
<1>4. Steady(b)
  BY <1>1, <1>2, <1>3 DEF Steady
<1> QED BY <1>4 DEF b

LEMMA SteadyBroadcasts ==
    ASSUME NEW n, Steady(n), NEW i \in Server, NEW term \in Nat
    PROVE  Steady(Bcast(n, i, term))
<1>1. Members(n.conf) \ {i} \in SUBSET Server
  BY DEF Steady, Members, Nodes, Membership
<1> QED BY <1>1, SteadySends DEF Bcast

LEMMA SteadyAppends ==
    ASSUME NEW n, Steady(n), NEW i \in Server, NEW term \in Nat,
           NEW type \in {"normal", "noop"}, NEW data \in Value \cup {None}
    PROVE  /\ Steady(AppendData(n, i, term, type, data))
           /\ Steady(Accept(n, i, term, type, data))
<1> DEFINE x == LastIndex(n.log) + 1
           e == Entry(x, term, type, data)
           b == AppendData(n, i, term, type, data)
<1>1. n \in Nodes /\ n.log \in CommandLogs /\ n.wal \in CommandLogs
  BY DEF Steady
<1>2. x \in Nat
  <2>1. LastIndex(n.log) \in Nat
    BY <1>1, LogReads DEF Nodes
  <2> QED BY <2>1
<1>3. e \in Commands
  BY <1>2 DEF Entry, Entries, Commands
<1>4. <<type, data>> \in Payloads /\ type # "config"
  BY DEF Payloads
<1>5. b \in Nodes
  BY <1>1, <1>4, AppendDataType
<1>6. b.log = AppendTo(n.log, <<e>>) /\ b.wal = Replay(n.wal, <<e>>) /\ b.conf = n.conf /\ b.out = n.out
  BY <1>1, <1>4 DEF AppendData, Nodes
<1> HIDE DEF e, b
<1>7. <<e>> \in Seq(Commands)
  BY <1>3
<1>8. b.log \in CommandLogs /\ b.wal \in CommandLogs
  BY <1>1, <1>6, <1>7, AppendCommands, ReplayCommands
<1>9. Steady(b)
  BY <1>5, <1>6, <1>8 DEF Steady
<1>10. Steady(Bcast(MaybeCommit(b, i, term), i, term))
  BY <1>9, SteadySteps, SteadyBroadcasts
<1> QED BY <1>9, <1>10 DEF Accept, b

\* There is no learner to promote.
LEMMA NobodyPromoted ==
    ASSUME NEW n, Steady(n), NEW i, NEW term, NEW j
    PROVE  MaybePromoteLearner(n, i, term, j) = n
BY DEF Steady, Founding, MaybePromoteLearner

LEMMA SteadyElected ==
    ASSUME NEW n, Steady(n), NEW i \in Server, NEW term \in Nat
    PROVE  Steady(Elected(n, i, term))
BY SteadySteps, SteadyAppends DEF Elected

LEMMA SteadyHousekeeping ==
    ASSUME NEW n, Steady(n), NEW i \in Server
    PROVE  Steady(Housekeeping(n))
<1> DEFINE a == MaybeApply(n)
           t == IF KnowsTerm(a.log, a.applied) THEN Term(a.log, a.applied) ELSE a.log.snapTerm
           b == MaybeSnapshot(a)
<1>1. Steady(a)
  <2>1. 0 \in Nat
    OBVIOUS
  <2> QED BY <2>1, SteadySteps
<1> HIDE DEF a
<1>2. a \in Nodes /\ a.applied \in Nat /\ a.log \in CommandLogs /\ a.log.snapTerm \in Nat
  BY <1>1 DEF Steady, Nodes, CommandLogs
<1>3. t \in Nat
  <2>1. Term(a.log, a.applied) \in Nat
    BY <1>2, LogReads DEF Nodes
  <2> QED BY <1>2, <2>1
<1>4. b \in Nodes
  BY <1>2, MaybeSnapshotType
<1>5. /\ b.log = a.log \/ b.log = Compact(a.log, a.applied, t)
      /\ b.wal = a.wal /\ b.conf = a.conf /\ b.out = a.out
  BY <1>2 DEF MaybeSnapshot, Nodes
<1> HIDE DEF t, b
<1>6. b.log \in CommandLogs
  BY <1>2, <1>3, <1>5, CompactCommands
<1>7. Steady(b)
  BY <1>1, <1>4, <1>5, <1>6 DEF Steady
<1> QED BY <1>7 DEF Housekeeping, a, b

LEMMA SteadyTakes ==
    ASSUME NEW n, Steady(n), NEW es \in Seq(Commands)
    PROVE  Steady(TakeEntries(n, es))
<1> DEFINE added == Appended(n.log, es)
           b == TakeEntries(n, es)
<1>1. n \in Nodes /\ n.log \in CommandLogs /\ n.wal \in CommandLogs
  BY DEF Steady
<1>2. Stale(n.log, es) \in Seq(Commands) /\ Fresh(n.log, es) \in Seq(Commands)
  BY <1>1, StaleCommands, FreshCommands
<1>3. Merge(n.log, es) \in CommandLogs
  BY <1>1, MergeCommands
<1>4. Replay(Replay(n.wal, Stale(n.log, es)), Fresh(n.log, es)) \in CommandLogs
  BY <1>1, <1>2, ReplayCommands
<1>5. added \in Seq(Commands)
  BY <1>2, ConcatProperties DEF Appended
<1>6. \A k \in 1..Len(added) : added[k].type # "config"
  BY <1>5 DEF Commands
<1> HIDE DEF added
<1>7. {k \in 1..Len(added) : added[k].type = "config"} = {}
  BY <1>6
<1>8. b = [n EXCEPT !.log = Merge(@, es),
                    !.wal = Replay(Replay(@, Stale(n.log, es)), Fresh(n.log, es))]
  BY <1>7 DEF TakeEntries, added
<1>9. b \in Nodes
  BY <1>1, CommandSeqs, TakeEntriesType
<1>10. /\ b.log = Merge(n.log, es) /\ b.conf = n.conf /\ b.out = n.out
       /\ b.wal = Replay(Replay(n.wal, Stale(n.log, es)), Fresh(n.log, es))
  BY <1>1, <1>8 DEF Nodes
<1> HIDE DEF b
<1>11. Steady(b)
  BY <1>3, <1>4, <1>9, <1>10 DEF Steady
<1> QED BY <1>11 DEF b

LEMMA SteadyInstalls ==
    ASSUME NEW n, Steady(n), NEW s \in Snapshots, NEW m \in Membership, m = Founding
    PROVE  Steady(Install(n, s, m))
<1> DEFINE b == Install(n, s, m)
<1>1. n \in Nodes /\ n.conf = Founding
  BY DEF Steady
<1>2. b \in Nodes
  BY <1>1, InstallType
<1>3. Restore(s.index, s.term) \in CommandLogs
  BY DEF Restore, CommandLogs, Snapshots
<1>4. b.log = Restore(s.index, s.term) /\ b.wal = n.wal /\ b.conf = Founding /\ b.out = n.out
  BY <1>1 DEF Install, Nodes
<1> HIDE DEF b
<1>5. Steady(b)
  BY <1>2, <1>3, <1>4 DEF Steady
<1> QED BY <1>5 DEF b

\* Changes of nothing but the progress of a peer.
LEMMA SteadyProgress ==
    ASSUME NEW n, Steady(n), NEW b \in Nodes,
           b.log = n.log, b.wal = n.wal, b.conf = n.conf, b.out = n.out
    PROVE  Steady(b)
BY DEF Steady

LEMMA SteadyAcknowledged ==
    ASSUME NEW n, Steady(n), NEW i \in Server, NEW term \in Nat, NEW m \in AppendReplies
    PROVE  Steady(Acknowledged(n, i, term, m))
<1> DEFINE j     == m.from
           match == CASE m.match > n.match[j]                             -> m.match
                      [] m.match <= n.match[j] /\ m.hint - 1 > n.match[j] -> m.hint - 1
                      [] OTHER                                            -> n.match[j]
           next == match + 1
           c == [n EXCEPT !.match[j] = match, !.next[j] = next]
           k == AckReads(c, j)
           a == MaybeCommit(k, i, term)
           b == IF next <= LastIndex(a.log) THEN SendTo(a, i, term, {j}) ELSE a
<1>1. n \in Nodes /\ j \in Server /\ m.match \in Nat /\ m.hint \in Nat /\ n.match[j] \in Nat
  BY DEF AppendReplies, Nodes, Steady
<1>2. match \in Nat
  BY <1>1
<1> HIDE DEF match
<1>3. next \in Nat
  BY <1>2
<1> HIDE DEF next
<1>4. c \in Nodes
  BY <1>1, <1>2, <1>3, ProgressType
<1>5. c.log = n.log /\ c.wal = n.wal /\ c.conf = n.conf /\ c.out = n.out
  BY <1>1 DEF Nodes
<1> HIDE DEF c
<1>6. Steady(k)
  <2>1. Steady(c)
    BY <1>4, <1>5, SteadyProgress
  <2> QED BY <1>1, <2>1, SteadySteps
<1> HIDE DEF k
<1>7. Steady(a)
  BY <1>6, SteadySteps
<1> HIDE DEF a
<1>8. Steady(b)
  BY <1>1, <1>7, SteadySends
<1> HIDE DEF b
<1>9. Acknowledged(n, i, term, m) = MaybePromoteLearner(b, i, term, j)
  BY DEF Acknowledged, b, a, k, c, next, match
<1> QED BY <1>8, <1>9, NobodyPromoted

LEMMA SteadyBackedUp ==
    ASSUME NEW n, Steady(n), NEW i \in Server, NEW term \in Nat, NEW m \in AppendReplies
    PROVE  Steady(BackedUp(n, i, term, m))
<1> DEFINE j    == m.from
           last == LastIndexOfTerm(n.log, m.conflictTerm)
           next == CASE m.conflictTerm # 0 /\ last > 0 -> last + 1
                     [] ~(m.conflictTerm # 0 /\ last > 0) /\ m.conflictIndex > 0 -> m.conflictIndex
                     [] OTHER -> MaxOf(NextOf(n, j) - 1, 1)
           c == [n EXCEPT !.next[j] = next]
<1>1. n \in Nodes /\ j \in Server
  BY DEF AppendReplies, Steady
<1>2. next \in Nat
  BY <1>1, BackedUpNext
<1> HIDE DEF next
<1>3. c \in Nodes /\ c.log = n.log /\ c.wal = n.wal /\ c.conf = n.conf /\ c.out = n.out
  BY <1>1, <1>2, ProgressType DEF Nodes
<1> HIDE DEF c
<1>4. Steady(c)
  BY <1>3, SteadyProgress
<1>5. Steady(SendTo(c, i, term, {j}))
  BY <1>1, <1>4, SteadySends
<1> QED BY <1>5 DEF BackedUp, c, next, last

-----------------------------------------------------------------------------
(***************************************************************************)
(* The invariant: every node is steady, every message harmless.            *)
(***************************************************************************)
SteadyInv ==
    /\ \A i \in Server : Steady(node[i])
    /\ \A m \in msgs : Harmless(m)

LEMMA FinishSteady ==
    ASSUME TypeOK, SteadyInv, NEW i \in Server, NEW n, Steady(n), NEW done, NEW replies, NEW calls,
           Finish(i, n, done, replies, calls),
           \A m \in replies \cup calls : Harmless(m)
    PROVE  SteadyInv'
<1> DEFINE sent == {x \in (msgs \ done) \cup replies : Live(x)}
           rest == [n EXCEPT !.out = {}]
<1>1. node' = [node EXCEPT ![i] = rest] /\ msgs' \in Networks(sent, calls \cup n.out)
  BY DEF Finish
<1>2. rest \in Nodes /\ rest.log = n.log /\ rest.wal = n.wal /\ rest.conf = n.conf /\ rest.out = {}
  BY DEF Steady, Nodes
<1> HIDE DEF rest
<1>3. Steady(rest)
  BY <1>2 DEF Steady
<1>4. \A j \in Server : Steady(node'[j])
  BY <1>1, <1>3 DEF TypeOK, SteadyInv
<1>5. sent \subseteq msgs \cup replies
  OBVIOUS
<1> HIDE DEF sent
<1>6. \A m \in msgs' : m \in msgs \/ m \in replies \cup calls \/ m \in n.out
  BY <1>1, <1>5, NetworksBound
<1>7. \A m \in n.out : Harmless(m)
  BY DEF Steady
<1>8. \A m \in msgs' : Harmless(m)
  BY <1>6, <1>7 DEF SteadyInv
<1>9. (\A j \in Server : Steady(node[j]))'
  BY <1>4 DEF Steady
<1>10. (\A m \in msgs : Harmless(m))'
  BY <1>8 DEF Harmless
<1> QED BY <1>9, <1>10 DEF SteadyInv

\* A handler that replies and sends nothing of its own accord.
LEMMA LocalSteady ==
    ASSUME TypeOK, SteadyInv, NEW i \in Server, NEW n, Steady(n), NEW done,
           Finish(i, n, done, {}, {})
    PROVE  SteadyInv'
<1> DEFINE none == {}
<1>1. Finish(i, n, done, none, none) /\ \A m \in none \cup none : Harmless(m)
  OBVIOUS
<1> HIDE DEF none
<1> QED BY <1>1, FinishSteady

LEMMA OthersHarmless ==
    ASSUME NEW m, m.type \notin {"AppendEntries", "InstallSnapshot"}
    PROVE  Harmless(m)
BY DEF Harmless

-----------------------------------------------------------------------------
(***************************************************************************)
(* The actions.                                                            *)
(***************************************************************************)
LEMMA SteadyNode ==
    ASSUME TypeOK, SteadyInv, NEW i \in Server
    PROVE  /\ Steady(node[i]) /\ node[i] \in Nodes /\ hs[i].term \in Nat
           /\ Steady(FailPending(node[i]))
<1>1. Steady(node[i]) /\ hs[i].term \in Nat
  BY DEF TypeOK, SteadyInv
<1> QED BY <1>1, SteadySteps DEF Steady

LEMMA TickSteady ==
    ASSUME TypeOK, SteadyInv, NEW i \in Server, Heartbeat(i) \/ IdleTick(i)
    PROVE  SteadyInv'
<1>1. Steady(node[i]) /\ hs[i].term \in Nat
  BY SteadyNode
<1>2. CASE Heartbeat(i)
  <2> DEFINE n == Housekeeping(Bcast(node[i], i, hs[i].term))
  <2>1. Finish(i, n, {}, {}, {})
    BY <1>2 DEF Heartbeat
  <2>2. Steady(n)
    BY <1>1, SteadyBroadcasts, SteadyHousekeeping
  <2> HIDE DEF n
  <2> QED BY <2>1, <2>2, LocalSteady
<1>3. CASE IdleTick(i)
  <2> DEFINE n == Housekeeping(node[i])
  <2>1. Finish(i, n, {}, {}, {})
    BY <1>3 DEF IdleTick
  <2>2. Steady(n)
    BY <1>1, SteadyHousekeeping
  <2> HIDE DEF n
  <2> QED BY <2>1, <2>2, LocalSteady
<1> QED BY <1>2, <1>3

LEMMA CampaignSteady ==
    ASSUME TypeOK, SteadyInv, NEW i \in Server, Campaign(i)
    PROVE  SteadyInv'
<1> DEFINE term == hs[i].term + 1
           wins == 1 >= Quorum(node[i].conf)
           b    == IF wins THEN Elected(node[i], i, term) ELSE node[i]
           n    == Housekeeping(b)
           calls == IF wins THEN {} ELSE VoteCalls(i, term)
           none == {}
<1>1. Finish(i, n, none, none, calls)
  BY DEF Campaign
<1>2. Steady(node[i]) /\ term \in Nat
  BY SteadyNode
<1> HIDE DEF term, wins
<1>3. Steady(b)
  BY <1>2, SteadyElected
<1> HIDE DEF b
<1>4. Steady(n)
  BY <1>3, SteadyHousekeeping
<1>5. \A m \in calls : Harmless(m)
  BY OthersHarmless DEF VoteCalls
<1> HIDE DEF n, calls
<1>6. \A m \in none \cup calls : Harmless(m)
  BY <1>5
<1> HIDE DEF none
<1> QED BY <1>1, <1>4, <1>6, FinishSteady

LEMMA ProposeSteady ==
    ASSUME TypeOK, SteadyInv, NEW i \in Server, NEW v \in Value, Propose(i, v)
    PROVE  SteadyInv'
<1> DEFINE term == hs[i].term
           n == AppendData(node[i], i, term, "normal", v)
           x == LastIndex(n.log)
           w == [n EXCEPT !.waiting = @ \cup {x}]
           b == Bcast(MaybeCommit(w, i, term), i, term)
<1>1. Finish(i, b, {}, {}, {})
  BY DEF Propose
<1>2. Steady(node[i]) /\ term \in Nat
  BY SteadyNode
<1> HIDE DEF term
<1>3. Steady(n)
  BY <1>2, SteadyAppends
<1> HIDE DEF n
<1>4. x \in Nat
  BY <1>3, LogReads DEF Steady, Nodes
<1> HIDE DEF x
<1>5. w \in Nodes /\ w.log = n.log /\ w.wal = n.wal /\ w.conf = n.conf /\ w.out = n.out
  BY <1>3, <1>4 DEF Steady, Nodes
<1> HIDE DEF w
<1>6. Steady(w)
  BY <1>3, <1>5, SteadyProgress
<1>7. Steady(b)
  BY <1>2, <1>6, SteadySteps, SteadyBroadcasts
<1> HIDE DEF b
<1> QED BY <1>1, <1>7, LocalSteady

LEMMA LinearizableReadSteady ==
    ASSUME TypeOK, SteadyInv, NEW i \in Server, LinearizableRead(i)
    PROVE  SteadyInv'
<1> DEFINE n == node[i]
           term == hs[i].term
           r == Read(i, n.commit, term, Promised)
           c == [n EXCEPT !.reads = @ \cup {r}]
           b == TryFinishReads(Bcast(c, i, term))
<1>1. Finish(i, b, {}, {}, {})
  BY DEF LinearizableRead
<1>2. Steady(n) /\ n \in Nodes /\ term \in Nat
  BY SteadyNode
<1>3. r \in Reads
  <2>1. \A j \in Server : node[j].acked \subseteq Entries
    BY DEF TypeOK, Nodes
  <2>2. Promised \in SUBSET Entries
    BY <2>1 DEF Promised
  <2> QED BY <1>2, <2>2 DEF Read, Reads, Nodes
<1> HIDE DEF r, n, term
<1>4. c \in Nodes /\ c.log = n.log /\ c.wal = n.wal /\ c.conf = n.conf /\ c.out = n.out
  BY <1>2, <1>3 DEF Nodes
<1> HIDE DEF c
<1>5. Steady(c)
  BY <1>2, <1>4, SteadyProgress
<1>6. Steady(b)
  BY <1>2, <1>5, SteadyBroadcasts, SteadySteps
<1> HIDE DEF b
<1> QED BY <1>1, <1>6, LocalSteady

LEMMA HandleRequestVoteSteady ==
    ASSUME TypeOK, SteadyInv, NEW m \in msgs, HandleRequestVote(m)
    PROVE  SteadyInv'
<1> DEFINE i     == m.to
           newer == m.term > hs[i].term
           known == SteppedDown(i, m.term)
           grant == /\ m.term >= hs[i].term
                    /\ known.votedFor \in {None, m.from}
                    /\ UpToDate(node[i].log, m.lastIndex, m.lastTerm)
           n     == IF newer THEN FailPending(node[i]) ELSE node[i]
           reply == VoteReply(m, known.term, grant)
           none  == {}
<1>1. Finish(i, n, Delivered(m), {reply}, none) /\ reply.type = "RequestVoteReply"
  BY DEF HandleRequestVote, VoteReply
<1>2. i \in Server /\ Steady(n)
  <2>1. i \in Server
    BY MessageFields DEF TypeOK
  <2> QED BY <2>1, SteadyNode
<1> HIDE DEF n, reply
<1>3. \A x \in {reply} \cup none : Harmless(x)
  BY <1>1, OthersHarmless
<1> HIDE DEF none
<1> QED BY <1>1, <1>2, <1>3, FinishSteady

\* A callback that learns of a later term.
LEMMA StepDownSteady ==
    ASSUME TypeOK, SteadyInv, NEW i \in Server, NEW done, Finish(i, FailPending(node[i]), done, {}, {})
    PROVE  SteadyInv'
BY SteadyNode, LocalSteady

LEMMA OnVoteReplySteady ==
    ASSUME TypeOK, SteadyInv, NEW m \in msgs, OnVoteReply(m)
    PROVE  SteadyInv'
<1> DEFINE i == m.to
           e == Elected(node[i], i, hs[i].term)
<1>1. i \in Server /\ Steady(node[i]) /\ hs[i].term \in Nat
  <2>1. i \in Server
    BY MessageFields DEF TypeOK
  <2> QED BY <2>1, SteadyNode
<1>2. Steady(e)
  BY <1>1, SteadyElected
<1>3. \/ Finish(i, FailPending(node[i]), {m}, {}, {})
      \/ Finish(i, e, {m}, {}, {})
      \/ Finish(i, node[i], {m}, {}, {})
  BY DEF OnVoteReply
<1> HIDE DEF e
<1> QED BY <1>1, <1>2, <1>3, StepDownSteady, LocalSteady

LEMMA OnAppendReplySteady ==
    ASSUME TypeOK, SteadyInv, NEW m \in msgs, OnAppendReply(m)
    PROVE  SteadyInv'
<1> DEFINE i == m.to
           n == IF m.success THEN Acknowledged(node[i], i, hs[i].term, m)
                ELSE BackedUp(node[i], i, hs[i].term, m)
<1>1. i \in Server /\ Steady(node[i]) /\ hs[i].term \in Nat /\ m \in AppendReplies
  <2>1. i \in Server /\ m \in AppendReplies
    BY MessageFields DEF TypeOK, OnAppendReply
  <2> QED BY <2>1, SteadyNode
<1>2. Steady(n)
  BY <1>1, SteadyAcknowledged, SteadyBackedUp
<1>3. Finish(i, FailPending(node[i]), {m}, {}, {}) \/ Finish(i, n, {m}, {}, {})
  BY DEF OnAppendReply
<1> HIDE DEF n
<1> QED BY <1>1, <1>2, <1>3, StepDownSteady, LocalSteady

LEMMA HandleAppendEntriesSteady ==
    ASSUME TypeOK, SteadyInv, NEW m \in msgs, HandleAppendEntries(m)
    PROVE  SteadyInv'
<1> DEFINE i == m.to
           stepsDown == m.term > hs[i].term \/ role[i] # "follower"
           n     == IF stepsDown THEN FailPending(node[i]) ELSE node[i]
           taken == FollowCommit(TakeEntries(n, m.ents), m.commit)
           late     == {AppendReply(m, hs[i].term, FALSE, 0, 0, 0)}
           refused  == {Rejection(n.log, m, m.term)}
           accepted == {AppendReply(m, m.term, TRUE, LastIndex(taken.log), 0, 0)}
           none     == {}
<1>1. /\ i \in Server /\ m.ents \in Seq(Commands) /\ m.commit \in Nat /\ hs[i].term \in Nat
      /\ Steady(node[i]) /\ Steady(n)
  <2>1. m \in AppendCalls /\ m.type = "AppendEntries" /\ i \in Server
    BY MessageFields DEF TypeOK, HandleAppendEntries
  <2>2. m.ents \in Seq(Commands)
    BY <2>1 DEF SteadyInv, Harmless
  <2> QED BY <2>1, <2>2, SteadyNode DEF AppendCalls
<1>2. \/ Finish(i, node[i], Delivered(m), late, none)
      \/ Finish(i, n, Delivered(m), refused, none)
      \/ Finish(i, taken, Delivered(m), accepted, none)
  BY DEF HandleAppendEntries
<1>3. \A x \in late \cup refused \cup accepted : x.type = "AppendEntriesReply"
  BY DEF AppendReply, Rejection
<1> HIDE DEF n
<1>4. Steady(taken)
  <2>1. Steady(TakeEntries(n, m.ents))
    BY <1>1, SteadyTakes
  <2> QED BY <1>1, <2>1, SteadySteps
<1> HIDE DEF taken, late, refused, accepted
<1>5. /\ \A x \in late \cup none : Harmless(x)
      /\ \A x \in refused \cup none : Harmless(x)
      /\ \A x \in accepted \cup none : Harmless(x)
  BY <1>3, OthersHarmless
<1> HIDE DEF none
<1> QED BY <1>1, <1>2, <1>4, <1>5, FinishSteady

LEMMA HandleInstallSnapshotSteady ==
    ASSUME TypeOK, SteadyInv, NEW m \in msgs, HandleInstallSnapshot(m)
    PROVE  SteadyInv'
<1> DEFINE i     == m.to
           n     == IF m.term > hs[i].term THEN FailPending(node[i]) ELSE node[i]
           r     == IF m.term < hs[i].term THEN n ELSE Install(n, m.snap, m.conf)
           replies == IF m.open THEN {InstallReply(m, hs[i].term)} ELSE {}
           none    == {}
<1>1. /\ i \in Server /\ m.snap \in Snapshots /\ m.conf \in Membership /\ m.conf = Founding
      /\ Steady(n)
  <2>1. m \in SnapshotCalls /\ m.type = "InstallSnapshot" /\ i \in Server
    BY MessageFields DEF TypeOK, HandleInstallSnapshot
  <2>2. m.conf = Founding
    BY <2>1 DEF SteadyInv, Harmless
  <2> QED BY <2>1, <2>2, SteadyNode DEF SnapshotCalls
<1>2. Finish(i, r, Delivered(m), replies, none)
  BY DEF HandleInstallSnapshot
<1> HIDE DEF n
<1>3. Steady(r)
  BY <1>1, SteadyInstalls
<1>4. \A x \in replies : Harmless(x)
  BY OthersHarmless DEF InstallReply
<1> HIDE DEF r, replies
<1>5. \A x \in replies \cup none : Harmless(x)
  BY <1>4
<1> HIDE DEF none
<1> QED BY <1>1, <1>2, <1>3, <1>5, FinishSteady

LEMMA OnInstallReplySteady ==
    ASSUME TypeOK, SteadyInv, NEW m \in msgs, OnInstallReply(m)
    PROVE  SteadyInv'
<1> DEFINE i == m.to
           j == m.from
           x == m.index
           y == m.index + 1
           n == [node[i] EXCEPT !.installing[j] = FALSE, !.match[j] = x, !.next[j] = y]
           r == SendTo(n, i, hs[i].term, {j})
<1>1. /\ i \in Server /\ j \in Server /\ x \in Nat /\ y \in Nat /\ hs[i].term \in Nat
      /\ Steady(node[i]) /\ node[i] \in Nodes
  <2>1. m \in SnapshotReplies /\ i \in Server /\ j \in Server
    BY MessageFields DEF TypeOK, OnInstallReply
  <2> QED BY <2>1, SteadyNode DEF SnapshotReplies
<1>2. Finish(i, FailPending(node[i]), {m}, {}, {}) \/ Finish(i, r, {m}, {}, {})
  BY DEF OnInstallReply
<1> HIDE DEF x, y
<1>3. /\ n \in Nodes
      /\ n.log = node[i].log /\ n.wal = node[i].wal /\ n.conf = node[i].conf /\ n.out = node[i].out
  BY <1>1, ProgressType DEF Nodes
<1> HIDE DEF n
<1>4. Steady(r)
  <2>1. Steady(n)
    BY <1>1, <1>3, SteadyProgress
  <2> QED BY <1>1, <2>1, SteadySends
<1> HIDE DEF r
<1> QED BY <1>1, <1>2, <1>4, StepDownSteady, LocalSteady

\* A call nobody waits for any more carries what it carried.
LEMMA HarmlessUnanswered ==
    ASSUME NEW m \in Messages, Harmless(m), m.type = "InstallSnapshot"
    PROVE  Harmless([m EXCEPT !.open = FALSE])
<1>1. m \in SnapshotCalls
  BY MessageFields
<1> QED BY <1>1 DEF Harmless, SnapshotCalls

LEMMA InstallFailsSteady ==
    ASSUME TypeOK, SteadyInv, NEW m \in msgs, InstallFails(m)
    PROVE  SteadyInv'
<1> DEFINE called == m.type = "InstallSnapshot" /\ m.open
           i == IF called THEN m.from ELSE m.to
           j == IF called THEN m.to ELSE m.from
           next == NextOf(node[i], j)
           r == [node[i] EXCEPT !.installing[j] = FALSE, !.next[j] = next]
           replies == IF called THEN {[m EXCEPT !.open = FALSE]} ELSE {}
           none == {}
<1>1. i \in Server /\ j \in Server
  BY MessageFields DEF TypeOK
<1>2. Finish(i, r, {m}, replies, none)
  BY DEF InstallFails
<1>3. \A x \in replies : Harmless(x)
  BY HarmlessUnanswered DEF TypeOK, SteadyInv
<1> HIDE DEF i, j, replies
<1>4. Steady(node[i]) /\ node[i] \in Nodes
  BY <1>1, SteadyNode
<1>5. next \in Nat
  BY <1>1, <1>4, NextOfType
<1> HIDE DEF next
<1>6. /\ r \in Nodes
      /\ r.log = node[i].log /\ r.wal = node[i].wal /\ r.conf = node[i].conf /\ r.out = node[i].out
  BY <1>1, <1>4, <1>5, ProgressType DEF Nodes
<1> HIDE DEF r
<1>7. Steady(r)
  BY <1>4, <1>6, SteadyProgress
<1>8. \A x \in replies \cup none : Harmless(x)
  BY <1>3
<1> HIDE DEF none
<1> QED BY <1>1, <1>2, <1>7, <1>8, FinishSteady

\* A node that comes back takes the voters of RAFT_PEERS.
LEMMA RebootSteady ==
    ASSUME TypeOK, TypeOK', SteadyInv, StaticMembership, NEW i \in Server, NEW hard \in HardStates,
           NEW wal \in CommandLogs, NEW snap \in Snapshots, Reboot(i, hard, wal, snap),
           \A m \in msgs' : Harmless(m)
    PROVE  SteadyInv'
<1> DEFINE c == MaxOf(hard.commit, snap.index)
           b == Booted(i, wal, snap, c, node[i].acked, node[i].missed)
<1>1. node' = [node EXCEPT ![i] = b]
  BY DEF Reboot
<1>2. snap.index \in Nat /\ snap.term \in Nat
  BY DEF Snapshots
<1>3. /\ b.log = (IF snap.index = 0 THEN wal ELSE Compact(wal, snap.index, snap.term))
      /\ b.wal = wal /\ b.conf = Founding /\ b.out = {}
  BY DEF Booted, StaticMembership, Founding
<1>4. b.log \in CommandLogs
  BY <1>2, <1>3, CompactCommands
<1> HIDE DEF b
<1>5. b \in Nodes
  BY <1>1 DEF TypeOK
<1>6. Steady(b)
  BY <1>3, <1>4, <1>5 DEF Steady
<1>7. \A j \in Server : Steady(node'[j])
  BY <1>1, <1>6 DEF TypeOK, SteadyInv
<1>8. (\A j \in Server : Steady(node[j]))'
  BY <1>7 DEF Steady
<1>9. (\A m \in msgs : Harmless(m))'
  BY DEF Harmless
<1> QED BY <1>8, <1>9 DEF SteadyInv

LEMMA HarmlessOrphans ==
    ASSUME TypeOK, SteadyInv, NEW M \in SUBSET msgs, NEW i, NEW x \in Orphaned(M, i)
    PROVE  Harmless(x)
<1>1. PICK m \in M : x = IF m.type = "InstallSnapshot" /\ m.from = i
                         THEN [m EXCEPT !.open = FALSE] ELSE m
  BY DEF Orphaned
<1>2. m \in Messages /\ Harmless(m)
  BY DEF TypeOK, SteadyInv
<1> QED BY <1>1, <1>2, HarmlessUnanswered

LEMMA RestartSteady ==
    ASSUME TypeOK, TypeOK', SteadyInv, StaticMembership, NEW i \in Server, Restart(i)
    PROVE  SteadyInv'
<1>1. hs[i] \in HardStates /\ node[i].wal \in CommandLogs /\ node[i].snap \in Snapshots
  BY SteadyNode DEF TypeOK, HardStates, Nodes, Steady
<1>2. \A x \in msgs' : Harmless(x)
  BY HarmlessOrphans DEF Restart
<1> QED BY <1>1, <1>2, RebootSteady DEF Restart

LEMMA CrashInHandlerSteady ==
    ASSUME TypeOK, TypeOK', SteadyInv, StaticMembership, NEW m \in msgs, CrashInHandler(m)
    PROVE  SteadyInv'
<1> DEFINE i     == m.to
           n     == node[i]
           known == SteppedDown(i, m.term)
           M     == msgs \ Delivered(m)
<1>1. i \in Server /\ m.term \in Nat
  BY MessageFields DEF TypeOK
<1>2. Steady(n) /\ n.wal \in CommandLogs /\ n.snap \in Snapshots
  BY <1>1, SteadyNode DEF Steady, Nodes
<1>3. known \in HardStates
  BY <1>1, SteppedDownType
<1>4. M \in SUBSET msgs /\ msgs' = Orphaned(M, i)
  BY DEF CrashInHandler
<1> HIDE DEF M
<1>5. \A x \in msgs' : Harmless(x)
  BY <1>4, HarmlessOrphans
<1>6. \/ Reboot(i, known, n.wal, n.snap)
      \/ /\ m.type = "AppendEntries"
         /\ \E k \in 1..Len(m.ents) : Reboot(i, known, TakeEntries(n, SubSeq(m.ents, 1, k)).wal, n.snap)
  BY DEF CrashInHandler
<1> HIDE DEF known
<1>7. ASSUME m.type = "AppendEntries", NEW k \in 1..Len(m.ents),
             Reboot(i, known, TakeEntries(n, SubSeq(m.ents, 1, k)).wal, n.snap)
      PROVE  SteadyInv'
  <2> DEFINE es  == SubSeq(m.ents, 1, k)
             wal == TakeEntries(n, es).wal
  <2>1. m.ents \in Seq(Commands)
    BY <1>7 DEF SteadyInv, Harmless
  <2>2. es \in Seq(Commands)
    <3>1. k \in 0..Len(m.ents) /\ 1 \in 1..Len(m.ents) + 1 /\ k \in 1 - 1 .. Len(m.ents)
      BY <2>1
    <3> QED BY <2>1, <3>1, CommandParts
  <2> HIDE DEF es
  <2>3. wal \in CommandLogs
    BY <1>2, <2>2, SteadyTakes DEF Steady
  <2>4. Reboot(i, known, wal, n.snap)
    BY <1>7 DEF es
  <2> HIDE DEF wal
  <2> QED BY <1>1, <1>2, <1>3, <1>5, <2>3, <2>4, RebootSteady
<1> QED BY <1>1, <1>2, <1>3, <1>5, <1>6, <1>7, RebootSteady

LEMMA StopWhileServingSteady ==
    ASSUME TypeOK, TypeOK', SteadyInv, StaticMembership, NEW m \in msgs, StopWhileServing(m)
    PROVE  SteadyInv'
<1> DEFINE i == m.to
           M == msgs \ Delivered(m)
<1>1. i \in Server
  BY MessageFields DEF TypeOK
<1>2. hs[i] \in HardStates /\ node[i].wal \in CommandLogs /\ node[i].snap \in Snapshots
  BY <1>1, SteadyNode DEF TypeOK, HardStates, Nodes, Steady
<1>3. /\ Reboot(i, hs[i], node[i].wal, node[i].snap)
      /\ M \in SUBSET msgs
      /\ \A x \in msgs' : x \in Orphaned(M, i) \/ x \in ZeroReply(m)
  BY DEF StopWhileServing
<1>4. m.type \in {"RequestVote", "AppendEntries", "InstallSnapshot"}
  <2>1. m \in Calls
    BY DEF StopWhileServing, TypeOK, IsReply, Messages, VoteReplies, AppendReplies, SnapshotReplies
  <2> QED BY <2>1 DEF Calls, VoteRequests, AppendCalls, SnapshotCalls
<1>5. \A x \in ZeroReply(m) : x.type \notin {"AppendEntries", "InstallSnapshot"}
  <2>1. CASE m.type = "RequestVote"
    BY <2>1 DEF ZeroReply, VoteReply
  <2>2. CASE m.type = "AppendEntries"
    BY <2>2 DEF ZeroReply, AppendReply
  <2>3. CASE m.type = "InstallSnapshot" /\ m.open
    BY <2>3 DEF ZeroReply, InstallReply
  <2>4. CASE m.type = "InstallSnapshot" /\ ~m.open
    BY <2>4 DEF ZeroReply
  <2> QED BY <1>4, <2>1, <2>2, <2>3, <2>4
<1> HIDE DEF M
<1>6. \A x \in msgs' : Harmless(x)
  BY <1>3, <1>5, HarmlessOrphans, OthersHarmless
<1> QED BY <1>1, <1>2, <1>3, <1>6, RebootSteady

-----------------------------------------------------------------------------
(***************************************************************************)
(* The theorems.                                                           *)
(***************************************************************************)
LEMMA InitSteady == StaticMembership /\ Init => SteadyInv
<1> SUFFICES ASSUME StaticMembership, Init PROVE SteadyInv
  OBVIOUS
<1>1. TypeOK
  BY InitType
<1>2. EmptyLog \in CommandLogs
  BY DEF EmptyLog, CommandLogs
<1>3. ASSUME NEW i \in Server
      PROVE  Steady(node[i])
  <2>1. node[i] = Booted(i, EmptyLog, NoSnapshot, 0, {}, {}) /\ node[i] \in Nodes
    BY <1>1 DEF Init, TypeOK
  <2>2. /\ node[i].log = EmptyLog /\ node[i].wal = EmptyLog /\ node[i].conf = Founding
        /\ node[i].out = {}
    <3>1. NoSnapshot.index = 0
      BY DEF NoSnapshot
    <3>2. Peers[i] = Voters
      BY DEF StaticMembership
    <3> QED BY <2>1, <3>1, <3>2 DEF Booted, Founding
  <2> QED BY <1>2, <2>1, <2>2 DEF Steady
<1> QED BY <1>3 DEF Init, SteadyInv

LEMMA NextSteady ==
    ASSUME TypeOK, TypeOK', SteadyInv, StaticMembership, [Next]_vars
    PROVE  SteadyInv'
<1>1. CASE Next
  <2>1. ~(\E i \in Server : \E c \in Changes : ChangeMembership(i, c))
    BY DEF StaticMembership
  <2> QED BY <1>1, <2>1, TickSteady, CampaignSteady, ProposeSteady, LinearizableReadSteady,
             HandleRequestVoteSteady, OnVoteReplySteady, HandleAppendEntriesSteady,
             OnAppendReplySteady, HandleInstallSnapshotSteady, OnInstallReplySteady,
             InstallFailsSteady, RestartSteady, CrashInHandlerSteady, StopWhileServingSteady
      DEF Next
<1>2. CASE UNCHANGED vars
  <2>1. node' = node /\ msgs' = msgs
    BY <1>2 DEF vars
  <2> QED BY <2>1 DEF SteadyInv, Steady, Harmless
<1> QED BY <1>1, <1>2

LEMMA SteadyVoters ==
    ASSUME SteadyInv
    PROVE  FixedVoters
BY DEF SteadyInv, Steady, Founding, FixedVoters

\* Without membership changes every node knows the voters it was started with,
\* across log truncations, installed snapshots, crashes and restarts (applyConfigBytes).
THEOREM VotersStay ==
    ASSUME StaticMembership
    PROVE  Spec => []FixedVoters
<1>1. Init => SteadyInv
  BY InitSteady
<1>2. TypeOK /\ TypeOK' /\ SteadyInv /\ [Next]_vars => SteadyInv'
  BY NextSteady
<1>3. SteadyInv => FixedVoters
  BY SteadyVoters
<1>4. Spec => []TypeOK
  BY TypeCorrect
<1> QED BY <1>1, <1>2, <1>3, <1>4, PTL DEF Spec

LEMMA FiniteVoters ==
    ASSUME StaticMembership
    PROVE  IsFiniteSet(Voters)
<1>1. CASE Server = {}
  BY <1>1, FS_EmptySet DEF Voters
<1>2. ASSUME NEW i \in Server PROVE IsFiniteSet(Voters)
  BY <1>2, PeersAssumption DEF StaticMembership
<1> QED BY <1>1, <1>2

\* Two nodes are never leaders of one term, whatever is lost, delayed, delivered
\* twice or restarted, in a cluster whose membership nobody changes.
THEOREM StaticOneLeader ==
    ASSUME StaticMembership
    PROVE  Spec => []ElectionSafety
<1>1. Spec => []FixedVoters
  BY VotersStay
<1>2. Spec /\ []FixedVoters => []ElectionSafety
  BY FiniteVoters, OneLeaderPerTerm
<1> QED BY <1>1, <1>2, PTL

\* The logs match in a cluster whose membership nobody changes, as long as no node
\* has taken a snapshot.
THEOREM StaticLogsMatch ==
    ASSUME StaticMembership
    PROVE  Spec /\ []Uncompacted => []LogMatching
<1>1. Spec => []FixedVoters
  BY VotersStay
<1>2. Spec /\ []FixedVoters /\ []Uncompacted => []LogMatching
  BY FiniteVoters, LogsMatch
<1> QED BY <1>1, <1>2, PTL

\* A leader's MatchIndex is sound in a cluster whose membership nobody changes, as
\* long as no node has taken a snapshot or been stopped while it served a call.
THEOREM StaticMatchesAreSound ==
    ASSUME StaticMembership
    PROVE  Spec /\ []Uncompacted /\ []NoBlanks => []MatchIndexSound
<1>1. Spec => []FixedVoters
  BY VotersStay
<1>2. Spec /\ []FixedVoters /\ []Uncompacted /\ []NoBlanks => []MatchIndexSound
  BY FiniteVoters, MatchesAreSound
<1> QED BY <1>1, <1>2, PTL

\* Every leader has what any node has committed, in a cluster whose membership nobody
\* changes, as long as no node has taken a snapshot or been stopped while it served a
\* call.
THEOREM StaticLeadersComplete ==
    ASSUME StaticMembership
    PROVE  Spec /\ []Uncompacted /\ []NoBlanks => []LeaderCompleteness
<1>1. Spec => []FixedVoters
  BY VotersStay
<1>2. Spec /\ []FixedVoters /\ []Uncompacted /\ []NoBlanks => []LeaderCompleteness
  BY FiniteVoters, LeadersComplete
<1> QED BY <1>1, <1>2, PTL

\* The state machines agree in such a cluster.
THEOREM StaticStateMachinesAgree ==
    ASSUME StaticMembership
    PROVE  Spec /\ []Uncompacted /\ []NoBlanks => []StateMachineSafety
<1>1. Spec => []FixedVoters
  BY VotersStay
<1>2. Spec /\ []FixedVoters /\ []Uncompacted /\ []NoBlanks => []StateMachineSafety
  BY FiniteVoters, StateMachinesAgree
<1> QED BY <1>1, <1>2, PTL

\* An entry whose proposer was told success stays on a quorum in such a cluster.
THEOREM StaticAckedStays ==
    ASSUME StaticMembership
    PROVE  Spec /\ []Uncompacted /\ []NoBlanks => []AckedDurable
<1>1. Spec => []FixedVoters
  BY VotersStay
<1>2. Spec /\ []FixedVoters /\ []Uncompacted /\ []NoBlanks => []AckedDurable
  BY FiniteVoters, AckedStays DEF StaticMembership
<1> QED BY <1>1, <1>2, PTL

\* Such a cluster implements one replicated log, restarts included.
THEOREM StaticClusterImplementsLog ==
    ASSUME StaticMembership
    PROVE  Spec /\ []Uncompacted /\ []NoBlanks => ImplementsThroughCrashes
<1>1. Spec => []FixedVoters
  BY VotersStay
<1>2. Spec /\ []FixedVoters /\ []Uncompacted /\ []NoBlanks => ImplementsThroughCrashes
  BY FiniteVoters, ClusterImplementsLog
<1> QED BY <1>1, <1>2, PTL

-----------------------------------------------------------------------------
(***************************************************************************)
(* Linearizable reads of two voters.  First the parts of the handlers: who *)
(* waits for an answer, and what is answered.                              *)
(***************************************************************************)

\* What waits in n waits for entries of the term, or for what n has in its log.
Fine(n, term) ==
    /\ n.missed = {} /\ ReadsFit(n)
    /\ \A x \in n.waiting : x \in 1..Len(n.log.ents) /\ n.log.ents[x].term = term

Able(n, term) == Plain(n) /\ Sound(n) /\ Fine(n, term)

\* Record b comes after n in a handler that answers, at most, for entries of the term.
Serves(n, b, term) ==
    /\ Able(b, term)
    /\ n.commit <= b.commit
    /\ \A e \in b.acked : e \in n.acked \/ (e.term = term /\ e.index <= b.commit)

\* Nobody waits for n.
Silent(n) == n.waiting = {} /\ n.reads = {}

Untouched(n, b) ==
    b.waiting = n.waiting /\ b.reads = n.reads /\ b.missed = n.missed /\ b.acked = n.acked

LEMMA AbleServes ==
    ASSUME NEW n, NEW term, Able(n, term)
    PROVE  Serves(n, n, term)
<1>1. n.commit \in Nat
  BY DEF Able, Plain, Nodes
<1> QED BY <1>1 DEF Serves

LEMMA SilentFine ==
    ASSUME NEW n, Silent(n), n.missed = {}, NEW term
    PROVE  Fine(n, term)
BY DEF Fine, Silent, ReadsFit

LEMMA ServesTrans ==
    ASSUME NEW n \in Nodes, NEW term, NEW b, NEW c, Serves(n, b, term), Serves(b, c, term)
    PROVE  Serves(n, c, term)
<1>1. /\ n.commit \in Nat /\ b.commit \in Nat /\ c.commit \in Nat /\ b.acked \subseteq Entries
      /\ n.commit <= b.commit /\ b.commit <= c.commit
  BY DEF Nodes, Serves, Able, Plain
<1>2. \A e \in Entries : e.index \in Nat
  BY DEF Entries
<1>3. ASSUME NEW e \in c.acked PROVE e \in n.acked \/ (e.term = term /\ e.index <= c.commit)
  <2>1. CASE e \in b.acked
    <3>1. e.index \in Nat
      BY <1>1, <1>2, <2>1
    <3> QED BY <1>1, <2>1, <3>1 DEF Serves
  <2>2. CASE e \notin b.acked
    BY <2>2 DEF Serves
  <2> QED BY <2>1, <2>2
<1> QED BY <1>1, <1>3 DEF Serves

LEMMA UntouchedServes ==
    ASSUME NEW n, NEW term, Able(n, term), NEW b, Plain(b), Sound(b),
           Untouched(n, b), n.commit <= b.commit,
           Len(n.log.ents) <= Len(b.log.ents),
           \A k \in 1..Len(n.log.ents) : b.log.ents[k] = n.log.ents[k]
    PROVE  Serves(n, b, term)
<1>1. Len(n.log.ents) \in Nat /\ Len(b.log.ents) \in Nat /\ n.reads \subseteq Reads
  BY DEF Able, Plain, Nodes, Logs
<1>2. ASSUME NEW x \in n.waiting
      PROVE  x \in 1..Len(b.log.ents) /\ b.log.ents[x].term = term
  <2>1. x \in 1..Len(n.log.ents) /\ n.log.ents[x].term = term
    BY DEF Able, Fine
  <2> QED BY <1>1, <2>1
<1>3. ASSUME NEW r \in n.reads, NEW e \in r.known
      PROVE  /\ r.index <= Len(b.log.ents)
             /\ e.index \in 1..r.index /\ b.log.ents[e.index] = e
  <2>1. r.index <= Len(n.log.ents) /\ e.index \in 1..r.index /\ n.log.ents[e.index] = e
    BY DEF Able, Fine, ReadsFit
  <2>2. r.index \in Nat
    BY <1>1 DEF Reads
  <2>3. e.index \in 1..Len(n.log.ents) /\ r.index <= Len(b.log.ents)
    BY <1>1, <2>1, <2>2
  <2> QED BY <2>1, <2>3
<1> QED BY <1>2, <1>3 DEF Untouched, Serves, Able, Fine, ReadsFit

\* tryFinishReads of a sound node finds in the machine what a read waited for.
LEMMA FinishServes ==
    ASSUME NEW n, NEW term, Able(n, term), NEW i \in Server
    PROVE  /\ Serves(n, TryFinishReads(n), term)
           /\ Silent(n) => Silent(TryFinishReads(n))
           /\ TryFinishReads(n).acked = n.acked
<1> DEFINE b == TryFinishReads(n)
           D == {r \in n.reads : Answerable(n, r)}
<1>0. n \in Nodes /\ b \in Nodes
  BY TryFinishReadsType DEF Able, Plain
<1>1. /\ b.waiting = n.waiting /\ b.acked = n.acked /\ b.log = n.log /\ b.reads = n.reads \ D
      /\ b.missed = n.missed \cup UNION {[term : {r.term}, entry : Unseen(n, r)] : r \in D}
  BY <1>0 DEF TryFinishReads, Nodes
<1>2. /\ n.log.ents \in Seq(Entries) /\ Len(n.log.ents) \in Nat /\ n.applied \in Nat
      /\ n.commit \in Nat /\ n.reads \subseteq Reads
      /\ n.applied <= Len(n.log.ents) /\ n.sm = SubSeq(n.log.ents, 1, n.applied)
  <2>1. /\ n.log.ents \in Seq(Entries) /\ Len(n.log.ents) \in Nat /\ n.applied \in Nat
        /\ n.commit \in Nat /\ n.reads \subseteq Reads
    BY <1>0, PlainLog DEF Nodes, Able
  <2> QED BY <2>1 DEF Able, Sound
<1>3. ASSUME NEW r \in D PROVE Unseen(n, r) = {}
  <2>1. r.index \in Nat /\ n.applied >= r.index
    BY <1>2 DEF Reads, Answerable
  <2>2. ASSUME NEW e \in r.known PROVE \E x \in 1..Len(n.sm) : n.sm[x] = e
    <3>1. e.index \in 1..r.index /\ n.log.ents[e.index] = e
      BY DEF Able, Fine, ReadsFit
    <3> DEFINE x == e.index
    <3>2. x \in 1..n.applied
      BY <1>2, <2>1, <3>1
    <3> HIDE DEF x
    <3>3. x \in 1..Len(n.sm) /\ n.sm[x] = n.log.ents[x]
      BY <1>2, <3>2
    <3> QED BY <3>1, <3>3 DEF x
  <2> QED BY <2>2 DEF Unseen
<1>4. Idle(n, b) /\ Plain(b) /\ Sound(b)
  <2>1. Idle(n, b)
    BY <1>0, IdleSteps
  <2> HIDE DEF b
  <2>2. Plain(b)
    BY <1>0, <2>1, QuietGrows DEF Able, Idle, Grown
  <2> QED BY <2>1, <2>2 DEF Able, Idle, Quiet, Sound
<1> HIDE DEF b
<1>5. b.missed = {}
  <2>1. n.missed = {}
    BY DEF Able, Fine
  <2>2. \A r \in D : [term : {r.term}, entry : Unseen(n, r)] = {}
    BY <1>3
  <2> HIDE DEF D
  <2> QED BY <1>1, <2>1, <2>2
<1>6. Fine(b, term)
  BY <1>1, <1>5 DEF Able, Fine, ReadsFit
<1>7. n.commit <= b.commit
  BY <1>2, <1>4 DEF Idle
<1> QED BY <1>1, <1>4, <1>6, <1>7 DEF Serves, Able, Silent, b

\* maybeApply answers the proposers of the entries that it applies.
LEMMA ApplyServes ==
    ASSUME NEW n, NEW term, Able(n, term), NEW i \in Server
    PROVE  /\ Serves(n, MaybeApply(n), term)
           /\ Silent(n) => Silent(MaybeApply(n)) /\ MaybeApply(n).acked = n.acked
<1> DEFINE a == ApplyCommitted(n)
           b == MaybeApply(n)
<1>1. /\ n \in Nodes /\ n.log.ents \in Seq(Entries) /\ n.log.snapIndex = 0
      /\ Len(n.log.ents) \in Nat /\ n.commit \in Nat /\ n.applied \in Nat
      /\ n.applied <= n.commit /\ n.commit <= Len(n.log.ents) /\ Plain(n) /\ Sound(n)
      /\ \A k \in 1..Len(n.log.ents) : n.log.ents[k].index = k
  BY PlainLog DEF Able, Plain, Sound, Aligned, Nodes
<1>2. a \in Nodes /\ b = TryFinishReads(a)
  BY <1>1, ApplyCommittedType DEF MaybeApply
<1>3. /\ a.reads = n.reads /\ a.missed = n.missed /\ a.commit = n.commit /\ Quiet(n, a)
  BY <1>1 DEF ApplyCommitted, Quiet, Nodes
<1>4. /\ a.waiting \subseteq n.waiting
      /\ \A e \in a.acked : e \in n.acked \/ \E x \in n.waiting : x <= n.commit /\ e = n.log.ents[x]
      /\ n.acked \subseteq a.acked
  <2> DEFINE from == IF n.applied < n.commit
                     THEN MaxOf(n.applied, MinOf(0, n.commit)) ELSE n.applied
             to   == MinOf(n.commit, 0 + Len(n.log.ents))
             run  == SubSeq(n.log.ents, from - 0 + 1, to - 0)
             told == {run[k] : k \in {x \in 1..(to - from) : from + x \in n.waiting}}
  <2>1. from = n.applied /\ to = n.commit
    BY <1>1 DEF MaxOf, MinOf
  <2>2. run = SubSeq(n.log.ents, n.applied + 1, n.commit)
    <3> HIDE DEF from, to
    <3>1. from - 0 + 1 = n.applied + 1 /\ to - 0 = n.commit
      BY <1>1, <2>1
    <3> QED BY <3>1
  <2>3. a = IF from < 0 \/ to <= from THEN [n EXCEPT !.applied = from]
            ELSE [n EXCEPT !.applied = to, !.sm = @ \o run, !.acked = @ \cup told,
                           !.waiting = @ \ (from + 1 .. to)]
    BY <1>1 DEF ApplyCommitted
  <2>4. ASSUME NEW e \in told PROVE \E x \in n.waiting : x <= n.commit /\ e = n.log.ents[x]
    <3> HIDE DEF from, to, run
    <3>1. PICK k \in 1..(to - from) : from + k \in n.waiting /\ e = run[k]
      BY DEF told
    <3> DEFINE x == n.applied + k
    <3>2. k \in 1..(n.commit - n.applied) /\ x \in n.waiting /\ x <= n.commit
      BY <1>1, <2>1, <3>1
    <3>3. run[k] = n.log.ents[x]
      <4> DEFINE all == n.log.ents
      <4>1. all \in Seq(Entries) /\ k \in 1..(n.commit - n.applied) /\ n.commit <= Len(all)
        BY <1>1, <3>2
      <4> HIDE DEF all
      <4>2. SubSeq(all, n.applied + 1, n.commit)[k] = all[n.applied + k]
        BY <1>1, <4>1
      <4> QED BY <2>2, <4>2 DEF all
    <3> HIDE DEF x
    <3> QED BY <3>1, <3>2, <3>3
  <2> HIDE DEF a, from, to, run, told
  <2>5. CASE a = [n EXCEPT !.applied = from]
    BY <1>1, <2>5 DEF Nodes
  <2>6. CASE a = [n EXCEPT !.applied = to, !.sm = @ \o run, !.acked = @ \cup told,
                           !.waiting = @ \ (from + 1 .. to)]
    <3>1. a.acked = n.acked \cup told /\ a.waiting \subseteq n.waiting
      BY <1>1, <2>6 DEF Nodes
    <3> QED BY <2>4, <3>1
  <2> QED BY <2>3, <2>5, <2>6
<1>5. Sound(a)
  <2>1. Sound(b)
    BY <1>1, ApplyWorks DEF Works
  <2> HIDE DEF a, b
  <2>2. b.log = a.log /\ b.applied = a.applied /\ b.sm = a.sm /\ b.commit = a.commit /\ b.snap = a.snap
    BY <1>2 DEF TryFinishReads, Nodes
  <2> QED BY <2>1, <2>2 DEF Sound
<1> HIDE DEF a
<1>6. Fine(a, term)
  BY <1>3, <1>4 DEF Able, Fine, ReadsFit, Quiet
<1>7. ASSUME NEW e \in a.acked PROVE e \in n.acked \/ (e.term = term /\ e.index <= a.commit)
  <2>1. ASSUME NEW x \in n.waiting, x <= n.commit, e = n.log.ents[x]
        PROVE  e.term = term /\ e.index <= a.commit
    <3>1. x \in 1..Len(n.log.ents) /\ n.log.ents[x].term = term
      BY DEF Able, Fine
    <3>2. e.index = x
      BY <1>1, <2>1, <3>1
    <3> QED BY <1>3, <2>1, <3>1, <3>2
  <2> QED BY <1>4, <2>1
<1>8. Serves(n, a, term)
  <2>1. Plain(a)
    BY <1>1, <1>2, <1>3, QuietGrows DEF Grown
  <2>2. n.commit <= a.commit
    BY <1>1, <1>3
  <2> QED BY <1>5, <1>6, <1>7, <2>1, <2>2 DEF Serves, Able
<1>9. Serves(a, b, term) /\ (Silent(a) => Silent(b)) /\ b.acked = a.acked
  BY <1>2, <1>8, FinishServes DEF Serves
<1> HIDE DEF b
<1>10. Serves(n, b, term)
  BY <1>1, <1>8, <1>9, ServesTrans
<1>11. Silent(n) => Silent(a) /\ a.acked = n.acked
  BY <1>3, <1>4 DEF Silent
<1> QED BY <1>9, <1>10, <1>11 DEF b

LEMMA CommitServes ==
    ASSUME NEW n, NEW i \in Server, NEW term \in Nat, Able(n, term)
    PROVE  Serves(n, MaybeCommit(n, i, term), term)
<1> DEFINE C == Committable(n, i, term)
           x == CHOOSE x \in C : \A y \in C : y <= x
           d == [n EXCEPT !.commit = x]
           b == MaybeApply(d)
<1>1. /\ n \in Nodes /\ n.log \in Logs /\ Len(n.log.ents) \in Nat /\ Plain(n)
      /\ n.commit \in Nat /\ n.applied \in Nat /\ n.applied <= n.commit
      /\ LastIndex(n.log) = Len(n.log.ents)
      /\ n.sm = SubSeq(n.log.ents, 1, n.applied) /\ n.snap.sm = <<>>
  BY PlainLog, AlignedReads DEF Able, Plain, Sound, Nodes
<1>2. CASE C = {}
  BY <1>2, AbleServes DEF MaybeCommit
<1>3. CASE C # {}
  <2>1. x \in C /\ x \in Nat /\ x > n.commit
    BY <1>1, <1>3, CommittablePick
  <2>2. MaybeCommit(n, i, term) = b
    BY <1>3 DEF MaybeCommit
  <2> HIDE DEF x
  <2>3. x <= Len(n.log.ents)
    BY <1>1, <2>1 DEF Committable
  <2> HIDE DEF C
  <2>4. /\ d \in Nodes /\ d.commit = x /\ d.applied = n.applied /\ d.sm = n.sm
        /\ Untouched(n, d) /\ Quiet(n, d)
    BY <1>1, <2>1 DEF Nodes, Untouched, Quiet
  <2> HIDE DEF d
  <2>5. d.log = n.log /\ d.snap = n.snap
    BY <2>4 DEF Quiet
  <2>6. Plain(d)
    BY <1>1, <2>4, QuietGrows DEF Grown
  <2>7. Sound(d)
    <3>1. n.applied <= x
      BY <1>1, <2>1
    <3> QED BY <1>1, <2>3, <2>4, <2>5, <3>1 DEF Sound
  <2>8. Serves(n, d, term)
    <3>1. Len(n.log.ents) <= Len(d.log.ents) /\ n.commit <= d.commit
      BY <1>1, <2>1, <2>4, <2>5
    <3>2. \A k \in 1..Len(n.log.ents) : d.log.ents[k] = n.log.ents[k]
      BY <2>5
    <3> QED BY <2>4, <2>6, <2>7, <3>1, <3>2, UntouchedServes
  <2>9. Serves(d, b, term)
    BY <2>8, ApplyServes DEF Serves
  <2> HIDE DEF b
  <2> QED BY <1>1, <2>2, <2>8, <2>9, ServesTrans
<1> QED BY <1>2, <1>3

LEMMA SendServes ==
    ASSUME NEW n, NEW i \in Server, NEW term \in Nat, Able(n, term), Ends(n, term),
           NEW J \in SUBSET Server, i \notin J
    PROVE  Serves(n, SendTo(n, i, term, J), term)
<1> DEFINE b == SendTo(n, i, term, J)
<1>1. n \in Nodes /\ Plain(n) /\ Len(n.log.ents) \in Nat /\ n.commit \in Nat
  BY PlainLog DEF Able, Plain, Nodes
<1>2. Plain(b) /\ Sound(b)
  <2>1. Pushed(n, b, i, term)
    BY <1>1, SendPushes
  <2>2. Works(n, b, i, term)
    BY <1>1, SendWorks DEF Able
  <2> HIDE DEF b
  <2> QED BY <2>1, <2>2 DEF Pushed, Grown, Works
<1>3. Untouched(n, b) /\ b.log = n.log /\ b.commit = n.commit
  BY <1>1 DEF SendTo, Nodes, Untouched
<1> HIDE DEF b
<1>4. Len(n.log.ents) <= Len(b.log.ents) /\ n.commit <= b.commit
  BY <1>1, <1>3
<1>5. Serves(n, b, term)
  BY <1>2, <1>3, <1>4, UntouchedServes
<1> QED BY <1>5 DEF b

LEMMA BcastServes ==
    ASSUME NEW n, NEW i \in Server, NEW term \in Nat, Able(n, term), Ends(n, term)
    PROVE  Serves(n, Bcast(n, i, term), term)
<1>1. Members(n.conf) \ {i} \in SUBSET Server
  BY DEF Able, Plain, Nodes, Membership, Members
<1> QED BY <1>1, SendServes DEF Bcast

LEMMA AppendServes ==
    ASSUME NEW n, NEW i \in Server, NEW term \in Nat, NEW type, NEW data,
           <<type, data>> \in Payloads, Able(n, term)
    PROVE  LET b == AppendData(n, i, term, type, data)
           IN  Serves(n, b, term) /\ Ends(b, term)
<1> DEFINE e == Entry(LastIndex(n.log) + 1, term, type, data)
           a == [n EXCEPT !.log       = AppendTo(@, <<e>>),
                          !.wal       = Replay(@, <<e>>),
                          !.match[i]  = IF n.next[i] # 0 THEN e.index ELSE @,
                          !.next[i]   = IF @ # 0 THEN e.index + 1 ELSE 0]
           b == AppendData(n, i, term, type, data)
<1>1. n \in Nodes /\ Plain(n) /\ Sound(n)
  BY DEF Able, Plain
<1>2. b = IF type = "config" THEN [ApplyConfig(a, data) EXCEPT !.pending = e.index] ELSE a
  BY DEF AppendData
<1>3. Untouched(n, a) /\ DOMAIN a = DOMAIN n
  <2> HIDE DEF e
  <2> QED BY <1>1 DEF Nodes, Untouched
<1>4. Untouched(n, b)
  <2> HIDE DEF a, b, e
  <2> QED BY <1>1, <1>2, <1>3 DEF ApplyConfig, Nodes, Untouched
<1>5. Plain(b) /\ Longer(n.log, b.log, term)
  BY <1>1, AppendDataGrows DEF Grown
<1>6. Ends(b, term) /\ Works(n, b, i, term)
  BY <1>1, AppendPushes, AppendWorks
<1> HIDE DEF b
<1>7. Serves(n, b, term)
  BY <1>4, <1>5, <1>6, UntouchedServes DEF Longer, Works
<1> QED BY <1>6, <1>7 DEF b

\* A handler that takes a new entry, or promotes a learner, answers as maybeCommit does.
LEMMA AcceptServes ==
    ASSUME NEW n, NEW i \in Server, NEW term \in Nat, NEW type, NEW data,
           <<type, data>> \in Payloads, Able(n, term)
    PROVE  Serves(n, Accept(n, i, term, type, data), term)
<1> DEFINE a == AppendData(n, i, term, type, data)
           c == MaybeCommit(a, i, term)
           b == Bcast(c, i, term)
<1>1. n \in Nodes /\ Accept(n, i, term, type, data) = b
  BY DEF Able, Plain, Accept
<1>2. Serves(n, a, term) /\ Ends(a, term)
  BY AppendServes
<1> HIDE DEF a
<1>3. Serves(a, c, term)
  BY <1>2, CommitServes DEF Serves
<1>4. Ends(c, term)
  BY <1>2, MaybeCommitGrows, EndsGrow DEF Serves, Able
<1> HIDE DEF c
<1>5. Serves(c, b, term)
  BY <1>3, <1>4, BcastServes DEF Serves
<1> HIDE DEF b
<1>6. Serves(n, c, term)
  BY <1>1, <1>2, <1>3, ServesTrans
<1>7. Serves(n, b, term)
  BY <1>1, <1>5, <1>6, ServesTrans
<1> QED BY <1>1, <1>7

LEMMA PromoteServes ==
    ASSUME NEW n, NEW i \in Server, NEW term \in Nat, NEW j \in Server, Able(n, term)
    PROVE  Serves(n, MaybePromoteLearner(n, i, term, j), term)
<1>1. <<"config", Promoted(n.conf, j)>> \in Payloads
  BY DEF Payloads, Promoted, Membership, Nodes, Plain, Able
<1> DEFINE a == Accept(n, i, term, "config", Promoted(n.conf, j))
<1>2. Serves(n, a, term) /\ Serves(n, n, term)
  BY <1>1, AcceptServes, AbleServes
<1>3. MaybePromoteLearner(n, i, term, j) = a \/ MaybePromoteLearner(n, i, term, j) = n
  BY DEF MaybePromoteLearner
<1> HIDE DEF a
<1> QED BY <1>2, <1>3

LEMMA ElectedServes ==
    ASSUME NEW n, NEW i \in Server, NEW term \in Nat, Able(n, term)
    PROVE  Serves(n, Elected(n, i, term), term)
<1> DEFINE r == ResetProgress(n, i)
           b == Accept(r, i, term, "noop", None)
<1>1. Plain(r) /\ n \in Nodes /\ Quiet(n, r) /\ Sound(n)
  BY ElectedPushes DEF Plain, Able
<1>2. Idle(n, r) /\ Untouched(n, r)
  BY <1>1 DEF ResetProgress, Idle, Quiet, Nodes, Untouched
<1>3. <<"noop", None>> \in Payloads
  BY DEF Payloads
<1>4. Elected(n, i, term) = b
  BY DEF Elected
<1> HIDE DEF r
<1>5. Serves(n, r, term)
  <2>1. n.commit \in Nat /\ Len(n.log.ents) \in Nat
    BY <1>1, PlainLog DEF Nodes, Able
  <2>2. Sound(r)
    BY <1>1, <1>2 DEF Idle, Quiet, Sound
  <2>3. n.commit <= r.commit /\ Len(n.log.ents) <= Len(r.log.ents)
    BY <1>2, <2>1 DEF Idle, Quiet
  <2>4. \A k \in 1..Len(n.log.ents) : r.log.ents[k] = n.log.ents[k]
    BY <1>2 DEF Idle, Quiet
  <2> QED BY <1>1, <1>2, <2>2, <2>3, <2>4, UntouchedServes
<1>6. Serves(r, b, term)
  BY <1>3, <1>5, AcceptServes DEF Serves
<1> HIDE DEF b
<1>7. Serves(n, b, term)
  BY <1>1, <1>5, <1>6, ServesTrans
<1> QED BY <1>4, <1>7

LEMMA HousekeepingServes ==
    ASSUME NEW n, NEW i \in Server, NEW term, Able(n, term), Housekeeping(n).snap.index = 0
    PROVE  Serves(n, Housekeeping(n), term)
<1> DEFINE a == MaybeApply(n)
           b == Housekeeping(n)
<1>1. n \in Nodes /\ Plain(n) /\ Sound(n) /\ a \in Nodes /\ Quiet(n, a)
  BY MaybeApplyType, QuietSteps DEF Able, Plain
<1>2. Serves(n, a, term)
  BY ApplyServes
<1>3. Quiet(n, b) /\ b \in Nodes
  BY <1>1, HousekeepingQuiet
<1>4. b = MaybeSnapshot(a)
  BY DEF Housekeeping
<1> HIDE DEF a, b
<1>5. Quiet(a, b) /\ Plain(a) /\ Sound(a)
  BY <1>1, <1>2, <1>3 DEF Quiet, Serves, Able
<1>6. /\ b.commit = a.commit /\ b.applied = a.applied /\ b.sm = a.sm /\ b.acked = a.acked
      /\ Untouched(a, b)
  BY <1>1, <1>4 DEF MaybeSnapshot, Nodes, Untouched
<1>7. Plain(b) /\ Sound(b)
  <2>1. Plain(b)
    BY <1>3, <1>5, QuietGrows DEF Grown
  <2> QED BY <1>5, <1>6, <2>1 DEF Sound, Quiet
<1>8. Serves(a, b, term)
  <2>1. a.commit \in Nat /\ Len(a.log.ents) \in Nat
    BY <1>1, <1>5, PlainLog DEF Nodes
  <2>2. a.commit <= b.commit /\ Len(a.log.ents) <= Len(b.log.ents)
    BY <1>5, <1>6, <2>1 DEF Quiet
  <2>3. \A k \in 1..Len(a.log.ents) : b.log.ents[k] = a.log.ents[k]
    BY <1>5 DEF Quiet
  <2>4. Able(a, term)
    BY <1>2 DEF Serves
  <2> QED BY <1>6, <1>7, <2>2, <2>3, <2>4, UntouchedServes
<1>9. Serves(n, b, term)
  BY <1>1, <1>2, <1>8, ServesTrans
<1> QED BY <1>9 DEF b

\* A confirmation is nothing to what reads wait for.
LEMMA AckServes ==
    ASSUME NEW n, NEW i \in Server, NEW term, Able(n, term), NEW j \in Server
    PROVE  Serves(n, AckReads(n, j), term)
<1> DEFINE b == [n EXCEPT !.reads = {[r EXCEPT !.acks = @ \cup {j}] : r \in @}]
           t == TryFinishReads(b)
<1>1. n \in Nodes /\ AckReads(n, j) = t /\ Plain(n) /\ Sound(n) /\ n.reads \subseteq Reads
      /\ n.commit \in Nat
  BY DEF Able, Plain, AckReads, Nodes
<1>2. \A r \in Reads : LET k == [r EXCEPT !.acks = @ \cup {j}]
                       IN  k \in Reads /\ k.known = r.known /\ k.index = r.index
  BY DEF Reads
<1>3. b \in Nodes /\ Idle(n, b) /\ b.waiting = n.waiting /\ b.missed = n.missed
  <2>1. {[r EXCEPT !.acks = @ \cup {j}] : r \in n.reads} \subseteq Reads
    BY <1>1, <1>2
  <2> DEFINE R == {[r EXCEPT !.acks = @ \cup {j}] : r \in n.reads}
  <2>2. b = [n EXCEPT !.reads = R] /\ R \in SUBSET Reads
    BY <2>1
  <2> HIDE DEF R
  <2> QED BY <1>1, <2>2 DEF Nodes, Idle, Quiet
<1>4. ASSUME NEW k \in b.reads PROVE \E r \in n.reads : k.known = r.known /\ k.index = r.index
  <2>1. b.reads = {[r EXCEPT !.acks = @ \cup {j}] : r \in n.reads}
    BY <1>1 DEF Nodes
  <2> HIDE DEF b
  <2>2. PICK r \in n.reads : k = [r EXCEPT !.acks = @ \cup {j}]
    BY <2>1
  <2> QED BY <1>1, <1>2, <2>2
<1> HIDE DEF b
<1>5. Plain(b) /\ Sound(b)
  <2>1. Plain(b)
    BY <1>1, <1>3, QuietGrows DEF Grown, Idle
  <2> QED BY <1>1, <1>3, <2>1 DEF Sound, Idle, Quiet
<1>6. ReadsFit(b)
  <2> SUFFICES ASSUME NEW k \in b.reads, NEW e \in k.known
               PROVE  /\ k.index <= Len(b.log.ents)
                      /\ e.index \in 1..k.index /\ b.log.ents[e.index] = e
    BY DEF ReadsFit
  <2>1. PICK r \in n.reads : k.known = r.known /\ k.index = r.index
    BY <1>4
  <2> QED BY <1>3, <2>1 DEF Able, Fine, ReadsFit, Idle, Quiet
<1>7. Fine(b, term)
  BY <1>3, <1>6 DEF Able, Fine, Idle, Quiet
<1>8. Able(b, term) /\ Serves(n, b, term)
  BY <1>1, <1>3, <1>5, <1>7 DEF Able, Serves, Idle
<1>9. Serves(b, t, term)
  BY <1>8, FinishServes
<1> HIDE DEF t
<1>10. Serves(n, t, term)
  BY <1>1, <1>8, <1>9, ServesTrans
<1> QED BY <1>1, <1>10

\* onAppendReply answers as maybeCommit and ackReads do.
LEMMA AcknowledgedServes ==
    ASSUME NEW n, NEW i \in Server, NEW term \in Nat, Able(n, term),
           NEW m \in AppendReplies, m.from # i, Ends(n, term)
    PROVE  Serves(n, Acknowledged(n, i, term, m), term)
<1> DEFINE j     == m.from
           match == CASE m.match > n.match[j]                             -> m.match
                      [] m.match <= n.match[j] /\ m.hint - 1 > n.match[j] -> m.hint - 1
                      [] OTHER                                            -> n.match[j]
           c == [n EXCEPT !.match[j] = match, !.next[j] = match + 1]
           k == AckReads(c, j)
           a == MaybeCommit(k, i, term)
           b == IF match + 1 <= LastIndex(a.log) THEN SendTo(a, i, term, {j}) ELSE a
           p == MaybePromoteLearner(b, i, term, j)
<1>1. /\ n \in Nodes /\ j \in Server /\ m.match \in Nat /\ m.hint \in Nat /\ n.match[j] \in Nat
      /\ n.commit \in Nat /\ Len(n.log.ents) \in Nat
  BY PlainLog DEF AppendReplies, Nodes, Plain, Able
<1>2. match \in Nat
  BY <1>1
<1>3. p = Acknowledged(n, i, term, m)
  BY DEF Acknowledged
<1> HIDE DEF match
<1>4. c \in Nodes
  <2> DEFINE next == match + 1
  <2>1. next \in Nat
    BY <1>2
  <2> HIDE DEF next
  <2>2. [n EXCEPT !.match[j] = match, !.next[j] = next] \in Nodes
    BY <1>1, <1>2, <2>1, ProgressType
  <2> QED BY <2>2 DEF next
<1>5. Idle(n, c) /\ Untouched(n, c)
  BY <1>1 DEF Idle, Quiet, Nodes, Untouched
<1> HIDE DEF c
<1>6. Serves(n, c, term) /\ Ends(c, term)
  <2>1. Plain(c) /\ Sound(c)
    BY <1>4, <1>5, QuietGrows DEF Grown, Idle, Quiet, Able, Sound
  <2>2. n.commit <= c.commit /\ Len(n.log.ents) <= Len(c.log.ents)
    BY <1>1, <1>5 DEF Idle, Quiet
  <2>3. \A x \in 1..Len(n.log.ents) : c.log.ents[x] = n.log.ents[x]
    BY <1>5 DEF Idle, Quiet
  <2>4. Ends(c, term)
    BY <1>5 DEF Ends, Idle, Quiet
  <2> QED BY <1>5, <2>1, <2>2, <2>3, <2>4, UntouchedServes
<1>7. Serves(c, k, term) /\ Ends(k, term)
  <2>1. Serves(c, k, term)
    BY <1>1, <1>6, AckServes DEF Serves
  <2>2. Idle(c, k)
    BY <1>1, <1>4, IdleSteps
  <2> HIDE DEF k
  <2> QED BY <1>6, <2>1, <2>2 DEF Ends, Idle, Quiet
<1> HIDE DEF k
<1>8. Serves(k, a, term) /\ Ends(a, term)
  BY <1>7, CommitServes, MaybeCommitGrows, EndsGrow DEF Serves, Able
<1> HIDE DEF a
<1>9. Serves(a, b, term)
  BY <1>1, <1>8, SendServes, AbleServes DEF Serves
<1> HIDE DEF b
<1>10. Serves(b, p, term)
  BY <1>1, <1>9, PromoteServes DEF Serves
<1> HIDE DEF p
<1>11. Serves(n, k, term)
  BY <1>1, <1>6, <1>7, ServesTrans
<1>12. Serves(n, a, term)
  BY <1>1, <1>8, <1>11, ServesTrans
<1>13. Serves(n, b, term)
  BY <1>1, <1>9, <1>12, ServesTrans
<1>14. Serves(n, p, term)
  BY <1>1, <1>10, <1>13, ServesTrans
<1> QED BY <1>3, <1>14

LEMMA BackedUpServes ==
    ASSUME NEW n, NEW i \in Server, NEW term \in Nat, Able(n, term),
           NEW m \in AppendReplies, m.from # i, Ends(n, term)
    PROVE  Serves(n, BackedUp(n, i, term, m), term)
<1> DEFINE j    == m.from
           last == LastIndexOfTerm(n.log, m.conflictTerm)
           next == CASE m.conflictTerm # 0 /\ last > 0 -> last + 1
                     [] ~(m.conflictTerm # 0 /\ last > 0) /\ m.conflictIndex > 0 -> m.conflictIndex
                     [] OTHER -> MaxOf(NextOf(n, j) - 1, 1)
           k == [n EXCEPT !.next[j] = next]
           b == SendTo(k, i, term, {j})
<1>1. n \in Nodes /\ j \in Server /\ n.commit \in Nat /\ Len(n.log.ents) \in Nat
  BY PlainLog DEF AppendReplies, Nodes, Plain, Able
<1>2. next \in Nat
  BY <1>1, BackedUpNext
<1>3. b = BackedUp(n, i, term, m)
  BY DEF BackedUp
<1> HIDE DEF next
<1>4. k \in Nodes
  BY <1>1, <1>2, ProgressType
<1>5. Idle(n, k) /\ Untouched(n, k)
  BY <1>1 DEF Idle, Quiet, Nodes, Untouched
<1> HIDE DEF k
<1>6. Serves(n, k, term) /\ Ends(k, term)
  <2>1. Plain(k) /\ Sound(k)
    BY <1>4, <1>5, QuietGrows DEF Grown, Idle, Quiet, Able, Sound
  <2>2. n.commit <= k.commit /\ Len(n.log.ents) <= Len(k.log.ents)
    BY <1>1, <1>5 DEF Idle, Quiet
  <2>3. \A x \in 1..Len(n.log.ents) : k.log.ents[x] = n.log.ents[x]
    BY <1>5 DEF Idle, Quiet
  <2>4. Ends(k, term)
    BY <1>5 DEF Ends, Idle, Quiet
  <2> QED BY <1>5, <2>1, <2>2, <2>3, <2>4, UntouchedServes
<1>7. Serves(k, b, term)
  BY <1>1, <1>6, SendServes DEF Serves
<1> HIDE DEF b
<1>8. Serves(n, b, term)
  BY <1>1, <1>6, <1>7, ServesTrans
<1> QED BY <1>3, <1>8

\* Where nobody waits, nobody is answered.
Mute(n, b) == Silent(b) /\ b.acked = n.acked /\ b.missed = n.missed

LEMMA MuteSteps ==
    ASSUME NEW n \in Nodes
    PROVE  /\ Mute(n, FailPending(n))
           /\ Silent(n) => Mute(n, MaybeApply(n)) /\ Mute(n, Housekeeping(n)) /\ Mute(n, n)
           /\ Silent(n) => \A c \in Nat : Mute(n, FollowCommit(n, c))
           /\ Silent(n) => \A es : Mute(n, TakeEntries(n, es))
<1>1. Mute(n, FailPending(n))
  BY DEF FailPending, Mute, Silent, Nodes
<1>2. ASSUME NEW k \in Nodes, Silent(k) PROVE Mute(k, TryFinishReads(k))
  <2>1. TryFinishReads(k) = [k EXCEPT !.reads = @ \ {}, !.missed = @ \cup {}]
    <3>1. {r \in k.reads : Answerable(k, r)} = {}
      BY <1>2 DEF Silent
    <3>2. UNION {[term : {r.term}, entry : Unseen(k, r)] : r \in {}} = {}
      OBVIOUS
    <3> QED BY <3>1, <3>2 DEF TryFinishReads
  <2> QED BY <1>2, <2>1 DEF Mute, Silent, Nodes
<1>3. ASSUME NEW k \in Nodes, Silent(k) PROVE Mute(k, ApplyCommitted(k))
  <2> DEFINE base == k.log.snapIndex
             from == IF k.applied < k.commit
                     THEN MaxOf(k.applied, MinOf(base, k.commit)) ELSE k.applied
             to   == MinOf(k.commit, base + Len(k.log.ents))
             run  == SubSeq(k.log.ents, from - base + 1, to - base)
             D    == {x \in 1..(to - from) : from + x \in k.waiting}
             told == {run[x] : x \in D}
  <2>1. ApplyCommitted(k) =
          IF from < base \/ to <= from THEN [k EXCEPT !.applied = from]
          ELSE [k EXCEPT !.applied = to, !.sm = @ \o run, !.acked = @ \cup told,
                         !.waiting = @ \ (from + 1 .. to)]
    BY DEF ApplyCommitted
  <2>2. told = {}
    <3>1. D = {}
      BY <1>3 DEF Silent
    <3> HIDE DEF D, run
    <3> QED BY <3>1
  <2> HIDE DEF from, to, run, told, base
  <2> QED BY <1>3, <2>1, <2>2 DEF Mute, Silent, Nodes
<1>4. ASSUME NEW k \in Nodes, Silent(k) PROVE Mute(k, MaybeApply(k)) /\ MaybeApply(k) \in Nodes
  <2> DEFINE a == ApplyCommitted(k)
  <2>1. a \in Nodes /\ Mute(k, a)
    BY <1>3, <1>4, ApplyCommittedType
  <2> HIDE DEF a
  <2>2. Mute(a, TryFinishReads(a))
    BY <1>2, <2>1 DEF Mute
  <2> QED BY <2>1, <2>2, MaybeApplyType DEF Mute, MaybeApply, a
<1>5. ASSUME NEW k \in Nodes PROVE Untouched(k, MaybeSnapshot(k))
  BY DEF MaybeSnapshot, Untouched, Nodes
<1>6. Silent(n) => Mute(n, Housekeeping(n))
  <2> DEFINE a == MaybeApply(n)
             b == MaybeSnapshot(a)
  <2>1. Silent(n) => Mute(n, a) /\ a \in Nodes
    BY <1>4
  <2>2. Housekeeping(n) = b
    BY DEF Housekeeping
  <2> HIDE DEF a
  <2>3. Silent(n) => Untouched(a, b)
    BY <1>5, <2>1
  <2> HIDE DEF b
  <2> QED BY <2>1, <2>2, <2>3 DEF Mute, Silent, Untouched
<1>7. Silent(n) => Mute(n, n)
  BY DEF Mute
<1>8. ASSUME Silent(n), NEW c \in Nat PROVE Mute(n, FollowCommit(n, c))
  <2> DEFINE x == MinOf(c, LastIndex(n.log))
             d == [n EXCEPT !.commit = x]
             b == MaybeApply(d)
  <2>1. FollowCommit(n, c) = b \/ FollowCommit(n, c) = n
    BY DEF FollowCommit
  <2>2. x \in Nat
    BY LogReads DEF MinOf, Nodes
  <2> HIDE DEF x
  <2>3. d \in Nodes /\ Untouched(n, d)
    BY <2>2 DEF Nodes, Untouched
  <2> HIDE DEF d
  <2>4. Mute(d, b)
    BY <1>4, <1>8, <2>3 DEF Silent, Untouched
  <2> HIDE DEF b
  <2> QED BY <1>7, <1>8, <2>1, <2>3, <2>4 DEF Mute, Untouched
<1>9. ASSUME Silent(n), NEW es PROVE Mute(n, TakeEntries(n, es))
  <2>1. Untouched(n, TakeEntries(n, es))
    BY DEF TakeEntries, ApplyConfig, Nodes, Untouched
  <2> QED BY <1>9, <2>1 DEF Mute, Untouched, Silent
<1> QED BY <1>1, <1>4, <1>6, <1>7, <1>8, <1>9

-----------------------------------------------------------------------------
(***************************************************************************)
(* What every action does to those who wait.                               *)
(***************************************************************************)

\* What a step of node s does: who is no leader fails those who wait, a leader answers
\* for entries of its term, and is elected in a term it has not led.
ReadStep(s) ==
    /\ role'[s] # "follower" => s \in Voters
    /\ role'[s] # "leader" => Mute(node[s], node'[s])
    /\ role'[s] = "leader" =>
          /\ Fine(node'[s], hs'[s].term)
          /\ node[s].commit <= node'[s].commit
          /\ \A e \in node'[s].acked :
                e \in node[s].acked \/ (e.term = hs'[s].term /\ e.index <= node'[s].commit)
          /\ \/ role[s] = "leader" /\ hs'[s].term = hs[s].term
             \/ role[s] = "candidate" \/ hs'[s].term > hs[s].term

\* The state before a step.
Reading == Ready /\ ReadInv

LEMMA ReadingNode ==
    ASSUME Reading, NEW i \in Server
    PROVE  /\ role[i] # "follower" => i \in Voters
           /\ role[i] # "leader" => Silent(node[i]) /\ \A term : Able(node[i], term)
           /\ Able(node[i], hs[i].term)
           /\ node[i] \in Nodes
<1>1. Plain(node[i]) /\ Sound(node[i]) /\ node[i] \in Nodes
  BY ReadyNode DEF Reading
<1>2. node[i].missed = {} /\ ReadsFit(node[i])
  BY DEF Reading, ReadInv, ReadsCurrent
<1>3. Able(node[i], hs[i].term)
  BY <1>1, <1>2 DEF Reading, ReadInv, PendingAtLeaders, Able, Fine
<1>4. role[i] # "leader" => Silent(node[i])
  BY DEF Reading, ReadInv, PendingAtLeaders, Silent
<1>5. role[i] # "leader" => \A term : Able(node[i], term)
  BY <1>1, <1>2, <1>4, SilentFine DEF Able
<1> QED BY <1>1, <1>3, <1>4, <1>5 DEF Reading, ReadInv, PendingAtLeaders

LEMMA FinishedReads ==
    ASSUME TypeOK, NEW i \in Server, NEW n \in Nodes, NEW done, NEW replies, NEW calls,
           Finish(i, n, done, replies, calls)
    PROVE  /\ Untouched(n, node'[i]) /\ node'[i].log = n.log /\ node'[i].commit = n.commit
<1> DEFINE rest == [n EXCEPT !.out = {}]
<1>1. Untouched(n, rest) /\ rest.log = n.log /\ rest.commit = n.commit
  BY DEF Nodes, Untouched
<1>2. node' = [node EXCEPT ![i] = rest]
  BY DEF Finish
<1> HIDE DEF rest
<1>3. node'[i] = rest
  BY <1>2 DEF TypeOK
<1> QED BY <1>1, <1>3

\* The end of a handler of a node that is no leader.
LEMMA MuteEnd ==
    ASSUME TypeOK, NEW i \in Server, role'[i] # "leader", role'[i] # "follower" => i \in Voters,
           NEW n \in Nodes, Mute(node[i], n),
           NEW done, NEW replies, NEW calls, Finish(i, n, done, replies, calls)
    PROVE  ReadStep(i)
<1>1. Untouched(n, node'[i])
  BY FinishedReads
<1> QED BY <1>1 DEF ReadStep, Mute, Silent, Untouched

\* The end of a handler of a leader.
LEMMA ServesEnd ==
    ASSUME TypeOK, NEW i \in Voters, i \in Server, role'[i] = "leader",
           NEW n \in Nodes, Serves(node[i], n, hs'[i].term),
           \/ role[i] = "leader" /\ hs'[i].term = hs[i].term
           \/ role[i] = "candidate" \/ hs'[i].term > hs[i].term,
           NEW done, NEW replies, NEW calls, Finish(i, n, done, replies, calls)
    PROVE  ReadStep(i)
<1>1. Untouched(n, node'[i]) /\ node'[i].log = n.log /\ node'[i].commit = n.commit
  BY FinishedReads
<1>2. Fine(n, hs'[i].term)
  BY DEF Serves, Able
<1>3. Fine(node'[i], hs'[i].term)
  <2>1. PICK b : b = node'[i]
    OBVIOUS
  <2>2. Fine(b, hs'[i].term)
    BY <1>1, <1>2, <2>1 DEF Fine, ReadsFit, Untouched
  <2> QED BY <2>1, <2>2
<1>4. /\ node[i].commit <= node'[i].commit
      /\ \A e \in node'[i].acked :
            e \in node[i].acked \/ (e.term = hs'[i].term /\ e.index <= node'[i].commit)
  BY <1>1 DEF Serves, Untouched
<1> QED BY <1>3, <1>4 DEF ReadStep

LEMMA LeaderReads ==
    ASSUME Reading, NEW i \in Server, role[i] = "leader", UNCHANGED <<hs, role>>,
           NEW n, Serves(node[i], n, hs[i].term),
           NEW done, Finish(i, n, done, {}, {})
    PROVE  ReadStep(i)
<1> DEFINE none == {}
<1>1. i \in Voters /\ TypeOK /\ n \in Nodes
  BY ReadingNode DEF Reading, Ready, Serves, Able, Plain
<1>2. Finish(i, n, done, none, none) /\ role'[i] = "leader" /\ hs'[i].term = hs[i].term
  OBVIOUS
<1> HIDE DEF none
<1> QED BY <1>1, <1>2, ServesEnd

LEMMA TickReads ==
    ASSUME Reading, Uncompacted', NEW i \in Server, Heartbeat(i) \/ IdleTick(i)
    PROVE  ReadStep(i)
<1> DEFINE term == hs[i].term
           none == {}
<1>1. /\ TypeOK /\ Ready /\ term \in Nat /\ UNCHANGED <<hs, role>> /\ Able(node[i], term)
      /\ node[i] \in Nodes
  BY ReadyNode, ReadingNode DEF Heartbeat, IdleTick, Ready, Reading
<1>2. CASE Heartbeat(i)
  <2> DEFINE n == Bcast(node[i], i, term)
             b == Housekeeping(n)
  <2>1. role[i] = "leader" /\ Finish(i, b, none, none, none)
    BY <1>2 DEF Heartbeat
  <2>2. Serves(node[i], n, term)
    BY <1>1, <2>1, ReadyNode, BcastServes
  <2> HIDE DEF n
  <2>3. Plain(n)
    BY <2>2 DEF Serves, Able
  <2>4. b.snap.index = 0
    BY <1>1, <2>1, <2>3, NoSnapshotTaken
  <2>5. Serves(n, b, term)
    BY <2>2, <2>4, HousekeepingServes DEF Serves
  <2> HIDE DEF b
  <2>6. Serves(node[i], b, term)
    BY <1>1, <2>2, <2>5, ServesTrans
  <2> QED BY <1>1, <2>1, <2>6, LeaderReads
<1>3. CASE IdleTick(i)
  <2> DEFINE b == Housekeeping(node[i])
  <2>1. Finish(i, b, none, none, none)
    BY <1>3 DEF IdleTick
  <2>2. b.snap.index = 0
    BY <1>1, <2>1, ReadyNode, NoSnapshotTaken
  <2>3. CASE role[i] = "leader"
    <3>1. Serves(node[i], b, term)
      BY <1>1, <2>2, HousekeepingServes
    <3> HIDE DEF b
    <3> QED BY <1>1, <2>1, <2>3, <3>1, LeaderReads
  <2>4. CASE role[i] # "leader"
    <3>1. Mute(node[i], b) /\ b \in Nodes
      BY <1>1, <2>4, ReadingNode, MuteSteps, HousekeepingType
    <3>2. role'[i] # "leader" /\ (role'[i] # "follower" => i \in Voters)
      BY <1>1, <2>4, ReadingNode
    <3> HIDE DEF b, none
    <3> QED BY <1>1, <2>1, <3>1, <3>2, MuteEnd
  <2> QED BY <2>3, <2>4
<1> QED BY <1>2, <1>3

LEMMA ProposeReads ==
    ASSUME Reading, NEW i \in Server, NEW v \in Value, Propose(i, v)
    PROVE  ReadStep(i)
<1> DEFINE term == hs[i].term
           a == AppendData(node[i], i, term, "normal", v)
           w == [a EXCEPT !.waiting = @ \cup {LastIndex(a.log)}]
           c == MaybeCommit(w, i, term)
           b == Bcast(c, i, term)
<1>1. node[i] \in Nodes /\ term \in Nat /\ Able(node[i], term)
  BY ReadyNode, ReadingNode DEF Reading
<1>2. role[i] = "leader" /\ UNCHANGED <<hs, role>> /\ Finish(i, b, {}, {}, {})
  BY DEF Propose
<1>3. Serves(node[i], a, term) /\ Ends(a, term)
  <2>1. <<"normal", v>> \in Payloads
    BY DEF Payloads
  <2> QED BY <1>1, <2>1, AppendServes
<1> HIDE DEF a
<1>4. /\ a \in Nodes /\ Plain(a) /\ Sound(a) /\ Fine(a, term) /\ LastIndex(a.log) = Len(a.log.ents)
      /\ Len(a.log.ents) \in Nat /\ a.commit \in Nat
  BY <1>3, AlignedReads, PlainLog DEF Serves, Able, Plain, Nodes
<1>5. Idle(a, w) /\ w.waiting = a.waiting \cup {Len(a.log.ents)} /\ w.reads = a.reads
      /\ w.missed = a.missed /\ w \in Nodes
  BY <1>4 DEF Nodes, Quiet, Idle
<1> HIDE DEF w
<1>6. Plain(w) /\ Sound(w) /\ Ends(w, term)
  <2>1. Plain(w)
    BY <1>4, <1>5, QuietGrows DEF Grown, Idle
  <2> QED BY <1>3, <1>4, <1>5, <2>1 DEF Sound, Idle, Quiet, Ends
<1>7. Fine(w, term)
  <2>1. Len(a.log.ents) \in 1..Len(a.log.ents) /\ a.log.ents[Len(a.log.ents)].term = term
    BY <1>3, <1>4 DEF Ends
  <2> QED BY <1>4, <1>5, <2>1 DEF Fine, ReadsFit, Idle, Quiet
<1>8. Serves(a, w, term)
  BY <1>4, <1>5, <1>6, <1>7 DEF Serves, Able, Idle
<1>9. Serves(w, c, term) /\ Ends(c, term)
  BY <1>1, <1>6, <1>8, CommitServes, MaybeCommitGrows, EndsGrow DEF Serves
<1> HIDE DEF c
<1>10. Serves(c, b, term)
  BY <1>1, <1>9, BcastServes DEF Serves
<1> HIDE DEF b
<1>11. Serves(node[i], w, term)
  BY <1>1, <1>3, <1>8, ServesTrans
<1>12. Serves(node[i], c, term)
  BY <1>1, <1>9, <1>11, ServesTrans
<1>13. Serves(node[i], b, term)
  BY <1>1, <1>10, <1>12, ServesTrans
<1> QED BY <1>2, <1>13, LeaderReads

\* LinearizableRead waits for all that was promised, if the commit index is past it.
LEMMA LinearizableReadReads ==
    ASSUME Reading, NEW i \in Server, LinearizableRead(i),
           \A e \in Promised : e.index \in 1..node[i].commit /\ node[i].log.ents[e.index] = e
    PROVE  ReadStep(i)
<1> DEFINE n == node[i]
           term == hs[i].term
           r == Read(i, n.commit, term, Promised)
           a == [n EXCEPT !.reads = @ \cup {r}]
           c == Bcast(a, i, term)
           b == TryFinishReads(c)
<1>1. Plain(n) /\ Sound(n) /\ term \in Nat /\ n \in Nodes /\ Ends(n, term) /\ Able(n, term)
      /\ n.commit \in Nat
  BY ReadyNode, ReadingNode DEF Reading, LinearizableRead
<1>2. role[i] = "leader" /\ UNCHANGED <<hs, role>> /\ Finish(i, b, {}, {}, {})
  BY DEF LinearizableRead
<1>3. r \in Reads /\ r.index = n.commit /\ r.known = Promised
  <2>1. Promised \subseteq Entries
    BY DEF Promised, Reading, Ready, TypeOK, Nodes
  <2> QED BY <1>1, <2>1 DEF Read, Reads
<1> HIDE DEF r
<1>4. a \in Nodes /\ Idle(n, a) /\ a.reads = n.reads \cup {r} /\ a.waiting = n.waiting
      /\ a.missed = n.missed
  BY <1>1, <1>3 DEF Nodes, Quiet, Idle
<1>5. ReadsFit(a)
  <2>1. n.commit <= Len(n.log.ents) /\ ReadsFit(n) /\ a.log = n.log
    BY <1>1, <1>4 DEF Sound, Able, Fine, Idle, Quiet
  <2>2. \A e \in r.known : /\ r.index <= Len(n.log.ents)
                           /\ e.index \in 1..r.index /\ n.log.ents[e.index] = e
    BY <1>3, <2>1
  <2> HIDE DEF a, n
  <2> QED BY <1>4, <2>1, <2>2 DEF ReadsFit
<1> HIDE DEF a
<1>6. Plain(a) /\ Sound(a) /\ Ends(a, term)
  <2>1. Plain(a)
    BY <1>1, <1>4, QuietGrows DEF Grown, Idle
  <2> QED BY <1>1, <1>4, <2>1 DEF Sound, Idle, Quiet, Ends
<1>7. Serves(n, a, term)
  <2>1. Fine(a, term)
    BY <1>1, <1>4, <1>5 DEF Able, Fine, Idle, Quiet
  <2> QED BY <1>1, <1>4, <1>6, <2>1 DEF Serves, Able, Idle
<1>8. Serves(a, c, term)
  BY <1>1, <1>6, <1>7, BcastServes DEF Serves
<1> HIDE DEF c
<1>9. Serves(c, b, term)
  BY <1>8, FinishServes DEF Serves
<1> HIDE DEF b
<1>10. Serves(n, c, term)
  BY <1>1, <1>7, <1>8, ServesTrans
<1>11. Serves(n, b, term)
  BY <1>1, <1>9, <1>10, ServesTrans
<1> QED BY <1>2, <1>11, LeaderReads

LEMMA ChangeMembershipReads ==
    ASSUME Reading, NEW i \in Server, NEW c \in Changes, ChangeMembership(i, c)
    PROVE  ReadStep(i)
<1> DEFINE next == Changed(node[i].conf, c)
           term == hs[i].term
           b    == Accept(node[i], i, term, "config", next)
<1>1. node[i] \in Nodes /\ term \in Nat /\ Able(node[i], term)
  BY ReadyNode, ReadingNode DEF Reading
<1>2. role[i] = "leader" /\ UNCHANGED <<hs, role>> /\ Finish(i, b, {}, {}, {})
  BY DEF ChangeMembership
<1>3. <<"config", next>> \in Payloads
  <2>1. node[i].conf \in Membership
    BY <1>1 DEF Nodes
  <2>2. c.add \in Server \cup {None}
    BY BoundsAssumption
  <2>3. next \in Membership
    BY <2>1, <2>2 DEF Changed, Membership
  <2> QED BY <2>3 DEF Payloads
<1>4. Serves(node[i], b, term)
  BY <1>1, <1>3, AcceptServes
<1> HIDE DEF b
<1> QED BY <1>2, <1>4, LeaderReads

LEMMA StepDownReads ==
    ASSUME Reading, NEW i \in Server, NEW term, NEW done, BecomeFollower(i, term),
           Finish(i, FailPending(node[i]), done, {}, {})
    PROVE  ReadStep(i)
<1> DEFINE n == FailPending(node[i])
           none == {}
<1>1. TypeOK /\ Mute(node[i], n) /\ n \in Nodes /\ Finish(i, n, done, none, none)
  BY ReadingNode, MuteSteps, FailPendingType DEF Reading, Ready
<1>2. role'[i] = "follower"
  BY <1>1 DEF BecomeFollower, TypeOK
<1> HIDE DEF n, none
<1> QED BY <1>1, <1>2, MuteEnd

LEMMA CampaignReads ==
    ASSUME Reading, Uncompacted', NEW i \in Server, Campaign(i)
    PROVE  ReadStep(i)
<1> DEFINE term == hs[i].term + 1
           wins == 1 >= Quorum(node[i].conf)
           e    == Elected(node[i], i, term)
           n    == IF wins THEN e ELSE node[i]
           b    == Housekeeping(n)
           calls == IF wins THEN {} ELSE VoteCalls(i, term)
           none == {}
<1>1. /\ TypeOK /\ node[i] \in Nodes /\ Plain(node[i]) /\ hs[i].term \in Nat /\ term \in Nat
      /\ role[i] # "leader" /\ node[i].conf.voters = Voters
  BY ReadyNode DEF Reading, Ready, Campaign
<1>2. /\ hs' = [hs EXCEPT ![i] = Persisted(i, term, i)]
      /\ role' = [role EXCEPT ![i] = IF wins THEN "leader" ELSE "candidate"]
      /\ Finish(i, b, none, none, calls) /\ i \in Voters
  BY <1>1 DEF Campaign
<1>3. /\ hs'[i].term = term /\ hs'[i].term > hs[i].term
      /\ role'[i] = IF wins THEN "leader" ELSE "candidate"
  <2> HIDE DEF wins
  <2> QED BY <1>1, <1>2 DEF Persisted, TypeOK
<1>4. Able(node[i], term) /\ Silent(node[i])
  BY <1>1, ReadingNode
<1>5. Serves(node[i], e, term)
  BY <1>1, <1>4, ElectedServes
<1> HIDE DEF term, wins, e, calls
<1>6. CASE wins
  <2>1. n = e
    BY <1>6
  <2> HIDE DEF n
  <2>2. Plain(n) /\ Able(n, term) /\ Serves(node[i], n, term)
    BY <1>5, <2>1 DEF Serves, Able
  <2>3. b.snap.index = 0
    BY <1>1, <1>2, <2>2, NoSnapshotTaken
  <2>4. Serves(n, b, term)
    BY <2>2, <2>3, HousekeepingServes
  <2> HIDE DEF b, none
  <2>5. Serves(node[i], b, hs'[i].term)
    BY <1>1, <1>3, <2>2, <2>4, ServesTrans
  <2>6. b \in Nodes
    BY <2>5 DEF Serves, Able, Plain
  <2> QED BY <1>1, <1>2, <1>3, <1>6, <2>5, <2>6, ServesEnd
<1>7. CASE ~wins
  <2>1. n = node[i]
    BY <1>7
  <2> HIDE DEF n
  <2>2. Mute(node[i], b) /\ b \in Nodes
    BY <1>1, <1>4, <2>1, MuteSteps, HousekeepingType
  <2>3. role'[i] # "leader"
    BY <1>3, <1>7
  <2> HIDE DEF b, none
  <2> QED BY <1>1, <1>2, <2>2, <2>3, MuteEnd
<1> QED BY <1>6, <1>7

LEMMA HandleRequestVoteReads ==
    ASSUME Reading, NEW m \in msgs, HandleRequestVote(m)
    PROVE  ReadStep(m.to)
<1> DEFINE i     == m.to
           newer == m.term > hs[i].term
           known == SteppedDown(i, m.term)
           grant == /\ m.term >= hs[i].term
                    /\ known.votedFor \in {None, m.from}
                    /\ UpToDate(node[i].log, m.lastIndex, m.lastTerm)
           n     == IF newer THEN FailPending(node[i]) ELSE node[i]
           replies == {VoteReply(m, known.term, grant)}
           none  == {}
<1>1. /\ Finish(i, n, Delivered(m), replies, none)
      /\ hs' = [hs EXCEPT ![i] = IF grant THEN Persisted(i, m.term, m.from) ELSE known]
      /\ role' = [role EXCEPT ![i] = IF newer THEN "follower" ELSE @]
  BY DEF HandleRequestVote
<1>2. TypeOK /\ i \in Server /\ m.term \in Nat
  BY MessageFields DEF TypeOK, Ready, Reading
<1>3. node[i] \in Nodes /\ Able(node[i], hs[i].term) /\ hs[i].term \in Nat
  BY <1>2, ReadingNode, ReadyNode DEF Reading
<1>4. role'[i] = IF newer THEN "follower" ELSE role[i]
  <2> HIDE DEF newer
  <2> QED BY <1>1, <1>2 DEF TypeOK
<1>5. ~newer => hs'[i].term = hs[i].term
  <2>1. ASSUME ~newer PROVE known = hs[i] /\ (grant => m.term = hs[i].term)
    BY <1>2, <1>3, <2>1 DEF SteppedDown
  <2>2. ASSUME ~newer PROVE (IF grant THEN Persisted(i, m.term, m.from) ELSE known).term = hs[i].term
    <3> HIDE DEF grant, known, newer
    <3> QED BY <2>1, <2>2 DEF Persisted
  <2> DEFINE h == IF grant THEN Persisted(i, m.term, m.from) ELSE known
  <2>3. hs'[i] = h
    <3> HIDE DEF h
    <3> QED BY <1>1, <1>2 DEF TypeOK, h
  <2> QED BY <2>2, <2>3
<1>6. role'[i] # "follower" => i \in Voters
  BY <1>2, <1>4, ReadingNode
<1> HIDE DEF replies, none, i, grant, known
<1>7. CASE role'[i] # "leader"
  <2>1. Mute(node[i], n) /\ n \in Nodes
    <3>1. ~newer => Silent(node[i])
      BY <1>2, <1>4, <1>7, ReadingNode
    <3> HIDE DEF newer
    <3> QED BY <1>3, <3>1, MuteSteps, FailPendingType
  <2> HIDE DEF n
  <2> QED BY <1>1, <1>2, <1>6, <1>7, <2>1, MuteEnd DEF i
<1>8. CASE role'[i] = "leader"
  <2>1. ~newer /\ role[i] = "leader" /\ hs'[i].term = hs[i].term
    BY <1>4, <1>5, <1>8
  <2>2. n = node[i]
    BY <2>1
  <2> HIDE DEF n, newer
  <2>3. Serves(node[i], n, hs'[i].term)
    BY <1>3, <2>1, <2>2, AbleServes
  <2> QED BY <1>1, <1>2, <1>3, <1>6, <1>8, <2>1, <2>2, <2>3, ServesEnd DEF i
<1> QED BY <1>7, <1>8

LEMMA OnVoteReplyReads ==
    ASSUME Reading, ElectionInv, NEW m \in msgs, OnVoteReply(m)
    PROVE  ReadStep(m.to)
<1> DEFINE i       == m.to
           counted == votes[i] \cup {m.from}
           wins    == Cardinality(counted) >= Quorum(node[i].conf)
           n       == IF wins THEN Elected(node[i], i, hs[i].term) ELSE node[i]
           none    == {}
<1>1. TypeOK /\ i \in Server /\ m.term \in Nat /\ m.type = "RequestVoteReply"
  BY MessageFields DEF TypeOK, Reading, Ready, OnVoteReply
<1>2. CASE /\ BecomeFollower(i, m.term)
           /\ Finish(i, FailPending(node[i]), {m}, {}, {})
  BY <1>1, <1>2, StepDownReads
<1>3. CASE /\ m.granted /\ UNCHANGED hs
           /\ role'  = [role EXCEPT ![i] = IF wins THEN "leader" ELSE @]
           /\ Finish(i, n, {m}, none, none)
  <2>1. role[i] = "candidate"
    BY <1>1, <1>3 DEF ElectionInv, BallotsGenuine
  <2>2. /\ node[i] \in Nodes /\ Able(node[i], hs[i].term) /\ Silent(node[i]) /\ i \in Voters
        /\ hs[i].term \in Nat /\ hs'[i].term = hs[i].term
    BY <1>1, <1>3, <2>1, ReadingNode, ReadyNode DEF Reading
  <2>3. role'[i] = IF wins THEN "leader" ELSE "candidate"
    <3> HIDE DEF wins
    <3> QED BY <1>1, <1>3, <2>1 DEF TypeOK
  <2>4. CASE wins
    <3>1. Serves(node[i], n, hs'[i].term)
      BY <1>1, <2>2, <2>4, ElectedServes
    <3> HIDE DEF n, none, wins
    <3>2. n \in Nodes
      BY <3>1 DEF Serves, Able, Plain
    <3> QED BY <1>1, <1>3, <2>1, <2>2, <2>3, <2>4, <3>1, <3>2, ServesEnd
  <2>5. CASE ~wins
    <3>1. Mute(node[i], n) /\ n \in Nodes
      BY <2>2, <2>5, MuteSteps
    <3> HIDE DEF n, none, wins
    <3> QED BY <1>1, <1>3, <2>2, <2>3, <2>5, <3>1, MuteEnd
  <2> QED BY <2>4, <2>5
<1> QED BY <1>2, <1>3 DEF OnVoteReply

LEMMA OnAppendReplyReads ==
    ASSUME Reading, NEW m \in msgs, OnAppendReply(m)
    PROVE  ReadStep(m.to)
<1> DEFINE i    == m.to
           j    == m.from
           term == hs[i].term
           n    == IF m.success THEN Acknowledged(node[i], i, term, m)
                   ELSE BackedUp(node[i], i, term, m)
<1>1. TypeOK /\ Ready /\ i \in Server /\ j \in Server /\ m.term \in Nat /\ m \in AppendReplies
  BY MessageFields DEF TypeOK, OnAppendReply, Reading, Ready
<1>2. CASE BecomeFollower(i, m.term) /\ Finish(i, FailPending(node[i]), {m}, {}, {})
  BY <1>1, <1>2, StepDownReads
<1>3. CASE m.term <= term /\ UNCHANGED <<hs, role, votes>> /\ Finish(i, n, {m}, {}, {})
  <2>1. role[i] = "leader" /\ j # i
    BY <1>1 DEF OnAppendReply, Ready, LogInv, NoTransfers, MatchInv, RepliesCurrent
  <2>2. Able(node[i], term) /\ term \in Nat /\ Ends(node[i], term)
    BY <1>1, <2>1, ReadyNode, ReadingNode
  <2>3. Serves(node[i], n, term)
    <3>1. CASE m.success
      <4>1. n = Acknowledged(node[i], i, term, m)
        BY <3>1
      <4> HIDE DEF n
      <4> QED BY <1>1, <2>1, <2>2, <4>1, AcknowledgedServes
    <3>2. CASE ~m.success
      <4>1. n = BackedUp(node[i], i, term, m)
        BY <3>2
      <4> HIDE DEF n
      <4> QED BY <1>1, <2>1, <2>2, <4>1, BackedUpServes
    <3> QED BY <3>1, <3>2
  <2> HIDE DEF n
  <2> QED BY <1>1, <1>3, <2>1, <2>3, LeaderReads
<1> QED BY <1>2, <1>3 DEF OnAppendReply

LEMMA HandleAppendEntriesReads ==
    ASSUME Reading, NEW m \in msgs, HandleAppendEntries(m)
    PROVE  ReadStep(m.to)
<1> DEFINE i == m.to
           stepsDown == m.term > hs[i].term \/ role[i] # "follower"
           n     == IF stepsDown THEN FailPending(node[i]) ELSE node[i]
           t     == TakeEntries(n, m.ents)
           taken == FollowCommit(t, m.commit)
           late     == {AppendReply(m, hs[i].term, FALSE, 0, 0, 0)}
           refused  == {Rejection(n.log, m, m.term)}
           accepted == {AppendReply(m, m.term, TRUE, LastIndex(taken.log), 0, 0)}
           none     == {}
<1>1. /\ TypeOK /\ i \in Server /\ m.ents \in Seq(Entries) /\ m.commit \in Nat
      /\ m.type = "AppendEntries"
  <2>1. m \in AppendsUnderWay
    BY DEF HandleAppendEntries, AppendsUnderWay
  <2> QED BY <2>1, CallTypes DEF Ready, Reading, AppendCalls, AppendsUnderWay
<1>2. node[i] \in Nodes /\ Able(node[i], hs[i].term) /\ (role[i] # "follower" => i \in Voters)
      /\ (role[i] # "leader" => Silent(node[i]))
  BY <1>1, ReadingNode
<1>3. \/ /\ UNCHANGED <<hs, role, votes>>
         /\ Finish(i, node[i], Delivered(m), late, none)
      \/ /\ IF stepsDown THEN BecomeFollower(i, m.term) ELSE UNCHANGED <<hs, role, votes>>
         /\ \/ Finish(i, n, Delivered(m), refused, none)
            \/ Finish(i, taken, Delivered(m), accepted, none)
  BY DEF HandleAppendEntries
<1>4. CASE UNCHANGED <<hs, role, votes>> /\ Finish(i, node[i], Delivered(m), late, none)
  <2> HIDE DEF late, none
  <2>1. CASE role[i] = "leader"
    <3>1. Serves(node[i], node[i], hs'[i].term) /\ role'[i] = "leader" /\ hs'[i].term = hs[i].term
      BY <1>2, <1>4, <2>1, AbleServes
    <3> QED BY <1>1, <1>2, <1>4, <2>1, <3>1, ServesEnd
  <2>2. CASE role[i] # "leader"
    <3>1. Mute(node[i], node[i]) /\ role'[i] = role[i]
      BY <1>2, <1>4, <2>2, MuteSteps
    <3> QED BY <1>1, <1>2, <1>4, <2>2, <3>1, MuteEnd
  <2> QED BY <2>1, <2>2
<1>5. CASE /\ IF stepsDown THEN BecomeFollower(i, m.term) ELSE UNCHANGED <<hs, role, votes>>
           /\ \/ Finish(i, n, Delivered(m), refused, none)
              \/ Finish(i, taken, Delivered(m), accepted, none)
  <2>1. role'[i] = "follower"
    BY <1>1, <1>5 DEF BecomeFollower, TypeOK
  <2>2. Mute(node[i], n) /\ n \in Nodes
    BY <1>2, MuteSteps, FailPendingType
  <2> HIDE DEF n, late, refused, accepted, none, stepsDown
  <2>3. Mute(n, t) /\ t \in Nodes
    BY <1>1, <2>2, MuteSteps, TakeEntriesType DEF Mute
  <2> HIDE DEF t
  <2>4. Mute(t, taken) /\ taken \in Nodes
    BY <1>1, <2>3, MuteSteps, FollowCommitType DEF Mute
  <2> HIDE DEF taken
  <2>5. Mute(node[i], taken)
    BY <2>2, <2>3, <2>4 DEF Mute
  <2>6. CASE Finish(i, n, Delivered(m), refused, none)
    BY <1>1, <2>1, <2>2, <2>6, MuteEnd
  <2>7. CASE Finish(i, taken, Delivered(m), accepted, none)
    BY <1>1, <2>1, <2>4, <2>5, <2>7, MuteEnd
  <2> QED BY <1>5, <2>6, <2>7
<1> HIDE DEF n, t, taken, late, refused, accepted, none, stepsDown
<1> QED BY <1>3, <1>4, <1>5

\* Nobody waits for a node that comes back.
LEMMA RebootReads ==
    ASSUME Reading, NEW i \in Server, NEW hard, NEW wal, NEW snap, Reboot(i, hard, wal, snap)
    PROVE  ReadStep(i)
<1> DEFINE c == MaxOf(hard.commit, snap.index)
           b == Booted(i, wal, snap, c, node[i].acked, node[i].missed)
<1>1. Mute(node[i], b)
  BY DEF Booted, Mute, Silent
<1>2. role' = [role EXCEPT ![i] = "follower"] /\ node' = [node EXCEPT ![i] = b] /\ TypeOK
  BY DEF Reboot, Reading, Ready
<1> HIDE DEF b
<1>3. role'[i] = "follower" /\ node'[i] = b
  BY <1>2 DEF TypeOK
<1> QED BY <1>1, <1>3 DEF ReadStep

LEMMA CrashReads ==
    ASSUME Reading, NEW m \in msgs, CrashInHandler(m) \/ StopWhileServing(m)
    PROVE  ReadStep(m.to)
<1>1. m.to \in Server
  BY MessageFields DEF Reading, Ready, TypeOK
<1>2. \E hard, wal, snap : Reboot(m.to, hard, wal, snap)
  BY DEF CrashInHandler, StopWhileServing
<1> QED BY <1>1, <1>2, RebootReads

-----------------------------------------------------------------------------
(***************************************************************************)
(* Linearizable reads of two voters: all that was promised is committed.   *)
(***************************************************************************)

\* A majority of two is both.
LEMMA AllOfTwo ==
    ASSUME IsFiniteSet(Voters), Cardinality(Voters) <= 2, NEW Q, Majority(Q)
    PROVE  Q = Voters
<1>1. Q \subseteq Voters /\ IsFiniteSet(Q) /\ Cardinality(Q) <= Cardinality(Voters)
      /\ (Cardinality(Q) = Cardinality(Voters) => Q = Voters)
  BY FS_Subset DEF Majority
<1>2. Cardinality(Q) \in Nat /\ Cardinality(Voters) \in Nat
  BY <1>1, FS_CardinalityType
<1>3. Cardinality(Voters) \in {0, 1, 2} /\ Cardinality(Q) > Cardinality(Voters) \div 2
  BY <1>2 DEF Majority
<1>4. Cardinality(Q) = Cardinality(Voters)
  BY <1>1, <1>2, <1>3
<1> QED BY <1>1, <1>4

\* What was promised is chosen, so it was written in an election's term.
LEMMA PromisedChosen ==
    ASSUME Reading, NEW e \in Promised
    PROVE  /\ e \in Entries
           /\ \E p \in Chosen : e.index \in 1..Len(p.ents) /\ p.ents[e.index] = e
           /\ \E l \in Links : l.entry = e
<1>1. PICK j \in Server : e \in node[j].acked
  BY DEF Promised
<1>2. TypeOK /\ LogInv /\ e \in Entries
  BY <1>1 DEF Reading, Ready, TypeOK, Nodes
<1>3. PICK p \in Chosen : e.index \in 1..Len(p.ents) /\ p.ents[e.index] = e
  BY <1>1 DEF Reading, Ready, CommitInv, AppliedCommitted
<1>4. p \in Beginnings
  BY DEF Chosen
<1>5. PICK i \in Server : \E x \in 1..Len(node[i].log.ents) : p = Upto(node[i].log, x)
  BY <1>4 DEF Beginnings
<1>6. PICK x \in 1..Len(node[i].log.ents) : p = Upto(node[i].log, x)
  BY <1>5
<1>7. node[i].log \in Logs /\ Aligned(node[i].log)
  BY <1>2, LogTypes DEF LogInv, LogsPlain
<1>8. Begins(p, node[i].log)
  BY <1>6, <1>7, UptoBegins
<1>9. /\ Len(p.ents) \in Nat /\ Len(node[i].log.ents) \in Nat
      /\ Len(p.ents) <= Len(node[i].log.ents)
      /\ \A y \in 1..Len(p.ents) : p.ents[y] = node[i].log.ents[y]
  <2>1. p \in Logs
    BY <1>2, <1>4, BeginningTypes
  <2> QED BY <1>7, <1>8, <2>1 DEF Begins, Logs
<1> DEFINE k == e.index
<1>10. k \in 1..Len(p.ents) /\ p.ents[k] = e
  BY <1>3
<1> HIDE DEF k
<1>11. k \in 1..Len(node[i].log.ents) /\ node[i].log.ents[k] = e
  BY <1>9, <1>10
<1>12. LogLink(node[i].log, k) \in Links
  BY <1>11 DEF Links
<1>13. LogLink(node[i].log, k).entry = e
  BY <1>11 DEF LogLink, LinkOf
<1> QED BY <1>2, <1>3, <1>12, <1>13

\* It is in the log of both voters.
LEMMA PromisedHeld ==
    ASSUME Reading, Cardinality(Voters) <= 2, NEW e \in Promised, NEW v \in Voters
    PROVE  e.index \in 1..Len(node[v].log.ents) /\ node[v].log.ents[e.index] = e
<1>1. PICK p \in Chosen : e.index \in 1..Len(p.ents) /\ p.ents[e.index] = e
  BY PromisedChosen
<1>2. PICK Q \in SUBSET Voters : Majority(Q) /\ Backed(Q, p)
  BY DEF Chosen
<1>3. v \in Q
  BY <1>2, AllOfTwo DEF Reading, Ready
<1>4. Begins(p, node[v].log)
  BY <1>2, <1>3 DEF Backed, Held
<1>5. Len(p.ents) \in Nat /\ Len(node[v].log.ents) \in Nat
  <2>1. v \in Server /\ p \in Beginnings
    BY PeersAssumption DEF Voters, Chosen
  <2> QED BY <2>1, BeginningTypes, LogTypes DEF Reading, Ready, Logs
<1> QED BY <1>1, <1>4, <1>5 DEF Begins

\* A leader that has committed in its term has committed it.
LEMMA PromisedCommitted ==
    ASSUME Reading, Cardinality(Voters) <= 2, NEW i \in Server, role[i] = "leader",
           CurrentTermCommitted(node[i], hs[i].term), NEW e \in Promised
    PROVE  e.index \in 1..node[i].commit /\ node[i].log.ents[e.index] = e
<1> DEFINE log == node[i].log
           c == node[i].commit
           x == e.index
<1>1. /\ TypeOK /\ LogInv /\ TermsOrdered /\ hs[i].term \in Nat /\ c \in Nat /\ log \in Logs
      /\ Aligned(log) /\ Len(log.ents) \in Nat /\ c <= Len(log.ents) /\ e \in Entries
  <2>1. /\ TypeOK /\ LogInv /\ TermsOrdered /\ hs[i].term \in Nat /\ c \in Nat /\ Sound(node[i])
        /\ e \in Entries
    BY ReadyNode, PromisedChosen DEF Reading, Ready, MatchInv
  <2> QED BY <2>1, LogTypes DEF LogInv, LogsPlain, Sound
<1>2. i \in Voters
  BY ReadingNode
<1>3. x \in 1..Len(log.ents) /\ log.ents[x] = e
  BY <1>2, PromisedHeld
<1>4. e.term = hs[i].term => x <= c
  BY DEF Reading, ReadInv, PendingAtLeaders
<1>5. c \in 1..Len(log.ents) /\ log.ents[c].term = hs[i].term
  <2>1. c > 0
    BY DEF CurrentTermCommitted
  <2>2. c \in 1..Len(log.ents)
    BY <1>1, <2>1
  <2>3. Has(log, c) /\ At(log, c) = log.ents[c]
    BY <1>1, <2>2, AlignedReads
  <2>4. KnowsTerm(log, c) /\ Term(log, c) = log.ents[c].term
    BY <2>3 DEF KnowsTerm, Term
  <2> QED BY <2>2, <2>4 DEF CurrentTermCommitted
<1>6. Sorted(log) /\ e.term <= hs[i].term /\ e.term \in Nat
  <2>1. log.ents[x].term <= hs[i].term
    BY <1>1, <1>3 DEF TermsOrdered
  <2> QED BY <1>1, <1>3, <2>1, LogsSorted DEF Entries
<1> HIDE DEF log, c, x
<1>7. x <= c
  <2>1. CASE x > c
    <3>1. log.ents[c].term <= log.ents[x].term
      BY <1>1, <1>3, <1>5, <1>6, <2>1 DEF Sorted
    <3>2. e.term = hs[i].term
      BY <1>1, <1>3, <1>5, <1>6, <3>1
    <3> QED BY <1>4, <3>2
  <2> QED BY <1>1, <1>3, <2>1
<1>8. x \in 1..c
  BY <1>1, <1>3, <1>7
<1> QED BY <1>3, <1>8 DEF log, c, x

\* Nobody has been told of an entry of a term before its leader is elected.
LEMMA NonePromised ==
    ASSUME Reading, ElectionInv, ElectionInv', NEW s \in Server, LogStep(s), TypeOK',
           role'[s] = "leader", role[s] = "candidate" \/ hs'[s].term > hs[s].term,
           NEW e \in Promised
    PROVE  e.term # hs'[s].term
<1> SUFFICES ASSUME e.term = hs'[s].term PROVE FALSE
  OBVIOUS
<1>1. hs[s].term \in Nat /\ hs'[s].term \in Nat /\ hs'[s].term >= hs[s].term
      /\ granted \subseteq granted' /\ IsFiniteSet(Voters)
  BY DEF Reading, Ready, TypeOK, LogStep
<1>2. PICK l \in Links : l.entry = e
  BY PromisedChosen
<1>3. PICK c \in Server, Q \in SUBSET Voters :
        /\ Cardinality(Q) > Cardinality(Voters) \div 2
        /\ \A v \in Q : Vote(v, e.term, c) \in granted
        /\ hs[c].term >= e.term
        /\ hs[c].term = e.term => role[c] # "candidate"
  BY <1>2 DEF Reading, Ready, LogInv, LinksElected
<1> DEFINE W == votes'[s]
<1>4. Majority(W) /\ \A v \in W : Vote(v, hs'[s].term, s) \in granted'
  <2>1. \A v \in W : v \in Voters /\ Vote(v, hs'[s].term, s) \in granted'
    BY DEF ElectionInv, VotesGenuine
  <2>2. Cardinality(W) > Cardinality(Voters) \div 2
    BY DEF ElectionInv, LeadersElected
  <2> QED BY <2>1, <2>2 DEF Majority
<1> HIDE DEF W
<1>5. PICK v \in Q : v \in W
  BY <1>1, <1>3, <1>4, MajoritiesMeet DEF Majority
<1>6. Vote(v, e.term, c) \in granted' /\ Vote(v, e.term, s) \in granted'
  BY <1>1, <1>3, <1>4, <1>5
<1>7. c = s
  BY <1>6 DEF ElectionInv, OneVote, Vote
<1>8. hs[s].term = hs'[s].term
  BY <1>1, <1>3, <1>7
<1> QED BY <1>1, <1>3, <1>7, <1>8

LEMMA NextReadStep ==
    ASSUME Reading, ElectionInv, Cardinality(Voters) <= 2,
           TypeOK', LogInv', FixedVoters', Uncompacted', NoBlanks', Next
    PROVE  \E s \in Server : LogStep(s) /\ ReadStep(s)
<1>1. /\ IsFiniteSet(Voters) /\ TypeOK /\ LogInv /\ MatchInv /\ Uncompacted /\ Ready
      /\ LeadersHold /\ CallsElected /\ RepliesCurrent
  BY DEF Reading, Ready, MatchInv
<1>2. ASSUME NEW i \in Server,
             \/ Campaign(i) \/ Heartbeat(i) \/ IdleTick(i) \/ Restart(i) \/ LinearizableRead(i)
             \/ \E v \in Value : Propose(i, v)
             \/ \E c \in Changes : ChangeMembership(i, c)
      PROVE  MatchStep(i) /\ ReadStep(i)
  <2>1. MatchStep(i)
    BY <1>1, <1>2, CampaignMatch, TickMatch, RestartMatch, LinearizableReadMatch, ProposeMatch,
       ChangeMembershipMatch
  <2>2. Restart(i) => ReadStep(i)
    BY RebootReads DEF Restart
  <2>3. LinearizableRead(i) => ReadStep(i)
    <3>1. LinearizableRead(i) => role[i] = "leader" /\ CurrentTermCommitted(node[i], hs[i].term)
      BY DEF LinearizableRead
    <3> QED BY <3>1, PromisedCommitted, LinearizableReadReads
  <2> QED BY <1>2, <2>1, <2>2, <2>3, CampaignReads, TickReads, ProposeReads, ChangeMembershipReads
<1>3. ASSUME NEW m \in msgs,
             \/ HandleRequestVote(m) \/ OnVoteReply(m) \/ HandleAppendEntries(m)
             \/ OnAppendReply(m) \/ HandleInstallSnapshot(m) \/ OnInstallReply(m)
             \/ InstallFails(m) \/ CrashInHandler(m) \/ StopWhileServing(m)
      PROVE  m.to \in Server /\ MatchStep(m.to) /\ ReadStep(m.to)
  <2>1. m.to \in Server
    BY <1>1, MessageFields DEF TypeOK
  <2>2. MatchStep(m.to)
    BY <1>1, <1>3, <2>1, HandleRequestVoteMatch, OnVoteReplyMatch, HandleAppendEntriesMatch,
             OnAppendReplyMatch, InstallLogs, CrashInHandlerMatch, StopWhileServingMatch
  <2>3. ~(HandleInstallSnapshot(m) \/ OnInstallReply(m) \/ InstallFails(m))
    BY <1>1, InstallLogs DEF HandleInstallSnapshot, OnInstallReply, InstallFails, LogInv, NoTransfers
  <2>4. ReadStep(m.to)
    BY <1>3, <2>3, HandleRequestVoteReads, OnVoteReplyReads, OnAppendReplyReads,
       HandleAppendEntriesReads, CrashReads
  <2> QED BY <2>1, <2>2, <2>4
<1>4. \E s \in Server : MatchStep(s) /\ ReadStep(s)
  BY <1>2, <1>3 DEF Next
<1> QED BY <1>4 DEF MatchStep

\* What was promised after a step of node s.
LEMMA PromisedAfter ==
    ASSUME NEW s \in Server, LogStep(s), ReadStep(s), NEW e \in Promised'
    PROVE  \/ e \in Promised
           \/ role'[s] = "leader" /\ e.term = hs'[s].term /\ e.index <= node'[s].commit
<1>1. PICK j \in Server : e \in node'[j].acked
  BY DEF Promised
<1>2. CASE j # s
  BY <1>1, <1>2 DEF LogStep, Promised
<1>3. CASE j = s
  <2>1. e \in node[s].acked => e \in Promised
    BY DEF Promised
  <2> QED BY <1>1, <1>3, <2>1 DEF ReadStep, Mute
<1> QED BY <1>2, <1>3

LEMMA StepReads ==
    ASSUME Reading, ElectionInv, TypeOK', ElectionInv', ElectionSafety',
           NEW s \in Server, LogStep(s), ReadStep(s)
    PROVE  ReadInv'
<1>1. /\ \A j \in Server : j # s => hs'[j] = hs[j] /\ role'[j] = role[j] /\ node'[j] = node[j]
      /\ PendingAtLeaders /\ Voters' = Voters
      /\ \A j \in Server : ReadsFit(node[j]) /\ node[j].missed = {}
      /\ \A e \in Promised : e \in Entries
  BY PromisedChosen DEF LogStep, Reading, ReadInv, ReadsCurrent, Voters
<1>2. PICK b : b = node'[s]
  OBVIOUS
<1>3. b.missed = {} /\ ReadsFit(b)
  <2>1. CASE role'[s] = "leader"
    <3>1. PICK t : t = hs'[s].term
      OBVIOUS
    <3>2. Fine(b, t)
      <4>1. Fine(node'[s], hs'[s].term)
        BY <2>1 DEF ReadStep
      <4> QED BY <1>2, <3>1, <4>1
    <3> QED BY <3>2 DEF Fine
  <2>2. CASE role'[s] # "leader"
    <3>1. Mute(node[s], b)
      BY <1>2, <2>2 DEF ReadStep
    <3> QED BY <1>1, <3>1 DEF Mute, Silent, ReadsFit
  <2> QED BY <2>1, <2>2
<1>4. \A i \in Server : ReadsFit(node'[i]) /\ node'[i].missed = {}
  BY <1>1, <1>2, <1>3
<1>5. ASSUME NEW i \in Server PROVE role'[i] # "follower" => i \in Voters
  BY <1>1 DEF PendingAtLeaders, ReadStep
<1>6. ASSUME NEW i \in Server, role'[i] # "leader"
      PROVE  node'[i].waiting = {} /\ node'[i].reads = {}
  BY <1>1, <1>6 DEF PendingAtLeaders, ReadStep, Mute, Silent
<1>7. ASSUME NEW i \in Server, NEW x \in node'[i].waiting
      PROVE  x \in 1..Len(node'[i].log.ents) /\ node'[i].log.ents[x].term = hs'[i].term
  <2>1. CASE i # s
    BY <1>1, <1>7, <2>1 DEF PendingAtLeaders
  <2>2. CASE i = s
    <3>1. role'[s] = "leader"
      BY <1>6, <1>7, <2>2
    <3>2. PICK t : t = hs'[s].term
      OBVIOUS
    <3>3. Fine(b, t)
      <4>1. Fine(node'[s], hs'[s].term)
        BY <3>1 DEF ReadStep
      <4> QED BY <1>2, <3>2, <4>1
    <3> QED BY <1>2, <1>7, <2>2, <3>2, <3>3 DEF Fine
  <2> QED BY <2>1, <2>2
<1>8. ASSUME NEW i \in Server, role'[i] = "leader", NEW e \in Promised', e.term = hs'[i].term
      PROVE  e.index <= node'[i].commit
  <2>1. CASE role'[s] = "leader" /\ e.term = hs'[s].term /\ e.index <= node'[s].commit
    <3>1. i = s
      BY <1>8, <2>1 DEF ElectionSafety
    <3> QED BY <2>1, <3>1
  <2>2. CASE e \in Promised /\ i # s
    BY <1>1, <1>8, <2>2 DEF PendingAtLeaders
  <2>3. CASE e \in Promised /\ i = s
    <3>1. role[s] = "leader" /\ hs'[s].term = hs[s].term
      BY <1>8, <2>3, NonePromised DEF ReadStep
    <3>2. e.index <= node[s].commit
      BY <1>1, <1>8, <2>3, <3>1 DEF PendingAtLeaders
    <3>3. node[s].commit <= node'[s].commit
      BY <1>8, <2>3 DEF ReadStep
    <3>4. e.index \in Nat /\ node[s].commit \in Nat /\ node'[s].commit \in Nat
      BY <1>1, <2>3 DEF Entries, Reading, Ready, TypeOK, Nodes
    <3> QED BY <2>3, <3>2, <3>3, <3>4
  <2> QED BY <2>1, <2>2, <2>3, PromisedAfter
<1>9. PendingAtLeaders'
  BY <1>1, <1>5, <1>6, <1>7, <1>8 DEF PendingAtLeaders
<1>10. ReadsCurrent' /\ (\A i \in Server : ReadsFit(node[i]))'
  BY <1>4 DEF ReadsCurrent, ReadsFit
<1> QED BY <1>9, <1>10 DEF ReadInv

LEMMA NextReads ==
    ASSUME Ready, ElectionInv, ReadInv, Cardinality(Voters) <= 2,
           TypeOK', LogInv', ElectionInv', ElectionSafety', FixedVoters', Uncompacted', NoBlanks',
           [Next]_vars
    PROVE  ReadInv'
<1>1. CASE Next
  <2>1. PICK s \in Server : LogStep(s) /\ ReadStep(s)
    BY <1>1, NextReadStep DEF Reading
  <2> QED BY <2>1, StepReads DEF Reading
<1>2. CASE UNCHANGED vars
  BY <1>2 DEF vars, ReadInv, PendingAtLeaders, ReadsFit, ReadsCurrent, Promised, Voters
<1> QED BY <1>1, <1>2

LEMMA InitReads == Init => ReadInv
<1> SUFFICES ASSUME Init PROVE ReadInv
  OBVIOUS
<1>1. ASSUME NEW i \in Server
      PROVE  /\ role[i] = "follower" /\ node[i].waiting = {} /\ node[i].reads = {}
             /\ node[i].missed = {} /\ node[i].acked = {}
  <2>1. ASSUME NEW n, n = Booted(i, EmptyLog, NoSnapshot, 0, {}, {})
        PROVE  n.waiting = {} /\ n.reads = {} /\ n.missed = {} /\ n.acked = {}
    BY <2>1 DEF Booted
  <2>2. node[i] = Booted(i, EmptyLog, NoSnapshot, 0, {}, {}) /\ role[i] = "follower"
    BY DEF Init
  <2> QED BY <2>1, <2>2
<1> QED BY <1>1 DEF ReadInv, PendingAtLeaders, ReadsFit, ReadsCurrent

\* Of one or two voters, the leader that answers a read reflects all that anybody had
\* been told when the read was asked (LinearizableRead against currentTermCommitted,
\* tryFinishReads and applyCommitted), although any reply confirms it (ackReads): the
\* other voter can be leader of a later term only with what was promised before.
THEOREM ReadsOfTwo ==
    ASSUME IsFiniteSet(Voters), Cardinality(Voters) <= 2
    PROVE  Spec /\ []FixedVoters /\ []Uncompacted /\ []NoBlanks => []ReadInv
<1>1. Init => ReadInv
  BY InitReads
<1>2. TypeOK /\ ElectionInv => ElectionSafety
  BY InvElectionSafety
<1>3. /\ FixedVoters /\ Uncompacted /\ TypeOK /\ LogInv /\ MatchInv /\ CommitInv /\ ElectionInv
      /\ ReadInv /\ TypeOK' /\ LogInv' /\ ElectionInv' /\ ElectionSafety'
      /\ FixedVoters' /\ Uncompacted' /\ NoBlanks' /\ [Next]_vars
      => ReadInv'
  BY NextReads DEF Ready
<1>4. Spec /\ []FixedVoters /\ []Uncompacted /\ []NoBlanks
         => [](TypeOK /\ LogInv /\ ElectionInv /\ MatchInv /\ CommitInv)
  BY CommitInvariant
<1> QED BY <1>1, <1>2, <1>3, <1>4, PTL DEF Spec

\* So no linearizable read of such a cluster misses a write that was acknowledged before
\* the read was asked (LinearizableRead), when its RAFT_PEERS name at most two nodes and
\* nobody changes them.
THEOREM StaticReadsAreCurrent ==
    ASSUME StaticMembership, Cardinality(Voters) <= 2
    PROVE  Spec /\ []Uncompacted /\ []NoBlanks => []ReadsCurrent
<1>1. Spec => []FixedVoters
  BY VotersStay
<1>2. Spec /\ []FixedVoters /\ []Uncompacted /\ []NoBlanks => []ReadInv
  BY FiniteVoters, ReadsOfTwo
<1>3. ReadInv => ReadsCurrent
  BY DEF ReadInv
<1> QED BY <1>1, <1>2, <1>3, PTL
=============================================================================
