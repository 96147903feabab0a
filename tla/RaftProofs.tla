----------------------------- MODULE RaftProofs -----------------------------
(***************************************************************************)
(* The type invariant of module Raft, for every value of the constants:    *)
(* every operation of a log and of a node keeps the types of module        *)
(* RaftProperties, Logs and Nodes, and so does every action.  Then votes   *)
(* and leaders: a node keeps its vote for good; and as long as all nodes   *)
(* agree on who the voters are, no term has two leaders.  Last the logs:   *)
(* as long as, besides, no node has taken a snapshot, logs that agree on   *)
(* an entry agree on everything before it, and the WAL gives the log back. *)
(***************************************************************************)
EXTENDS RaftProperties, FiniteSetTheorems, SequenceTheorems, WellFoundedInduction, TLAPS

-----------------------------------------------------------------------------
(***************************************************************************)
(* The CHOOSEs of the model pick what they describe.                       *)
(***************************************************************************)

\* A nonempty finite set of numbers has a largest element.
LEMMA MaxExists ==
    ASSUME NEW S \in SUBSET Int, IsFiniteSet(S), S # {}
    PROVE  \E x \in S : \A y \in S : y <= x
<1> DEFINE Above(x) == {y \in S : y > x}
           Tails    == {Above(x) : x \in S}
<1>1. Tails \subseteq FiniteSubsetsOf(S) /\ Tails # {}
  <2>1. \A x \in S : IsFiniteSet(Above(x))
    BY FS_Subset
  <2> QED BY <2>1 DEF FiniteSubsetsOf
<1>2. PICK T \in Tails : \A U \in Tails : <<U, T>> \notin StrictSubsetOrdering(S)
  BY <1>1, WFMin, FS_StrictSubsetOrderingWellFounded
<1>3. PICK x \in S : T = Above(x)
  OBVIOUS
<1>4. ASSUME NEW y \in S, y > x PROVE FALSE
  <2>1. \A z \in S : z > y => z > x
    BY <1>4
  <2>2. y \in Above(x) /\ y \notin Above(y)
    BY <1>4
  <2>3. Above(y) \subseteq Above(x)
    BY <2>1
  <2>4. <<Above(y), T>> \in StrictSubsetOrdering(S)
    BY <2>2, <2>3, <1>3 DEF StrictSubsetOrdering
  <2> QED BY <2>4, <1>2
<1> QED BY <1>4

\* ... and a smallest one.
LEMMA MinExists ==
    ASSUME NEW S \in SUBSET Int, IsFiniteSet(S), S # {}
    PROVE  \E x \in S : \A y \in S : x <= y
<1> DEFINE Below(x) == {y \in S : y < x}
           Heads    == {Below(x) : x \in S}
<1>1. Heads \subseteq FiniteSubsetsOf(S) /\ Heads # {}
  <2>1. \A x \in S : IsFiniteSet(Below(x))
    BY FS_Subset
  <2> QED BY <2>1 DEF FiniteSubsetsOf
<1>2. PICK T \in Heads : \A U \in Heads : <<U, T>> \notin StrictSubsetOrdering(S)
  BY <1>1, WFMin, FS_StrictSubsetOrderingWellFounded
<1>3. PICK x \in S : T = Below(x)
  OBVIOUS
<1>4. ASSUME NEW y \in S, y < x PROVE FALSE
  <2>1. \A z \in S : z < y => z < x
    BY <1>4
  <2>2. y \in Below(x) /\ y \notin Below(y)
    BY <1>4
  <2>3. Below(y) \subseteq Below(x)
    BY <2>1
  <2>4. <<Below(y), T>> \in StrictSubsetOrdering(S)
    BY <2>2, <2>3, <1>3 DEF StrictSubsetOrdering
  <2> QED BY <2>4, <1>2
<1> QED BY <1>4
-----------------------------------------------------------------------------
(***************************************************************************)
(* Logs.                                                                   *)
(***************************************************************************)

\* The operators that read a log return indexes, terms and entries.
LEMMA LogReads ==
    ASSUME NEW log \in Logs
    PROVE  /\ LastIndex(log) \in Nat
           /\ LastTerm(log) \in Nat
           /\ \A i \in Int : Term(log, i) \in Nat
           /\ \A i \in Int : Has(log, i) => At(log, i) \in Entries
<1>1. \A k \in 1..Len(log.ents) : log.ents[k] \in Entries
  BY DEF Logs
<1>2. log.ents # <<>> => Len(log.ents) \in 1..Len(log.ents)
  BY DEF Logs
<1>3. \A e \in Entries : e.index \in Nat /\ e.term \in Nat
  BY DEF Entries
<1>4. \A i \in Int : Has(log, i) => i - log.snapIndex \in 1..Len(log.ents)
  BY DEF Has, Logs
<1>5. \A i \in Int : Has(log, i) => At(log, i) \in Entries
  BY <1>1, <1>4 DEF At
<1>6. LastIndex(log) \in Nat /\ LastTerm(log) \in Nat
  BY <1>1, <1>2, <1>3 DEF LastIndex, LastTerm, Logs
<1>7. \A i \in Int : Term(log, i) \in Nat
  BY <1>3, <1>5 DEF Term, Logs
<1> QED BY <1>5, <1>6, <1>7

LEMMA SliceType ==
    ASSUME NEW log \in Logs, NEW lo \in Int, NEW hi \in Int
    PROVE  Slice(log, lo, hi) \in Seq(Entries)
<1> DEFINE from == MaxOf(lo, log.snapIndex + 1)
           to   == MinOf(MinOf(hi, LastIndex(log)), log.snapIndex + Len(log.ents))
<1>0. LastIndex(log) \in Nat /\ log.snapIndex \in Nat /\ Len(log.ents) \in Nat
  BY LogReads DEF Logs
<1>1. from \in Int /\ to \in Int /\ from >= log.snapIndex + 1 /\ to <= log.snapIndex + Len(log.ents)
  BY <1>0 DEF MinOf, MaxOf
<1> HIDE DEF from, to
<1>2. CASE from > to
  BY <1>2 DEF Slice, from, to
<1>3. CASE ~(from > to)
  <2>1. from - log.snapIndex \in 1..Len(log.ents) + 1 /\ to - log.snapIndex \in from - log.snapIndex - 1 .. Len(log.ents)
    BY <1>1, <1>3 DEF Logs
  <2>2. SubSeq(log.ents, from - log.snapIndex, to - log.snapIndex) \in Seq(Entries)
    BY <2>1, SubSeqProperties DEF Logs
  <2> QED BY <1>3, <2>2 DEF Slice, from, to
<1> QED BY <1>2, <1>3

LEMMA AppendToType ==
    ASSUME NEW log \in Logs, NEW es \in Seq(Entries)
    PROVE  AppendTo(log, es) \in Logs
BY ConcatProperties DEF AppendTo, Logs

LEMMA TruncateType ==
    ASSUME NEW log \in Logs, NEW i \in Int
    PROVE  TruncateFrom(log, i) \in Logs
<1> DEFINE keep == i - log.snapIndex - 1
           n    == Len(log.ents)
<1>1. n \in Nat /\ keep \in Int /\ log.ents \in Seq(Entries) /\ <<>> \in Seq(Entries)
  BY DEF Logs
<1>2. ASSUME keep > 0, keep < n PROVE SubSeq(log.ents, 1, keep) \in Seq(Entries)
  BY <1>1, <1>2, SubSeqProperties
<1>3. \A es \in Seq(Entries) : [log EXCEPT !.ents = es] \in Logs
  BY DEF Logs
<1>4. CASE keep <= 0
  BY <1>4, <1>1, <1>3 DEF TruncateFrom
<1>5. CASE keep > 0 /\ keep >= n
  BY <1>5, <1>1 DEF TruncateFrom
<1>6. CASE keep > 0 /\ keep < n
  <2>1. TruncateFrom(log, i) = [log EXCEPT !.ents = SubSeq(log.ents, 1, keep)]
    BY <1>6, <1>1 DEF TruncateFrom
  <2> QED BY <2>1, <1>2, <1>3, <1>6
<1> QED BY <1>1, <1>4, <1>5, <1>6

LEMMA CompactType ==
    ASSUME NEW log \in Logs, NEW i \in Nat, NEW t \in Nat
    PROVE  Compact(log, i, t) \in Logs
<1> DEFINE off == i - log.snapIndex
           n   == Len(log.ents)
<1>1. n \in Nat /\ off \in Int /\ log.ents \in Seq(Entries) /\ <<>> \in Seq(Entries)
  BY DEF Logs
<1>2. off > 0 /\ off <= n => SubSeq(log.ents, off + 1, n) \in Seq(Entries)
  BY <1>1, SubSeqProperties
<1> QED BY <1>1, <1>2 DEF Compact, Logs
LEMMA RestoreType ==
    ASSUME NEW i \in Nat, NEW t \in Nat
    PROVE  Restore(i, t) \in Logs
BY DEF Restore, Logs

\* Covered counts entries of es.
LEMMA CoveredType ==
    ASSUME NEW log \in Logs, NEW es \in Seq(Entries)
    PROVE  Covered(log, es) \in 0..Len(es)
<1>1. CASE es = <<>>
  BY <1>1 DEF Covered
<1>2. CASE es # <<>>
  <2>1. es[1] \in Entries /\ Len(es) \in Nat
    BY <1>2
  <2>2. es[1].index \in Nat /\ log.snapIndex \in Nat
    BY <2>1 DEF Entries, Logs
  <2> QED BY <1>2, <2>1, <2>2 DEF Covered, MinOf, MaxOf
<1> QED BY <1>1, <1>2

LEMMA StaleType ==
    ASSUME NEW log \in Logs, NEW es \in Seq(Entries)
    PROVE  Stale(log, es) \in Seq(Entries)
BY CoveredType, SubSeqProperties DEF Stale

LEMMA FreshType ==
    ASSUME NEW log \in Logs, NEW es \in Seq(Entries)
    PROVE  Fresh(log, es) \in Seq(Entries)
<1> DEFINE base == AppendTo(log, Stale(log, es))
           News == {k \in Covered(log, es) + 1 .. Len(es) :
                       Has(base, es[k].index) => At(base, es[k].index).term # es[k].term}
<1>1. Covered(log, es) \in 0..Len(es) /\ Len(es) \in Nat
  BY CoveredType
<1>2. CASE News = {}
  BY <1>2 DEF Fresh
<1>3. CASE News # {}
  <2>1. News \in SUBSET Int /\ IsFiniteSet(News)
    <3>1. News \subseteq Covered(log, es) + 1 .. Len(es) /\ Covered(log, es) + 1 \in Int /\ Len(es) \in Int
      BY <1>1
    <3> QED BY ONLY <3>1, FS_Interval, FS_Subset
  <2>2. (CHOOSE k \in News : \A j \in News : k <= j) \in News
    BY <2>1, <1>3, MinExists
  <2>3. (CHOOSE k \in News : \A j \in News : k <= j) \in 1..Len(es)
    BY <1>1, <2>2
  <2>4. \A k \in 1..Len(es) : SubSeq(es, k, Len(es)) \in Seq(Entries)
    BY <1>1, SubSeqProperties
  <2> QED BY <1>3, <2>3, <2>4 DEF Fresh
<1> QED BY <1>2, <1>3

LEMMA AppendedType ==
    ASSUME NEW log \in Logs, NEW es \in Seq(Entries)
    PROVE  Appended(log, es) \in Seq(Entries)
BY StaleType, FreshType, ConcatProperties DEF Appended

LEMMA MergeType ==
    ASSUME NEW log \in Logs, NEW es \in Seq(Entries)
    PROVE  Merge(log, es) \in Logs
<1>1. AppendTo(log, Stale(log, es)) \in Logs
  BY StaleType, AppendToType
<1>2. Fresh(log, es) \in Seq(Entries)
  BY FreshType
<1>3. Fresh(log, es) # <<>> => Fresh(log, es)[1].index \in Int
  BY <1>2 DEF Entries
<1>4. Fresh(log, es) # <<>> =>
        TruncateFrom(AppendTo(log, Stale(log, es)), Fresh(log, es)[1].index) \in Logs
  BY <1>1, <1>3, TruncateType
<1> QED BY <1>1, <1>2, <1>4, AppendToType DEF Merge

LEMMA ReplayType ==
    ASSUME NEW wal \in Logs, NEW run \in Seq(Entries)
    PROVE  Replay(wal, run) \in Logs
<1>1. run # <<>> => run[1].index \in Int
  BY DEF Entries
<1>2. run # <<>> => TruncateFrom(wal, run[1].index) \in Logs
  BY <1>1, TruncateType
<1> QED BY <1>2, AppendToType DEF Replay

-----------------------------------------------------------------------------
(***************************************************************************)
(* Sending.                                                                *)
(***************************************************************************)

\* NextIndex is never below 1, so the previous index of a call is not negative.
LEMMA NextOfType ==
    ASSUME NEW n \in Nodes, NEW j \in Server
    PROVE  NextOf(n, j) \in Nat \ {0}
<1>1. n.log \in Logs /\ n.next[j] \in Nat
  BY DEF Nodes
<1>2. LastIndex(n.log) \in Nat
  BY <1>1, LogReads
<1> QED BY <1>1, <1>2 DEF NextOf

LEMMA AppendCallType ==
    ASSUME NEW n \in Nodes, NEW i \in Server, NEW term \in Nat, NEW j \in Server
    PROVE  AppendCall(n, i, term, j) \in AppendCalls
<1> DEFINE prev == NextOf(n, j) - 1
           all  == Slice(n.log, prev + 1, LastIndex(n.log))
           k    == MinOf(Len(all), MaxBatch)
<1>0. NextOf(n, j) \in Nat \ {0}
  BY NextOfType
<1>1. n.log \in Logs /\ n.commit \in Nat /\ prev \in Nat
  BY <1>0 DEF Nodes
<1>2. LastIndex(n.log) \in Nat /\ Term(n.log, prev) \in Nat
  BY <1>1, LogReads
<1>3. all \in Seq(Entries)
  BY <1>1, <1>2, SliceType
<1>4. k \in Nat /\ k <= Len(all)
  BY <1>3, LimitsAssumption DEF MinOf
<1>5. SubSeq(all, 1, k) \in Seq(Entries)
  BY <1>3, <1>4, SubSeqProperties
<1> QED BY <1>1, <1>2, <1>5 DEF AppendCall, AppendCalls

LEMMA SnapshotCallType ==
    ASSUME NEW n \in Nodes, NEW i \in Server, NEW term \in Nat, NEW j \in Server
    PROVE  SnapshotCall(n, i, term, j) \in SnapshotCalls
BY DEF SnapshotCall, SnapshotCalls, Nodes

LEMMA CallToType ==
    ASSUME NEW n \in Nodes, NEW i \in Server, NEW term \in Nat, NEW j \in Server
    PROVE  CallTo(n, i, term, j) \subseteq AppendCalls \cup SnapshotCalls
<1>1. n.snap.index \in Nat
  BY DEF Nodes, Snapshots
<1>2. NeedsSnapshot(n, j) \in BOOLEAN
  BY DEF NeedsSnapshot
<1>3. AppendCall(n, i, term, j) \in AppendCalls /\ SnapshotCall(n, i, term, j) \in SnapshotCalls
  BY AppendCallType, SnapshotCallType
<1>4. CASE ~NeedsSnapshot(n, j)
  BY <1>3, <1>4 DEF CallTo
<1>5. CASE NeedsSnapshot(n, j) /\ n.snap.index > 0
  BY <1>3, <1>5 DEF CallTo
<1>6. CASE NeedsSnapshot(n, j) /\ n.snap.index = 0
  BY <1>1, <1>6 DEF CallTo
<1> QED BY <1>1, <1>4, <1>5, <1>6

LEMMA SendToType ==
    ASSUME NEW n \in Nodes, NEW i \in Server, NEW term \in Nat, NEW J \in SUBSET Server
    PROVE  SendTo(n, i, term, J) \in Nodes
<1> DEFINE next == [j \in Server |-> IF j \in J THEN NextOf(n, j) ELSE n.next[j]]
           inst == [j \in Server |-> IF j \in J /\ NeedsSnapshot(n, j)
                                     THEN n.snap.index > 0 ELSE n.installing[j]]
           out  == n.out \cup UNION {CallTo(n, i, term, j) : j \in J}
<1>1. next \in [Server -> Nat]
  BY NextOfType DEF Nodes
<1>2. inst \in [Server -> BOOLEAN]
  <2> DEFINE some == n.snap.index > 0
  <2>1. some \in BOOLEAN /\ \A j \in Server : n.installing[j] \in BOOLEAN
    BY DEF Nodes
  <2> HIDE DEF some
  <2>2. [j \in Server |-> IF j \in J /\ NeedsSnapshot(n, j) THEN some ELSE n.installing[j]]
            \in [Server -> BOOLEAN]
    BY <2>1, Zenon
  <2> QED BY <2>2 DEF some
<1>3. out \in SUBSET (AppendCalls \cup SnapshotCalls)
  <2>1. \A j \in J : CallTo(n, i, term, j) \subseteq AppendCalls \cup SnapshotCalls
    BY CallToType
  <2>2. n.out \subseteq AppendCalls \cup SnapshotCalls
    BY DEF Nodes
  <2> QED BY <2>1, <2>2
<1>4. SendTo(n, i, term, J) = [n EXCEPT !.next = next, !.installing = inst, !.out = out]
  BY DEF SendTo, Nodes
<1> HIDE DEF next, inst, out
<1> QED BY <1>1, <1>2, <1>3, <1>4 DEF Nodes

LEMMA BcastType ==
    ASSUME NEW n \in Nodes, NEW i \in Server, NEW term \in Nat
    PROVE  Bcast(n, i, term) \in Nodes
<1>1. Members(n.conf) \ {i} \in SUBSET Server
  BY DEF Members, Nodes, Membership
<1> QED BY <1>1, SendToType DEF Bcast

LEMMA ResetProgressType ==
    ASSUME NEW n \in Nodes, NEW i \in Server
    PROVE  ResetProgress(n, i) \in Nodes
<1>1. LastIndex(n.log) \in Nat
  BY LogReads DEF Nodes
<1> DEFINE next  == [j \in Server |-> IF j \in Members(n.conf) THEN LastIndex(n.log) + 1 ELSE 0]
           match == [j \in Server |-> IF j = i /\ i \in Members(n.conf)
                                      THEN LastIndex(n.log) ELSE 0]
           inst  == [j \in Server |-> FALSE]
<1>2. next \in [Server -> Nat] /\ match \in [Server -> Nat] /\ inst \in [Server -> BOOLEAN]
  BY <1>1
<1>3. ResetProgress(n, i) = [n EXCEPT !.next = next, !.match = match, !.installing = inst]
  BY DEF ResetProgress
<1> HIDE DEF next, match, inst
<1> QED BY <1>2, <1>3 DEF Nodes
-----------------------------------------------------------------------------
(***************************************************************************)
(* Applying, committing and appending.                                     *)
(***************************************************************************)

LEMMA TryFinishReadsType ==
    ASSUME NEW n \in Nodes
    PROVE  TryFinishReads(n) \in Nodes
<1> DEFINE Done == {r \in n.reads : Answerable(n, r)}
           miss == UNION {[term : {r.term}, entry : Unseen(n, r)] : r \in Done}
           reads == n.reads \ Done
<1>1. n.reads \subseteq Reads /\ n.missed \subseteq [term : Nat, entry : Entries]
  BY DEF Nodes
<1>2. ASSUME NEW r \in Reads
      PROVE  [term : {r.term}, entry : Unseen(n, r)] \subseteq [term : Nat, entry : Entries]
  BY DEF Reads, Unseen
<1>3. reads \subseteq Reads
  BY <1>1
<1>4. miss \subseteq [term : Nat, entry : Entries]
  BY <1>1, <1>2
<1>5. TryFinishReads(n) = [n EXCEPT !.reads = reads, !.missed = @ \cup miss]
  BY DEF TryFinishReads
<1> HIDE DEF reads, miss
<1> QED BY <1>1, <1>3, <1>4, <1>5 DEF Nodes

LEMMA AckReadsType ==
    ASSUME NEW n \in Nodes, NEW j \in Server
    PROVE  AckReads(n, j) \in Nodes
<1> DEFINE reads == {[r EXCEPT !.acks = @ \cup {j}] : r \in n.reads}
<1>1. n.reads \subseteq Reads
  BY DEF Nodes
<1>2. \A r \in Reads : [r EXCEPT !.acks = @ \cup {j}] \in Reads
  BY DEF Reads
<1>3. reads \subseteq Reads
  BY <1>1, <1>2
<1> HIDE DEF reads
<1>4. [n EXCEPT !.reads = reads] \in Nodes
  BY <1>3 DEF Nodes
<1> QED BY <1>4, TryFinishReadsType DEF AckReads, reads

LEMMA ApplyCommittedType ==
    ASSUME NEW n \in Nodes
    PROVE  ApplyCommitted(n) \in Nodes
<1> DEFINE base == n.log.snapIndex
           from == IF n.applied < n.commit
                   THEN MaxOf(n.applied, MinOf(base, n.commit)) ELSE n.applied
           to   == MinOf(n.commit, base + Len(n.log.ents))
           run  == SubSeq(n.log.ents, from - base + 1, to - base)
           done == {run[k] : k \in {x \in 1..(to - from) : from + x \in n.waiting}}
<1>1. n.log \in Logs /\ n.log.ents \in Seq(Entries) /\ base \in Nat
      /\ n.applied \in Nat /\ n.commit \in Nat /\ Len(n.log.ents) \in Nat
  BY DEF Nodes, Logs
<1>2. from \in Nat /\ to \in Nat /\ to <= base + Len(n.log.ents)
  BY <1>1 DEF MinOf, MaxOf
<1> HIDE DEF from, to
<1>3. CASE from < base \/ to <= from
  <2>1. ApplyCommitted(n) = [n EXCEPT !.applied = from]
    BY <1>3 DEF ApplyCommitted, from, to
  <2> QED BY <2>1, <1>2 DEF Nodes
<1>4. CASE ~(from < base \/ to <= from)
  <2>1. /\ run \in Seq(Entries)
        /\ \A k \in 1..(to - from) : run[k] \in Entries
    <3> DEFINE lo == from - base + 1
               hi == to - base
               len == Len(n.log.ents)
    <3>0. base \in Nat /\ len \in Nat /\ from >= base /\ to > from /\ to <= base + len
      BY <1>1, <1>2, <1>4
    <3> HIDE DEF base, len
    <3>1. lo \in Nat /\ hi \in Nat /\ 1 <= lo /\ lo <= hi /\ hi <= len
          /\ hi - lo + 1 = to - from
      BY <3>0, <1>2
    <3> HIDE DEF lo, hi
    <3>2. /\ SubSeq(n.log.ents, lo, hi) \in Seq(Entries)
          /\ Len(SubSeq(n.log.ents, lo, hi)) = hi - lo + 1
      BY <3>1, <1>1, SubSeqProperties DEF len
    <3>3. run \in Seq(Entries) /\ Len(run) = to - from
      BY <3>1, <3>2 DEF lo, hi, base
    <3> QED BY <3>3
  <2>2. done \subseteq Entries
    BY <2>1
  <2>3. ApplyCommitted(n) = [n EXCEPT !.applied = to, !.sm = @ \o run, !.acked = @ \cup done,
                                  !.waiting = @ \ (from + 1 .. to)]
    BY <1>4 DEF ApplyCommitted, from, to
  <2>4. n.sm \o run \in Seq(Entries)
    BY <2>1, ConcatProperties DEF Nodes
  <2> HIDE DEF run, done
  <2> QED BY <2>2, <2>3, <2>4, <1>2 DEF Nodes
<1> QED BY <1>3, <1>4

LEMMA MaybeApplyType ==
    ASSUME NEW n \in Nodes
    PROVE  MaybeApply(n) \in Nodes
BY ApplyCommittedType, TryFinishReadsType DEF MaybeApply

\* The index maybeCommit picks is past the commit index.
LEMMA CommittablePick ==
    ASSUME NEW n \in Nodes, NEW i \in Server, NEW term \in Nat,
           Committable(n, i, term) # {}
    PROVE  LET x == CHOOSE x \in Committable(n, i, term) :
                        \A y \in Committable(n, i, term) : y <= x
           IN  x \in Committable(n, i, term) /\ x \in Nat /\ x > n.commit
<1> DEFINE C == Committable(n, i, term)
<1>1. n.commit \in Nat /\ LastIndex(n.log) \in Nat
  BY LogReads DEF Nodes
<1>2. C \subseteq n.commit + 1 .. LastIndex(n.log)
  BY DEF Committable
<1>3. C \in SUBSET Int /\ IsFiniteSet(C)
  <2> DEFINE lo == n.commit + 1
             hi == LastIndex(n.log)
  <2>1. lo \in Int /\ hi \in Int /\ C \subseteq lo..hi
    BY <1>1, <1>2
  <2> HIDE DEF lo, hi, C
  <2>2. IsFiniteSet(lo..hi)
    BY <2>1, FS_Interval
  <2>3. IsFiniteSet(C)
    BY <2>1, <2>2, FS_Subset
  <2>4. C \subseteq Int
    BY <2>1
  <2> QED BY <2>3, <2>4
<1> HIDE DEF C
<1>4. (CHOOSE x \in C : \A y \in C : y <= x) \in C
  <2>1. C # {}
    BY DEF C
  <2> QED BY <2>1, <1>3, MaxExists
<1> QED BY <1>1, <1>2, <1>4 DEF C

LEMMA MaybeCommitType ==
    ASSUME NEW n \in Nodes, NEW i \in Server, NEW term \in Nat
    PROVE  MaybeCommit(n, i, term) \in Nodes
<1>1. \A c \in Nat : [n EXCEPT !.commit = c] \in Nodes
  BY DEF Nodes
<1> QED BY <1>1, CommittablePick, MaybeApplyType DEF MaybeCommit

LEMMA ApplyConfigType ==
    ASSUME NEW n \in Nodes, NEW m \in Membership
    PROVE  ApplyConfig(n, m) \in Nodes
<1>1. [j \in Server |-> IF j \in Members(m) THEN NextOf(n, j) ELSE n.next[j]] \in [Server -> Nat]
  BY NextOfType DEF Nodes
<1> QED BY <1>1 DEF ApplyConfig, Nodes

\* What appendData is called with: a kind of entry and data of that kind.
Payloads == ({"normal", "noop"} \X (Value \cup {None})) \cup ({"config"} \X Membership)

LEMMA AppendDataType ==
    ASSUME NEW n \in Nodes, NEW i \in Server, NEW term \in Nat, NEW type, NEW data,
           <<type, data>> \in Payloads
    PROVE  AppendData(n, i, term, type, data) \in Nodes
<1> DEFINE x == LastIndex(n.log) + 1
           e == Entry(x, term, type, data)
           match == [n.match EXCEPT ![i] = IF n.next[i] # 0 THEN x ELSE @]
           next  == [n.next EXCEPT ![i] = IF @ # 0 THEN x + 1 ELSE 0]
           a == [n EXCEPT !.log = AppendTo(@, <<e>>), !.wal = Replay(@, <<e>>),
                          !.match = match, !.next = next]
<1>0. n.log \in Logs /\ n.wal \in Logs
  BY DEF Nodes
<1>1. x \in Nat
  BY <1>0, LogReads
<1>2. e \in Entries /\ e.index = x
  BY <1>1 DEF Entry, Entries, Payloads
<1>a. <<e>> \in Seq(Entries)
  BY <1>2
<1> HIDE DEF x, e
<1>3. AppendTo(n.log, <<e>>) \in Logs /\ Replay(n.wal, <<e>>) \in Logs
  BY <1>a, <1>0, <1>2, AppendToType, ReplayType
<1>4. match \in [Server -> Nat] /\ next \in [Server -> Nat]
  BY <1>1 DEF Nodes
<1> HIDE DEF match, next
<1>5. a \in Nodes
  BY <1>3, <1>4 DEF Nodes
<1>6. AppendData(n, i, term, type, data) =
        IF type = "config" THEN [ApplyConfig(a, data) EXCEPT !.pending = x] ELSE a
  <2>1. a = [n EXCEPT !.log = AppendTo(@, <<e>>), !.wal = Replay(@, <<e>>),
                      !.match[i] = IF n.next[i] # 0 THEN e.index ELSE @,
                      !.next[i]  = IF @ # 0 THEN e.index + 1 ELSE 0]
    BY <1>2 DEF match, next, Nodes
  <2> QED BY <2>1, <1>2 DEF AppendData, e, x
<1> HIDE DEF a
<1>7. CASE type = "config"
  <2>1. data \in Membership
    BY <1>7 DEF Payloads
  <2>2. ApplyConfig(a, data) \in Nodes
    BY <2>1, <1>5, ApplyConfigType
  <2> QED BY <1>6, <1>7, <2>2, <1>1 DEF Nodes
<1>8. CASE type # "config"
  BY <1>5, <1>6, <1>8
<1> QED BY <1>7, <1>8

LEMMA AcceptType ==
    ASSUME NEW n \in Nodes, NEW i \in Server, NEW term \in Nat, NEW type, NEW data,
           <<type, data>> \in Payloads
    PROVE  Accept(n, i, term, type, data) \in Nodes
BY AppendDataType, MaybeCommitType, BcastType DEF Accept

LEMMA MaybePromoteLearnerType ==
    ASSUME NEW n \in Nodes, NEW i \in Server, NEW term \in Nat, NEW j \in Server
    PROVE  MaybePromoteLearner(n, i, term, j) \in Nodes
<1>1. <<"config", Promoted(n.conf, j)>> \in Payloads
  BY DEF Payloads, Promoted, Membership, Nodes
<1> QED BY <1>1, AcceptType DEF MaybePromoteLearner

-----------------------------------------------------------------------------
(***************************************************************************)
(* Snapshots, ticks, restarts.                                             *)
(***************************************************************************)

LEMMA MaybeSnapshotType ==
    ASSUME NEW n \in Nodes
    PROVE  MaybeSnapshot(n) \in Nodes
<1> DEFINE term == IF KnowsTerm(n.log, n.applied) THEN Term(n.log, n.applied) ELSE n.log.snapTerm
           s    == [index |-> n.applied, term |-> term, sm |-> n.sm]
<1>1. n.log \in Logs /\ n.applied \in Nat /\ n.log.snapTerm \in Nat
  BY DEF Nodes, Logs
<1>2. term \in Nat
  BY <1>1, LogReads
<1> HIDE DEF term
<1>3. s \in Snapshots
  BY <1>1, <1>2 DEF Snapshots, Nodes
<1>4. Saved(n.snap, s) \in Snapshots
  BY <1>3 DEF Saved, Nodes
<1>5. Compact(n.log, n.applied, term) \in Logs
  BY <1>1, <1>2, CompactType
<1> HIDE DEF s
<1>6. [n EXCEPT !.snap = Saved(n.snap, s), !.log = Compact(n.log, n.applied, term)] \in Nodes
  BY <1>4, <1>5 DEF Nodes
<1>7. \/ MaybeSnapshot(n) = n
      \/ MaybeSnapshot(n) = [n EXCEPT !.snap = Saved(n.snap, s), !.log = Compact(n.log, n.applied, term)]
  BY DEF MaybeSnapshot, s, term
<1> QED BY <1>6, <1>7

LEMMA HousekeepingType ==
    ASSUME NEW n \in Nodes
    PROVE  Housekeeping(n) \in Nodes
BY MaybeApplyType, MaybeSnapshotType DEF Housekeeping

LEMMA FailPendingType ==
    ASSUME NEW n \in Nodes
    PROVE  FailPending(n) \in Nodes
BY DEF FailPending, Nodes

LEMMA InstallType ==
    ASSUME NEW n \in Nodes, NEW s \in Snapshots, NEW m \in Membership
    PROVE  Install(n, s, m) \in Nodes
<1>1. Saved(n.snap, s) \in Snapshots /\ Saved(n.snap, s).sm \in Seq(Entries)
  BY DEF Saved, Nodes, Snapshots
<1>2. s.index \in Nat /\ s.term \in Nat /\ n.commit \in Nat
  BY DEF Snapshots, Nodes
<1>3. Restore(s.index, s.term) \in Logs /\ MaxOf(n.commit, s.index) \in Nat
  BY <1>2, RestoreType DEF MaxOf
<1> DEFINE conf == IF m.voters # {} THEN m ELSE n.conf
<1>4. conf \in Membership
  BY DEF Nodes
<1>5. Install(n, s, m) =
        [n EXCEPT !.snap = Saved(n.snap, s), !.sm = Saved(n.snap, s).sm,
                  !.log = Restore(s.index, s.term), !.commit = MaxOf(n.commit, s.index),
                  !.applied = s.index, !.conf = conf]
  BY DEF Install
<1> HIDE DEF conf
<1> QED BY <1>1, <1>2, <1>3, <1>4, <1>5 DEF Nodes

LEMMA TakeEntriesType ==
    ASSUME NEW n \in Nodes, NEW es \in Seq(Entries)
    PROVE  TakeEntries(n, es) \in Nodes
<1> DEFINE added   == Appended(n.log, es)
           Configs == {k \in 1..Len(added) : added[k].type = "config"}
           a == [n EXCEPT !.log = Merge(@, es),
                          !.wal = Replay(Replay(@, Stale(n.log, es)), Fresh(n.log, es))]
           k == CHOOSE k \in Configs : \A x \in Configs : x <= k
<1>1. n.log \in Logs /\ n.wal \in Logs
  BY DEF Nodes
<1>2. Merge(n.log, es) \in Logs /\ Replay(Replay(n.wal, Stale(n.log, es)), Fresh(n.log, es)) \in Logs
  BY <1>1, MergeType, StaleType, FreshType, ReplayType
<1>3. a \in Nodes
  BY <1>2 DEF Nodes
<1>4. added \in Seq(Entries)
  BY <1>1, AppendedType
<1> HIDE DEF a, added
<1>5. CASE Configs = {}
  BY <1>3, <1>5 DEF TakeEntries, a, added
<1>6. CASE Configs # {}
  <2>1. Configs \subseteq 1..Len(added) /\ Len(added) \in Int
    BY <1>4
  <2>2. IsFiniteSet(1..Len(added))
    BY <2>1, FS_Interval
  <2>3. IsFiniteSet(Configs)
    BY <2>1, <2>2, FS_Subset
  <2>4. Configs \subseteq Int
    BY <2>1
  <2>5. \E m \in Configs : \A x \in Configs : x <= m
    BY <2>3, <2>4, <1>6, MaxExists
  <2>6. k \in Configs
    BY <2>5
  <2> HIDE DEF k
  <2>7. added[k] \in Entries /\ added[k].type = "config"
    BY <2>6, <1>4
  <2>8. added[k].data \in Membership
    BY <2>7 DEF Entries
  <2>9. TakeEntries(n, es) = ApplyConfig(a, added[k].data)
    BY <1>6 DEF TakeEntries, a, added, k
  <2> QED BY <2>8, <2>9, <1>3, ApplyConfigType
<1> QED BY <1>5, <1>6

LEMMA FollowCommitType ==
    ASSUME NEW n \in Nodes, NEW c \in Nat
    PROVE  FollowCommit(n, c) \in Nodes
<1>1. MinOf(c, LastIndex(n.log)) \in Nat
  <2>1. LastIndex(n.log) \in Nat
    BY LogReads DEF Nodes
  <2> QED BY <2>1 DEF MinOf
<1>2. [n EXCEPT !.commit = MinOf(c, LastIndex(n.log))] \in Nodes
  BY <1>1 DEF Nodes
<1> QED BY <1>2, MaybeApplyType DEF FollowCommit

LEMMA BootedType ==
    ASSUME NEW i \in Server, NEW w \in Logs, NEW s \in Snapshots, NEW c \in Nat,
           NEW acked \in SUBSET Entries, NEW missed \in SUBSET [term : Nat, entry : Entries]
    PROVE  Booted(i, w, s, c, acked, missed) \in Nodes
<1> DEFINE log == IF s.index = 0 THEN w ELSE Compact(w, s.index, s.term)
<1>1. log \in Logs /\ s.sm \in Seq(Entries)
  BY CompactType DEF Snapshots
<1> HIDE DEF log
<1>2. MinOf(log.snapIndex, c) \in Nat
  BY <1>1 DEF Logs, MinOf
<1>3. NoProgress \in [Server -> Nat] /\ [j \in Server |-> FALSE] \in [Server -> BOOLEAN]
  BY DEF NoProgress
<1>4. [voters |-> Peers[i], learners |-> {}] \in Membership
  BY PeersAssumption DEF Membership
<1> QED BY <1>1, <1>2, <1>3, <1>4 DEF Booted, Nodes, log

\* What New starts the cluster from is typed.
LEMMA InitialTypes ==
    EmptyLog \in Logs /\ NoSnapshot \in Snapshots
BY DEF EmptyLog, NoSnapshot, Logs, Snapshots

-----------------------------------------------------------------------------
(***************************************************************************)
(* The parts of the handlers.                                              *)
(***************************************************************************)

\* The network never makes up a message.
LEMMA NetworksBound ==
    ASSUME NEW M, NEW C, NEW X \in Networks(M, C)
    PROVE  X \subseteq M \cup C
BY DEF Networks

\* What a handler leaves behind is typed if its record and replies are.
LEMMA FinishType ==
    ASSUME TypeOK, NEW i \in Server, NEW n \in Nodes, NEW done,
           NEW replies, replies \subseteq Messages, NEW calls, calls \subseteq Messages,
           Finish(i, n, done, replies, calls)
    PROVE  /\ node' \in [Server -> Nodes]
           /\ \A j \in Server : node'[j].out = {}
           /\ msgs' \in SUBSET Messages
<1> DEFINE sent == {m \in (msgs \ done) \cup replies : Live(m)}
<1>1. [n EXCEPT !.out = {}] \in Nodes /\ [n EXCEPT !.out = {}].out = {}
  BY DEF Nodes
<1>2. node' \in [Server -> Nodes] /\ \A j \in Server : node'[j].out = {}
  BY <1>1 DEF Finish, TypeOK
<1>3. sent \subseteq Messages
  BY DEF TypeOK
<1>4. calls \cup n.out \subseteq Messages
  BY DEF Nodes, Messages, Calls
<1>5. msgs' \in Networks(sent, calls \cup n.out)
  BY DEF Finish
<1> HIDE DEF sent
<1>6. msgs' \subseteq Messages
  BY <1>3, <1>4, <1>5, NetworksBound
<1> QED BY <1>2, <1>6

\* The same for a handler that starts no call of its own.
LEMMA FinishQuietType ==
    ASSUME TypeOK, NEW i \in Server, NEW n \in Nodes, NEW done,
           NEW replies, replies \subseteq Messages,
           Finish(i, n, done, replies, {})
    PROVE  /\ node' \in [Server -> Nodes]
           /\ \A j \in Server : node'[j].out = {}
           /\ msgs' \in SUBSET Messages
<1> DEFINE calls == {}
<1>1. calls \subseteq Messages /\ Finish(i, n, done, replies, calls)
  OBVIOUS
<1> HIDE DEF calls
<1> QED BY <1>1, FinishType

HardStates == [term : Nat, votedFor : Server \cup {None}, commit : Nat]

LEMMA SteppedDownType ==
    ASSUME TypeOK, NEW i \in Server, NEW term \in Nat
    PROVE  /\ SteppedDown(i, term) \in HardStates
           /\ \A v \in Server \cup {None} : Persisted(i, term, v) \in HardStates
<1>1. node[i].commit \in Nat /\ hs[i] \in HardStates
  BY DEF TypeOK, Nodes, HardStates
<1> QED BY <1>1 DEF SteppedDown, Persisted, HardStates

LEMMA BecomeFollowerType ==
    ASSUME TypeOK, NEW i \in Server, NEW term \in Nat, BecomeFollower(i, term)
    PROVE  /\ hs' \in [Server -> HardStates]
           /\ role' \in [Server -> {"follower", "candidate", "leader"}]
           /\ votes' \in [Server -> SUBSET Server]
BY SteppedDownType DEF BecomeFollower, TypeOK, HardStates

\* The fields of a message.
LEMMA MessageFields ==
    ASSUME NEW m \in Messages
    PROVE  /\ m.from \in Server /\ m.to \in Server /\ m.term \in Nat
           /\ m.type = "RequestVote" => m \in VoteRequests
           /\ m.type = "AppendEntries" => m \in AppendCalls
           /\ m.type = "InstallSnapshot" => m \in SnapshotCalls
           /\ m.type = "RequestVoteReply" => m \in VoteReplies
           /\ m.type = "AppendEntriesReply" => m \in AppendReplies
           /\ m.type = "InstallSnapshotReply" => m \in SnapshotReplies
BY DEF Messages, Calls, VoteRequests, AppendCalls, SnapshotCalls, VoteReplies, AppendReplies,
       SnapshotReplies

-----------------------------------------------------------------------------
(***************************************************************************)
(* One lemma per action.                                                   *)
(***************************************************************************)

LEMMA ElectedType ==
    ASSUME NEW n \in Nodes, NEW i \in Server, NEW term \in Nat
    PROVE  Elected(n, i, term) \in Nodes
<1>1. <<"noop", None>> \in Payloads
  BY DEF Payloads
<1> QED BY <1>1, ResetProgressType, AcceptType DEF Elected

LEMMA CampaignType ==
    ASSUME TypeOK, NEW i \in Server, Campaign(i)
    PROVE  TypeOK'
<1> DEFINE term == hs[i].term + 1
           wins == 1 >= Quorum(node[i].conf)
           n    == Housekeeping(IF wins THEN Elected(node[i], i, term) ELSE node[i])
           calls == IF wins THEN {} ELSE VoteCalls(i, term)
<1>1. node[i] \in Nodes /\ hs[i].term \in Nat /\ term \in Nat
  BY DEF TypeOK
<1>2. n \in Nodes
  BY <1>1, ElectedType, HousekeepingType
<1>3. VoteCalls(i, term) \subseteq Messages
  <2>1. LastIndex(node[i].log) \in Nat /\ LastTerm(node[i].log) \in Nat
    BY <1>1, LogReads DEF Nodes
  <2>2. node[i].conf.voters \subseteq Server
    BY <1>1 DEF Nodes, Membership
  <2> QED BY <2>1, <2>2, <1>1 DEF VoteCalls, Messages, Calls, VoteRequests
<1>4. Finish(i, n, {}, {}, calls)
  BY DEF Campaign
<1>5. hs' \in [Server -> HardStates]
  <2>1. Persisted(i, term, i) \in HardStates
    BY <1>1, SteppedDownType
  <2> QED BY <2>1 DEF Campaign, TypeOK, HardStates
<1>6. role' \in [Server -> {"follower", "candidate", "leader"}]
  BY DEF Campaign, TypeOK
<1>7. votes' \in [Server -> SUBSET Server]
  BY DEF Campaign, TypeOK
<1>8. granted' \in SUBSET [voter : Server, term : Nat, candidate : Server] /\ restarts' \in Nat
  BY <1>1 DEF Campaign, TypeOK
<1> HIDE DEF n
<1>9. /\ node' \in [Server -> Nodes] /\ \A j \in Server : node'[j].out = {}
      /\ msgs' \in SUBSET Messages
  <2>1. {} \subseteq Messages /\ calls \subseteq Messages
    BY <1>3
  <2> HIDE DEF calls
  <2> QED BY <2>1, <1>2, <1>4, FinishType
<1> QED BY <1>5, <1>6, <1>7, <1>8, <1>9 DEF TypeOK, HardStates

LEMMA HandleRequestVoteType ==
    ASSUME TypeOK, NEW m \in msgs, HandleRequestVote(m)
    PROVE  TypeOK'
<1> DEFINE i     == m.to
           newer == m.term > hs[i].term
           known == SteppedDown(i, m.term)
           grant == /\ m.term >= hs[i].term
                    /\ known.votedFor \in {None, m.from}
                    /\ UpToDate(node[i].log, m.lastIndex, m.lastTerm)
           n     == IF newer THEN FailPending(node[i]) ELSE node[i]
<1>1. m \in Messages /\ m.from \in Server /\ i \in Server /\ m.term \in Nat
  BY MessageFields DEF TypeOK
<1>2. known \in HardStates /\ Persisted(i, m.term, m.from) \in HardStates
  BY <1>1, SteppedDownType
<1>3. n \in Nodes
  BY <1>1, FailPendingType DEF TypeOK
<1>4. {VoteReply(m, known.term, grant)} \subseteq Messages
  BY <1>1, <1>2 DEF VoteReply, Messages, VoteReplies, HardStates
<1>5. Finish(i, n, Delivered(m), {VoteReply(m, known.term, grant)}, {})
  BY DEF HandleRequestVote
<1>6. hs' \in [Server -> HardStates]
  BY <1>2 DEF HandleRequestVote, TypeOK, HardStates
<1>7. role' \in [Server -> {"follower", "candidate", "leader"}] /\ votes' \in [Server -> SUBSET Server]
  BY DEF HandleRequestVote, TypeOK
<1>8. granted' \in SUBSET [voter : Server, term : Nat, candidate : Server] /\ restarts' \in Nat
  BY <1>1 DEF HandleRequestVote, TypeOK
<1> HIDE DEF n, known, grant
<1>9. /\ node' \in [Server -> Nodes] /\ \A j \in Server : node'[j].out = {}
      /\ msgs' \in SUBSET Messages
  BY <1>1, <1>3, <1>4, <1>5, FinishQuietType
<1> QED BY <1>6, <1>7, <1>8, <1>9 DEF TypeOK, HardStates

LEMMA OnVoteReplyType ==
    ASSUME TypeOK, NEW m \in msgs, OnVoteReply(m)
    PROVE  TypeOK'
<1> DEFINE i       == m.to
           counted == votes[i] \cup {m.from}
           wins    == Cardinality(counted) >= Quorum(node[i].conf)
           n       == IF wins THEN Elected(node[i], i, hs[i].term) ELSE node[i]
<1>1. m.from \in Server /\ i \in Server /\ m.term \in Nat /\ node[i] \in Nodes /\ hs[i].term \in Nat
  BY MessageFields DEF TypeOK
<1>2. granted' = granted /\ restarts' = restarts
  BY DEF OnVoteReply
<1>3. CASE /\ BecomeFollower(i, m.term)
           /\ Finish(i, FailPending(node[i]), {m}, {}, {})
  <2>1. FailPending(node[i]) \in Nodes /\ {} \subseteq Messages
    BY <1>1, FailPendingType
  <2>2. /\ node' \in [Server -> Nodes] /\ \A j \in Server : node'[j].out = {}
        /\ msgs' \in SUBSET Messages
    BY <1>1, <1>3, <2>1, FinishQuietType
  <2> QED BY <1>1, <1>2, <1>3, <2>2, BecomeFollowerType DEF TypeOK, HardStates
<1>4. CASE /\ UNCHANGED hs
           /\ votes' = [votes EXCEPT ![i] = counted]
           /\ role'  = [role EXCEPT ![i] = IF wins THEN "leader" ELSE @]
           /\ Finish(i, n, {m}, {}, {})
  <2>1. n \in Nodes /\ {} \subseteq Messages
    BY <1>1, ElectedType
  <2> HIDE DEF n
  <2>2. /\ node' \in [Server -> Nodes] /\ \A j \in Server : node'[j].out = {}
        /\ msgs' \in SUBSET Messages
    BY <1>1, <1>4, <2>1, FinishQuietType
  <2>3. votes' \in [Server -> SUBSET Server]
        /\ role' \in [Server -> {"follower", "candidate", "leader"}]
    BY <1>1, <1>4 DEF TypeOK
  <2> QED BY <1>2, <1>4, <2>2, <2>3 DEF TypeOK
<1> QED BY <1>3, <1>4 DEF OnVoteReply

(***************************************************************************)
(* Most handlers take no part in elections: they leave the roles and hard  *)
(* states alone, or step down, and send no vote.                           *)
(***************************************************************************)

\* What such a handler puts into the network besides its new calls.
Others == AppendReplies \cup SnapshotCalls \cup SnapshotReplies

Replicates ==
    \E i \in Server :
        /\ UNCHANGED <<hs, role, votes>> \/ \E term \in Nat : BecomeFollower(i, term)
        /\ UNCHANGED <<granted, restarts>>
        /\ \E n \in Nodes, replies \in SUBSET Others : \E done : Finish(i, n, done, replies, {})

LEMMA LocalStep ==
    ASSUME NEW i \in Server, NEW n \in Nodes, NEW done, NEW replies, replies \subseteq Others,
           UNCHANGED <<hs, role, votes, granted, restarts>>,
           Finish(i, n, done, replies, {})
    PROVE  Replicates
BY DEF Replicates

LEMMA StepDown ==
    ASSUME NEW i \in Server, NEW n \in Nodes, NEW done, NEW replies, replies \subseteq Others,
           NEW term \in Nat, BecomeFollower(i, term),
           UNCHANGED <<granted, restarts>>,
           Finish(i, n, done, replies, {})
    PROVE  Replicates
BY DEF Replicates

LEMMA ReplicatesType ==
    ASSUME TypeOK, Replicates
    PROVE  TypeOK'
<1> PICK i \in Server :
        /\ UNCHANGED <<hs, role, votes>> \/ \E term \in Nat : BecomeFollower(i, term)
        /\ UNCHANGED <<granted, restarts>>
        /\ \E n \in Nodes, replies \in SUBSET Others : \E done : Finish(i, n, done, replies, {})
  BY DEF Replicates
<1> PICK n \in Nodes, replies \in SUBSET Others : \E done : Finish(i, n, done, replies, {})
  OBVIOUS
<1> PICK done : Finish(i, n, done, replies, {})
  OBVIOUS
<1>1. replies \subseteq Messages
  BY DEF Others, Messages, Calls
<1>2. /\ node' \in [Server -> Nodes] /\ \A j \in Server : node'[j].out = {}
      /\ msgs' \in SUBSET Messages
  BY <1>1, FinishQuietType
<1>3. CASE UNCHANGED <<hs, role, votes>>
  BY <1>2, <1>3 DEF TypeOK
<1>4. CASE \E term \in Nat : BecomeFollower(i, term)
  BY <1>2, <1>4, BecomeFollowerType DEF TypeOK, HardStates
<1> QED BY <1>3, <1>4

LEMMA TickReplicates ==
    ASSUME TypeOK, NEW i \in Server, Heartbeat(i) \/ IdleTick(i)
    PROVE  Replicates
<1>1. node[i] \in Nodes /\ hs[i].term \in Nat /\ {} \subseteq Others
  BY DEF TypeOK
<1>2. CASE Heartbeat(i)
  <2>1. Housekeeping(Bcast(node[i], i, hs[i].term)) \in Nodes
    BY <1>1, BcastType, HousekeepingType
  <2> QED BY <1>1, <1>2, <2>1, LocalStep DEF Heartbeat
<1>3. CASE IdleTick(i)
  <2>1. Housekeeping(node[i]) \in Nodes
    BY <1>1, HousekeepingType
  <2> QED BY <1>1, <1>3, <2>1, LocalStep DEF IdleTick
<1> QED BY <1>2, <1>3

LEMMA ProposeReplicates ==
    ASSUME TypeOK, NEW i \in Server, NEW v \in Value, Propose(i, v)
    PROVE  Replicates
<1> DEFINE term == hs[i].term
           n == AppendData(node[i], i, term, "normal", v)
           w == [n EXCEPT !.waiting = @ \cup {LastIndex(n.log)}]
           b == Bcast(MaybeCommit(w, i, term), i, term)
<1>1. node[i] \in Nodes /\ term \in Nat /\ {} \subseteq Others
  BY DEF TypeOK
<1>2. n \in Nodes
  <2>1. <<"normal", v>> \in Payloads
    BY DEF Payloads
  <2> QED BY <1>1, <2>1, AppendDataType
<1>3. w \in Nodes
  <2> HIDE DEF n
  <2>1. LastIndex(n.log) \in Nat
    BY <1>2, LogReads DEF Nodes
  <2> QED BY <1>2, <2>1 DEF Nodes
<1>4. b \in Nodes
  <2> HIDE DEF w
  <2> QED BY <1>1, <1>3, MaybeCommitType, BcastType
<1>5. UNCHANGED <<hs, role, votes, granted, restarts>> /\ Finish(i, b, {}, {}, {})
  BY DEF Propose
<1> HIDE DEF b
<1> QED BY <1>1, <1>4, <1>5, LocalStep

LEMMA LinearizableReadReplicates ==
    ASSUME TypeOK, NEW i \in Server, LinearizableRead(i)
    PROVE  Replicates
<1> DEFINE n == node[i]
           r == Read(i, n.commit, hs[i].term, Promised)
           asked == [n EXCEPT !.reads = @ \cup {r}]
           b == TryFinishReads(Bcast(asked, i, hs[i].term))
<1>1. n \in Nodes /\ hs[i].term \in Nat /\ {} \subseteq Others
  BY DEF TypeOK
<1>2. r \in Reads
  <2>1. Promised \subseteq Entries
    BY DEF Promised, TypeOK, Nodes
  <2>2. n.commit \in Nat
    BY <1>1 DEF Nodes
  <2> QED BY <1>1, <2>1, <2>2 DEF Read, Reads
<1> HIDE DEF r
<1>3. asked \in Nodes
  BY <1>1, <1>2 DEF Nodes
<1> HIDE DEF asked
<1>4. b \in Nodes
  BY <1>1, <1>3, BcastType, TryFinishReadsType
<1>5. UNCHANGED <<hs, role, votes, granted, restarts>> /\ Finish(i, b, {}, {}, {})
  BY DEF LinearizableRead, asked, r
<1> HIDE DEF b
<1> QED BY <1>1, <1>4, <1>5, LocalStep

LEMMA ChangeMembershipReplicates ==
    ASSUME TypeOK, NEW i \in Server, NEW c \in Changes, ChangeMembership(i, c)
    PROVE  Replicates
<1> DEFINE next == Changed(node[i].conf, c)
           n    == Accept(node[i], i, hs[i].term, "config", next)
<1>1. node[i] \in Nodes /\ hs[i].term \in Nat /\ {} \subseteq Others
  BY DEF TypeOK
<1>2. next \in Membership
  <2>1. node[i].conf \in Membership
    BY <1>1 DEF Nodes
  <2>2. c.add \in Server \cup {None}
    BY BoundsAssumption
  <2> QED BY <2>1, <2>2 DEF Changed, Membership
<1>3. n \in Nodes
  <2>1. <<"config", next>> \in Payloads
    BY <1>2 DEF Payloads
  <2> QED BY <1>1, <2>1, AcceptType
<1>4. UNCHANGED <<hs, role, votes, granted, restarts>> /\ Finish(i, n, {}, {}, {})
  BY DEF ChangeMembership
<1> HIDE DEF n
<1> QED BY <1>1, <1>3, <1>4, LocalStep

\* The index of the conflicting term that a follower reports.
LEMMA RejectionType ==
    ASSUME NEW log \in Logs, NEW m \in AppendCalls, NEW term \in Nat
    PROVE  {Rejection(log, m, term)} \subseteq Others
<1> DEFINE t == Term(log, m.prevIndex)
           X == {x \in log.snapIndex + 1 .. LastIndex(log) : Has(log, x) /\ Term(log, x) = t}
<1>1. /\ m.prevIndex \in Nat /\ Len(m.ents) \in Nat /\ m.from \in Server /\ m.to \in Server
      /\ m.term \in Nat
  BY DEF AppendCalls
<1>2. LastIndex(log) \in Nat /\ t \in Nat /\ log.snapIndex \in Nat
  <2>1. LastIndex(log) \in Nat /\ \A x \in Int : Term(log, x) \in Nat
    BY LogReads
  <2>2. m.prevIndex \in Int
    BY <1>1
  <2>3. t \in Nat
    BY <2>1, <2>2, Zenon
  <2> QED BY <2>1, <2>3 DEF Logs
<1>3. FirstIndexOfTerm(log, t) \in Nat
  <2>1. X # {} => (CHOOSE x \in X : \A y \in X : x <= y) \in X
    <3> DEFINE lo == log.snapIndex + 1
               hi == LastIndex(log)
    <3>1. lo \in Int /\ hi \in Int /\ X \subseteq lo..hi
      BY <1>2
    <3> HIDE DEF lo, hi, X
    <3>2. IsFiniteSet(lo..hi)
      BY <3>1, FS_Interval
    <3>3. IsFiniteSet(X)
      BY <3>1, <3>2, FS_Subset
    <3>4. X \subseteq Int
      BY <3>1
    <3> QED BY <3>3, <3>4, MinExists
  <2>2. X \subseteq Nat
    BY <1>2
  <2>3. CASE t = 0
    BY <2>3, <1>2 DEF FirstIndexOfTerm
  <2>4. CASE t # 0 /\ X = {}
    BY <2>4 DEF FirstIndexOfTerm
  <2>5. CASE t # 0 /\ X # {}
    <3>1. FirstIndexOfTerm(log, t) = CHOOSE x \in X : \A y \in X : x <= y
      BY <2>5 DEF FirstIndexOfTerm
    <3> HIDE DEF X
    <3> QED BY <3>1, <2>1, <2>2, <2>5
  <2> QED BY <2>3, <2>4, <2>5
<1> DEFINE first == FirstIndexOfTerm(log, t)
<1>4. Rejection(log, m, term) \in AppendReplies
  <2> HIDE DEF t
  <2>1. first \in Nat
    BY <1>3
  <2> HIDE DEF first
  <2>2. \A ci, ct \in Nat : AppendReply(m, term, FALSE, 0, ci, ct) \in AppendReplies
    BY <1>1 DEF AppendReply, AppendReplies
  <2>3. \/ Rejection(log, m, term) = AppendReply(m, term, FALSE, 0, LastIndex(log) + 1, 0)
        \/ Rejection(log, m, term) = AppendReply(m, term, FALSE, 0, m.prevIndex, t)
        \/ Rejection(log, m, term) = AppendReply(m, term, FALSE, 0, first, t)
    BY DEF Rejection, first, t
  <2>4. /\ AppendReply(m, term, FALSE, 0, LastIndex(log) + 1, 0) \in AppendReplies
        /\ AppendReply(m, term, FALSE, 0, m.prevIndex, t) \in AppendReplies
        /\ AppendReply(m, term, FALSE, 0, first, t) \in AppendReplies
    <3>1. 0 \in Nat /\ LastIndex(log) + 1 \in Nat
      BY <1>2
    <3> QED BY <3>1, <1>1, <1>2, <2>1, <2>2, Zenon
  <2> QED BY <2>3, <2>4
<1> QED BY <1>4 DEF Others

LEMMA HandleAppendEntriesReplicates ==
    ASSUME TypeOK, NEW m \in msgs, HandleAppendEntries(m)
    PROVE  Replicates
<1> DEFINE i == m.to
           stepsDown == m.term > hs[i].term \/ role[i] # "follower"
           n     == IF stepsDown THEN FailPending(node[i]) ELSE node[i]
           taken == FollowCommit(TakeEntries(n, m.ents), m.commit)
<1>1. m \in AppendCalls /\ i \in Server /\ m.term \in Nat
  BY MessageFields DEF TypeOK, HandleAppendEntries
<1>2. n \in Nodes /\ node[i] \in Nodes /\ hs[i].term \in Nat
  BY <1>1, FailPendingType DEF TypeOK
<1>3. taken \in Nodes
  <2>1. m.ents \in Seq(Entries) /\ m.commit \in Nat
    BY <1>1 DEF AppendCalls
  <2> HIDE DEF n
  <2> QED BY <1>2, <2>1, TakeEntriesType, FollowCommitType
<1>4. n.log \in Logs /\ LastIndex(taken.log) \in Nat
  <2> HIDE DEF n, taken
  <2> QED BY <1>2, <1>3, LogReads DEF Nodes
<1>5. \A term, match \in Nat, ok \in BOOLEAN : {AppendReply(m, term, ok, match, 0, 0)} \subseteq Others
  BY <1>1 DEF AppendReply, AppendReplies, Others, AppendCalls
<1>6. UNCHANGED <<granted, restarts>>
  BY DEF HandleAppendEntries
<1> HIDE DEF n, taken
<1>7. CASE /\ UNCHANGED <<hs, role, votes>>
           /\ Finish(i, node[i], Delivered(m), {AppendReply(m, hs[i].term, FALSE, 0, 0, 0)}, {})
  <2> DEFINE replies == {AppendReply(m, hs[i].term, FALSE, 0, 0, 0)}
  <2>1. replies \subseteq Others
    BY <1>2, <1>5
  <2>2. UNCHANGED <<hs, role, votes, granted, restarts>>
    BY <1>6, <1>7
  <2>3. Finish(i, node[i], Delivered(m), replies, {})
    BY <1>7
  <2> HIDE DEF replies
  <2> QED BY <1>1, <1>2, <2>1, <2>2, <2>3, LocalStep
<1>8. ASSUME NEW r \in Nodes, NEW replies, replies \subseteq Others,
             IF stepsDown THEN BecomeFollower(i, m.term) ELSE UNCHANGED <<hs, role, votes>>,
             Finish(i, r, Delivered(m), replies, {})
      PROVE  Replicates
  <2>1. CASE stepsDown
    BY <1>1, <1>6, <1>8, <2>1, StepDown
  <2>2. CASE ~stepsDown
    <3>1. UNCHANGED <<hs, role, votes, granted, restarts>>
      BY <1>6, <1>8, <2>2
    <3> QED BY <1>1, <1>8, <3>1, LocalStep
  <2> QED BY <2>1, <2>2
<1>9. CASE /\ IF stepsDown THEN BecomeFollower(i, m.term) ELSE UNCHANGED <<hs, role, votes>>
           /\ IF Conflicts(n.log, m)
              THEN Finish(i, n, Delivered(m), {Rejection(n.log, m, m.term)}, {})
              ELSE Finish(i, taken, Delivered(m),
                          {AppendReply(m, m.term, TRUE, LastIndex(taken.log), 0, 0)}, {})
  <2> DEFINE refused  == {Rejection(n.log, m, m.term)}
             accepted == {AppendReply(m, m.term, TRUE, LastIndex(taken.log), 0, 0)}
  <2>1. refused \subseteq Others
    BY <1>1, <1>4, RejectionType
  <2>2. accepted \subseteq Others
    BY <1>1, <1>4, <1>5
  <2>3. CASE Conflicts(n.log, m)
    <3>1. Finish(i, n, Delivered(m), refused, {})
      BY <1>9, <2>3
    <3> HIDE DEF refused
    <3> QED BY <1>2, <1>8, <1>9, <2>1, <3>1
  <2>4. CASE ~Conflicts(n.log, m)
    <3>1. Finish(i, taken, Delivered(m), accepted, {})
      BY <1>9, <2>4
    <3> HIDE DEF accepted
    <3> QED BY <1>3, <1>8, <1>9, <2>2, <3>1
  <2> QED BY <2>3, <2>4
<1> QED BY <1>7, <1>9 DEF HandleAppendEntries, n, taken

\* A leader may set the Progress of a node to any index.
LEMMA ProgressType ==
    ASSUME NEW n \in Nodes, NEW j \in Server, NEW x \in Nat, NEW y \in Nat
    PROVE  /\ [n EXCEPT !.match[j] = x, !.next[j] = y] \in Nodes
           /\ [n EXCEPT !.installing[j] = FALSE, !.match[j] = x, !.next[j] = y] \in Nodes
           /\ [n EXCEPT !.installing[j] = FALSE, !.next[j] = y] \in Nodes
           /\ [n EXCEPT !.next[j] = y] \in Nodes
<1> DEFINE match == [n.match EXCEPT ![j] = x]
           next  == [n.next EXCEPT ![j] = y]
           inst  == [n.installing EXCEPT ![j] = FALSE]
<1>1. match \in [Server -> Nat] /\ next \in [Server -> Nat]
  BY DEF Nodes
<1>2. inst \in [Server -> BOOLEAN]
  BY DEF Nodes
<1>3. /\ [n EXCEPT !.match[j] = x, !.next[j] = y] = [n EXCEPT !.match = match, !.next = next]
      /\ [n EXCEPT !.installing[j] = FALSE, !.match[j] = x, !.next[j] = y]
            = [n EXCEPT !.installing = inst, !.match = match, !.next = next]
      /\ [n EXCEPT !.installing[j] = FALSE, !.next[j] = y]
            = [n EXCEPT !.installing = inst, !.next = next]
      /\ [n EXCEPT !.next[j] = y] = [n EXCEPT !.next = next]
  BY DEF Nodes
<1> HIDE DEF match, next, inst
<1> QED BY <1>1, <1>2, <1>3 DEF Nodes

LEMMA AcknowledgedType ==
    ASSUME NEW n \in Nodes, NEW i \in Server, NEW term \in Nat, NEW m \in AppendReplies
    PROVE  Acknowledged(n, i, term, m) \in Nodes
<1> DEFINE j     == m.from
           match == CASE m.match > n.match[j]                             -> m.match
                      [] m.match <= n.match[j] /\ m.hint - 1 > n.match[j] -> m.hint - 1
                      [] OTHER                                            -> n.match[j]
           c == [n EXCEPT !.match[j] = match, !.next[j] = match + 1]
           k == AckReads(c, j)
           a == MaybeCommit(k, i, term)
           b == IF match + 1 <= LastIndex(a.log) THEN SendTo(a, i, term, {j}) ELSE a
<1>1. j \in Server /\ m.match \in Nat /\ m.hint \in Nat /\ n.match[j] \in Nat
  BY DEF AppendReplies, Nodes
<1>2. match \in Nat
  BY <1>1
<1> HIDE DEF match
<1>3. c \in Nodes
  <2> DEFINE next == match + 1
  <2>1. next \in Nat
    BY <1>2
  <2> HIDE DEF next
  <2>2. [n EXCEPT !.match[j] = match, !.next[j] = next] \in Nodes
    BY <1>1, <1>2, <2>1, ProgressType
  <2> QED BY <2>2 DEF next
<1> HIDE DEF c
<1>k. k \in Nodes
  BY <1>1, <1>3, AckReadsType
<1> HIDE DEF k
<1>4. a \in Nodes
  BY <1>k, MaybeCommitType
<1> HIDE DEF a
<1>5. b \in Nodes
  BY <1>1, <1>4, SendToType
<1> HIDE DEF b
<1>6. MaybePromoteLearner(b, i, term, j) \in Nodes
  BY <1>1, <1>5, MaybePromoteLearnerType
<1> QED BY <1>6 DEF Acknowledged, a, b, c, k, match

\* The index a leader backs up to.
LEMMA BackedUpNext ==
    ASSUME NEW n \in Nodes, NEW m \in AppendReplies
    PROVE  LET last == LastIndexOfTerm(n.log, m.conflictTerm)
           IN  (CASE m.conflictTerm # 0 /\ last > 0 -> last + 1
                  [] ~(m.conflictTerm # 0 /\ last > 0) /\ m.conflictIndex > 0 -> m.conflictIndex
                  [] OTHER -> MaxOf(NextOf(n, m.from) - 1, 1)) \in Nat
<1> DEFINE j    == m.from
           last == LastIndexOfTerm(n.log, m.conflictTerm)
           next == CASE m.conflictTerm # 0 /\ last > 0 -> last + 1
                     [] ~(m.conflictTerm # 0 /\ last > 0) /\ m.conflictIndex > 0 -> m.conflictIndex
                     [] OTHER -> MaxOf(NextOf(n, j) - 1, 1)
<1>1. j \in Server /\ m.conflictIndex \in Nat /\ n.log.snapIndex \in Nat
  BY DEF AppendReplies, Nodes, Logs
<1>2. last \in Nat
  <2> DEFINE Known == {x \in n.log.snapIndex + 1 .. LastIndex(n.log) : Has(n.log, x)}
             X == {x \in Known : /\ Term(n.log, x) = m.conflictTerm
                                 /\ \A y \in Known : y > x => Term(n.log, y) > m.conflictTerm}
  <2>1. LastIndex(n.log) \in Nat
    BY LogReads DEF Nodes
  <2>2. X \subseteq Nat
    BY <1>1, <2>1
  <2>3. last = IF X = {} THEN 0 ELSE CHOOSE x \in X : TRUE
    BY DEF LastIndexOfTerm
  <2> HIDE DEF X
  <2>4. X # {} => (CHOOSE x \in X : TRUE) \in X
    OBVIOUS
  <2> HIDE DEF last
  <2> QED BY <2>2, <2>3, <2>4
<1>3. NextOf(n, j) \in Nat \ {0}
  BY <1>1, NextOfType
<1> HIDE DEF last
<1>4. next \in Nat
  BY <1>1, <1>2, <1>3 DEF MaxOf
<1> QED BY <1>4 DEF last

LEMMA BackedUpType ==
    ASSUME NEW n \in Nodes, NEW i \in Server, NEW term \in Nat, NEW m \in AppendReplies
    PROVE  BackedUp(n, i, term, m) \in Nodes
<1> DEFINE j    == m.from
           last == LastIndexOfTerm(n.log, m.conflictTerm)
           next == CASE m.conflictTerm # 0 /\ last > 0 -> last + 1
                     [] ~(m.conflictTerm # 0 /\ last > 0) /\ m.conflictIndex > 0 -> m.conflictIndex
                     [] OTHER -> MaxOf(NextOf(n, j) - 1, 1)
           c == [n EXCEPT !.next[j] = next]
<1>1. j \in Server /\ m.conflictIndex \in Nat
  BY DEF AppendReplies
<1>2. next \in Nat
  BY BackedUpNext
<1> HIDE DEF next, last
<1>3. c \in Nodes
  BY <1>1, <1>2, ProgressType
<1> HIDE DEF c
<1>4. SendTo(c, i, term, {j}) \in Nodes
  BY <1>1, <1>3, SendToType
<1> QED BY <1>4 DEF BackedUp, c, next, last

LEMMA OnAppendReplyReplicates ==
    ASSUME TypeOK, NEW m \in msgs, OnAppendReply(m)
    PROVE  Replicates
<1> DEFINE i == m.to
           term == hs[i].term
           n == IF m.success THEN Acknowledged(node[i], i, term, m)
                ELSE BackedUp(node[i], i, term, m)
           none == {}
<1>1. m \in AppendReplies /\ i \in Server /\ m.term \in Nat
  BY MessageFields DEF TypeOK, OnAppendReply
<1>2. node[i] \in Nodes /\ term \in Nat /\ none \subseteq Others
  BY <1>1 DEF TypeOK
<1>3. n \in Nodes
  BY <1>1, <1>2, AcknowledgedType, BackedUpType
<1>4. FailPending(node[i]) \in Nodes
  BY <1>2, FailPendingType
<1>5. \/ BecomeFollower(i, m.term) /\ Finish(i, FailPending(node[i]), {m}, none, {})
      \/ UNCHANGED <<hs, role, votes>> /\ Finish(i, n, {m}, none, {})
  BY DEF OnAppendReply
<1>6. UNCHANGED <<granted, restarts>>
  BY DEF OnAppendReply
<1> HIDE DEF n, none
<1>7. CASE BecomeFollower(i, m.term) /\ Finish(i, FailPending(node[i]), {m}, none, {})
  BY <1>1, <1>2, <1>4, <1>6, <1>7, StepDown
<1>8. CASE UNCHANGED <<hs, role, votes>> /\ Finish(i, n, {m}, none, {})
  <2>1. UNCHANGED <<hs, role, votes, granted, restarts>>
    BY <1>6, <1>8
  <2> QED BY <1>1, <1>2, <1>3, <1>8, <2>1, LocalStep
<1> QED BY <1>5, <1>7, <1>8

LEMMA HandleInstallSnapshotReplicates ==
    ASSUME TypeOK, NEW m \in msgs, HandleInstallSnapshot(m)
    PROVE  Replicates
<1> DEFINE i     == m.to
           newer == m.term > hs[i].term
           n     == IF newer THEN FailPending(node[i]) ELSE node[i]
           r     == IF m.term < hs[i].term THEN n ELSE Install(n, m.snap, m.conf)
           replies == IF m.open THEN {InstallReply(m, hs[i].term)} ELSE {}
<1>1. /\ m \in SnapshotCalls /\ i \in Server /\ m.term \in Nat
      /\ m.snap \in Snapshots /\ m.conf \in Membership
  <2>1. m \in SnapshotCalls
    BY MessageFields DEF TypeOK, HandleInstallSnapshot
  <2> QED BY <2>1 DEF SnapshotCalls
<1>2. node[i] \in Nodes /\ hs[i].term \in Nat
  BY <1>1 DEF TypeOK
<1>3. n \in Nodes
  BY <1>2, FailPendingType
<1> HIDE DEF n
<1>4. r \in Nodes
  BY <1>1, <1>3, InstallType
<1> HIDE DEF r
<1>5. replies \subseteq Others
  <2>1. InstallReply(m, hs[i].term) \in Others
    BY <1>1, <1>2 DEF InstallReply, Others, SnapshotReplies, SnapshotCalls, Snapshots
  <2> QED BY <2>1
<1>6. Finish(i, r, Delivered(m), replies, {})
  BY DEF HandleInstallSnapshot, r, n
<1>7. UNCHANGED <<granted, restarts>>
  BY DEF HandleInstallSnapshot
<1> HIDE DEF replies
<1>8. CASE newer
  <2>1. BecomeFollower(i, m.term)
    BY <1>8 DEF HandleInstallSnapshot
  <2> QED BY <1>1, <1>4, <1>5, <1>6, <1>7, <2>1, StepDown
<1>9. CASE ~newer
  <2>1. UNCHANGED <<hs, role, votes, granted, restarts>>
    BY <1>7, <1>9 DEF HandleInstallSnapshot
  <2> QED BY <1>1, <1>4, <1>5, <1>6, <2>1, LocalStep
<1> QED BY <1>8, <1>9

LEMMA OnInstallReplyReplicates ==
    ASSUME TypeOK, NEW m \in msgs, OnInstallReply(m)
    PROVE  Replicates
<1> DEFINE i == m.to
           j == m.from
           term == hs[i].term
           n == [node[i] EXCEPT !.installing[j] = FALSE, !.match[j] = m.index,
                                !.next[j] = m.index + 1]
           r == SendTo(n, i, term, {j})
           none == {}
<1>1. /\ m \in SnapshotReplies /\ i \in Server /\ j \in Server /\ m.term \in Nat /\ m.index \in Nat
  <2>1. m \in SnapshotReplies
    BY MessageFields DEF TypeOK, OnInstallReply
  <2> QED BY <2>1 DEF SnapshotReplies
<1>2. node[i] \in Nodes /\ term \in Nat /\ none \subseteq Others
  BY <1>1 DEF TypeOK
<1>3. n \in Nodes
  <2> DEFINE x == m.index
             y == m.index + 1
  <2>1. x \in Nat /\ y \in Nat
    BY <1>1
  <2> HIDE DEF x, y
  <2>2. [node[i] EXCEPT !.installing[j] = FALSE, !.match[j] = x, !.next[j] = y] \in Nodes
    BY <1>1, <1>2, <2>1, ProgressType
  <2> QED BY <2>2 DEF x, y
<1>4. r \in Nodes
  <2> HIDE DEF n
  <2> QED BY <1>1, <1>2, <1>3, SendToType
<1>5. FailPending(node[i]) \in Nodes
  BY <1>2, FailPendingType
<1>6. \/ BecomeFollower(i, m.term) /\ Finish(i, FailPending(node[i]), {m}, none, {})
      \/ UNCHANGED <<hs, role, votes>> /\ Finish(i, r, {m}, none, {})
  BY DEF OnInstallReply
<1>7. UNCHANGED <<granted, restarts>>
  BY DEF OnInstallReply
<1> HIDE DEF r, none
<1>8. CASE BecomeFollower(i, m.term) /\ Finish(i, FailPending(node[i]), {m}, none, {})
  BY <1>1, <1>2, <1>5, <1>7, <1>8, StepDown
<1>9. CASE UNCHANGED <<hs, role, votes>> /\ Finish(i, r, {m}, none, {})
  <2>1. UNCHANGED <<hs, role, votes, granted, restarts>>
    BY <1>7, <1>9
  <2> QED BY <1>1, <1>2, <1>4, <1>9, <2>1, LocalStep
<1> QED BY <1>6, <1>8, <1>9

LEMMA InstallFailsReplicates ==
    ASSUME TypeOK, NEW m \in msgs, InstallFails(m)
    PROVE  Replicates
<1> DEFINE called == m.type = "InstallSnapshot" /\ m.open
           i == IF called THEN m.from ELSE m.to
           j == IF called THEN m.to ELSE m.from
           next == NextOf(node[i], j)
           r == [node[i] EXCEPT !.installing[j] = FALSE, !.next[j] = next]
           replies == IF called THEN {[m EXCEPT !.open = FALSE]} ELSE {}
<1>1. i \in Server /\ j \in Server
  BY MessageFields DEF TypeOK
<1>2. called => [m EXCEPT !.open = FALSE] \in Others
  <2>1. called => m \in SnapshotCalls
    BY MessageFields DEF TypeOK
  <2> QED BY <2>1 DEF SnapshotCalls, Others
<1>3. replies \subseteq Others
  BY <1>2
<1>4. UNCHANGED <<hs, role, votes, granted, restarts>> /\ Finish(i, r, {m}, replies, {})
  BY DEF InstallFails
<1> HIDE DEF i, j, replies
<1>5. r \in Nodes
  <2>1. node[i] \in Nodes
    BY <1>1 DEF TypeOK
  <2>2. next \in Nat
    BY <1>1, <2>1, NextOfType
  <2> HIDE DEF next
  <2> QED BY <1>1, <2>1, <2>2, ProgressType
<1> HIDE DEF r
<1> QED BY <1>1, <1>3, <1>4, <1>5, LocalStep

-----------------------------------------------------------------------------
(***************************************************************************)
(* Crashes.                                                                *)
(***************************************************************************)

LEMMA RebootType ==
    ASSUME TypeOK, NEW i \in Server, NEW hard \in HardStates, NEW wal \in Logs,
           NEW snap \in Snapshots, Reboot(i, hard, wal, snap),
           msgs' \subseteq Messages
    PROVE  TypeOK'
<1> DEFINE c == MaxOf(hard.commit, snap.index)
           n == Booted(i, wal, snap, c, node[i].acked, node[i].missed)
           h == [hard EXCEPT !.commit = c]
<1>1. c \in Nat
  BY DEF MaxOf, HardStates, Snapshots
<1>2. node[i].acked \in SUBSET Entries /\ node[i].missed \in SUBSET [term : Nat, entry : Entries]
  BY DEF TypeOK, Nodes
<1>3. h \in HardStates
  BY <1>1 DEF HardStates
<1> HIDE DEF c
<1>4. n \in Nodes /\ n.out = {}
  <2>1. n \in Nodes
    BY <1>1, <1>2, BootedType
  <2> QED BY <2>1 DEF Booted
<1> HIDE DEF n, h
<1>5. /\ restarts' = restarts + 1
      /\ hs'    = [hs EXCEPT ![i] = h]
      /\ role'  = [role EXCEPT ![i] = "follower"]
      /\ votes' = [votes EXCEPT ![i] = {}]
      /\ node'  = [node EXCEPT ![i] = n]
      /\ granted' = granted
  BY DEF Reboot, c, n, h
<1> QED BY <1>3, <1>4, <1>5 DEF TypeOK, HardStates

\* Losing the caller keeps the calls typed.
LEMMA OrphanedType ==
    ASSUME NEW M, M \subseteq Messages, NEW i
    PROVE  Orphaned(M, i) \subseteq Messages
<1>1. ASSUME NEW m \in M, m.type = "InstallSnapshot"
      PROVE  [m EXCEPT !.open = FALSE] \in Messages
  <2>1. m \in SnapshotCalls
    BY <1>1, MessageFields
  <2> QED BY <2>1 DEF SnapshotCalls, Messages, Calls
<1> QED BY <1>1 DEF Orphaned

LEMMA RestartType ==
    ASSUME TypeOK, NEW i \in Server, Restart(i)
    PROVE  TypeOK'
<1>1. hs[i] \in HardStates /\ node[i].wal \in Logs /\ node[i].snap \in Snapshots
  BY DEF TypeOK, HardStates, Nodes
<1>2. msgs' \subseteq Messages
  BY OrphanedType DEF Restart, TypeOK
<1> QED BY <1>1, <1>2, RebootType DEF Restart

LEMMA CrashInHandlerType ==
    ASSUME TypeOK, NEW m \in msgs, CrashInHandler(m)
    PROVE  TypeOK'
<1> DEFINE i     == m.to
           n     == node[i]
           known == SteppedDown(i, m.term)
<1>1. i \in Server /\ m.term \in Nat
  BY MessageFields DEF TypeOK
<1>2. n \in Nodes /\ n.wal \in Logs /\ n.snap \in Snapshots
  BY <1>1 DEF TypeOK, Nodes
<1>3. known \in HardStates
  BY <1>1, SteppedDownType
<1>4. msgs' \subseteq Messages
  <2> DEFINE M == msgs \ Delivered(m)
  <2>1. M \subseteq Messages /\ msgs' = Orphaned(M, i)
    BY DEF CrashInHandler, TypeOK
  <2> HIDE DEF M
  <2> QED BY <2>1, OrphanedType
<1> HIDE DEF known
<1>5. CASE Reboot(i, known, n.wal, n.snap)
  BY <1>1, <1>2, <1>3, <1>4, <1>5, RebootType
<1>6. ASSUME m.type = "AppendEntries", NEW k \in 1..Len(m.ents),
             Reboot(i, known, TakeEntries(n, SubSeq(m.ents, 1, k)).wal, n.snap)
      PROVE  TypeOK'
  <2> DEFINE es == SubSeq(m.ents, 1, k)
  <2>1. m.ents \in Seq(Entries)
    <3>1. m \in AppendCalls
      BY <1>6, MessageFields DEF TypeOK
    <3> QED BY <3>1 DEF AppendCalls
  <2>2. es \in Seq(Entries)
    <3>1. k \in Int /\ \A x \in 1..k : m.ents[x] \in Entries
      BY <2>1, <1>6
    <3> QED BY <3>1, SubSeqProperties
  <2> HIDE DEF es
  <2>3. TakeEntries(n, es) \in Nodes
    BY <1>2, <2>2, TakeEntriesType
  <2> DEFINE wal == TakeEntries(n, es).wal
  <2>4. wal \in Logs
    BY <2>3 DEF Nodes
  <2>5. Reboot(i, known, wal, n.snap)
    BY <1>6 DEF es
  <2> HIDE DEF wal
  <2> QED BY <1>1, <1>2, <1>3, <1>4, <2>4, <2>5, RebootType
<1> QED BY <1>5, <1>6 DEF CrashInHandler, known

LEMMA StopWhileServingType ==
    ASSUME TypeOK, NEW m \in msgs, StopWhileServing(m)
    PROVE  TypeOK'
<1> DEFINE i == m.to
           M == msgs \ Delivered(m)
<1>1. i \in Server
  BY MessageFields DEF TypeOK
<1>2. hs[i] \in HardStates /\ node[i].wal \in Logs /\ node[i].snap \in Snapshots
  BY <1>1 DEF TypeOK, HardStates, Nodes
<1>3. M \subseteq Messages
  BY DEF TypeOK
<1>4. ZeroReply(m) \subseteq Messages
  <2>1. m \in Messages /\ ~IsReply(m)
    BY DEF StopWhileServing, TypeOK
  <2>2. m \in Calls
    BY <2>1 DEF IsReply, Messages, VoteReplies, AppendReplies, SnapshotReplies
  <2>3. CASE m.type = "RequestVote"
    <3>1. m \in VoteRequests
      BY <2>1, <2>3, MessageFields
    <3>2. VoteReply(m, 0, FALSE) \in VoteReplies
      BY <3>1 DEF VoteRequests, VoteReply, VoteReplies
    <3> QED BY <2>3, <3>2 DEF ZeroReply, Messages
  <2>4. CASE m.type = "AppendEntries"
    <3>1. m \in AppendCalls
      BY <2>1, <2>4, MessageFields
    <3>2. AppendReply(m, 0, FALSE, 0, 0, 0) \in AppendReplies
      BY <3>1 DEF AppendCalls, AppendReply, AppendReplies
    <3> QED BY <2>4, <3>2 DEF ZeroReply, Messages
  <2>5. CASE m.type = "InstallSnapshot"
    <3>1. m \in SnapshotCalls
      BY <2>1, <2>5, MessageFields
    <3>2. InstallReply(m, 0) \in SnapshotReplies /\ m.open \in BOOLEAN
      BY <3>1 DEF SnapshotCalls, Snapshots, InstallReply, SnapshotReplies
    <3> QED BY <2>5, <3>2 DEF ZeroReply, Messages
  <2> QED BY <2>2, <2>3, <2>4, <2>5 DEF Calls, VoteRequests, AppendCalls, SnapshotCalls
<1> HIDE DEF M
<1>5. msgs' = Orphaned(M, i) \cup {r \in ZeroReply(m) : Live(r)}
  BY DEF StopWhileServing, M
<1>6. msgs' \subseteq Messages
  BY <1>3, <1>4, <1>5, OrphanedType
<1>7. Reboot(i, hs[i], node[i].wal, node[i].snap)
  BY DEF StopWhileServing
<1> QED BY <1>1, <1>2, <1>6, <1>7, RebootType

-----------------------------------------------------------------------------
(***************************************************************************)
(* The type invariant.                                                     *)
(***************************************************************************)

LEMMA InitType == Init => TypeOK
<1> SUFFICES ASSUME Init PROVE TypeOK
  OBVIOUS
<1>1. \A i \in Server : Booted(i, EmptyLog, NoSnapshot, 0, {}, {}) \in Nodes
  BY InitialTypes, BootedType
<1>2. \A i \in Server : Booted(i, EmptyLog, NoSnapshot, 0, {}, {}).out = {}
  BY DEF Booted
<1> QED BY <1>1, <1>2 DEF Init, TypeOK

LEMMA NextType == TypeOK /\ [Next]_vars => TypeOK'
<1> SUFFICES ASSUME TypeOK, [Next]_vars PROVE TypeOK'
  OBVIOUS
<1>1. CASE UNCHANGED vars
  BY <1>1 DEF vars, TypeOK
<1>2. ASSUME NEW i \in Server, Campaign(i) PROVE TypeOK'
  BY <1>2, CampaignType
<1>3. ASSUME NEW i \in Server, Heartbeat(i) \/ IdleTick(i) PROVE TypeOK'
  BY <1>3, TickReplicates, ReplicatesType
<1>4. ASSUME NEW i \in Server, Restart(i) PROVE TypeOK'
  BY <1>4, RestartType
<1>5. ASSUME NEW i \in Server, NEW v \in Value, Propose(i, v) PROVE TypeOK'
  BY <1>5, ProposeReplicates, ReplicatesType
<1>16. ASSUME NEW i \in Server, LinearizableRead(i) PROVE TypeOK'
  BY <1>16, LinearizableReadReplicates, ReplicatesType
<1>6. ASSUME NEW i \in Server, NEW c \in Changes, ChangeMembership(i, c) PROVE TypeOK'
  BY <1>6, ChangeMembershipReplicates, ReplicatesType
<1>7. ASSUME NEW m \in msgs, HandleRequestVote(m) PROVE TypeOK'
  BY <1>7, HandleRequestVoteType
<1>8. ASSUME NEW m \in msgs, OnVoteReply(m) PROVE TypeOK'
  BY <1>8, OnVoteReplyType
<1>9. ASSUME NEW m \in msgs, HandleAppendEntries(m) PROVE TypeOK'
  BY <1>9, HandleAppendEntriesReplicates, ReplicatesType
<1>10. ASSUME NEW m \in msgs, OnAppendReply(m) PROVE TypeOK'
  BY <1>10, OnAppendReplyReplicates, ReplicatesType
<1>11. ASSUME NEW m \in msgs, HandleInstallSnapshot(m) PROVE TypeOK'
  BY <1>11, HandleInstallSnapshotReplicates, ReplicatesType
<1>12. ASSUME NEW m \in msgs, OnInstallReply(m) PROVE TypeOK'
  BY <1>12, OnInstallReplyReplicates, ReplicatesType
<1>13. ASSUME NEW m \in msgs, InstallFails(m) PROVE TypeOK'
  BY <1>13, InstallFailsReplicates, ReplicatesType
<1>14. ASSUME NEW m \in msgs, CrashInHandler(m) PROVE TypeOK'
  BY <1>14, CrashInHandlerType
<1>15. ASSUME NEW m \in msgs, StopWhileServing(m) PROVE TypeOK'
  BY <1>15, StopWhileServingType
<1> QED BY <1>1, <1>2, <1>3, <1>4, <1>5, <1>6, <1>7, <1>8, <1>9, <1>10, <1>11, <1>12, <1>13,
           <1>14, <1>15, <1>16 DEF Next

\* Every variable keeps its type in every run of the cluster: the indexes a
\* handler computes never fall below 0 and every message and entry it makes
\* has the fields its reader expects.
THEOREM TypeCorrect == Spec => []TypeOK
<1>1. Init => TypeOK
  BY InitType
<1>2. TypeOK /\ [Next]_vars => TypeOK'
  BY NextType
<1> QED BY <1>1, <1>2, PTL DEF Spec

-----------------------------------------------------------------------------
(***************************************************************************)
(* The hard state of a node: what VoteKept says of a step.                 *)
(***************************************************************************)
KeepsVote(i) ==
    /\ hs'[i].term >= hs[i].term
    /\ hs'[i].term = hs[i].term /\ hs[i].votedFor # None => hs'[i].votedFor = hs[i].votedFor

\* Stepping down, for any term, and a reboot with that hard state.
LEMMA SteppedDownKeepsVote ==
    ASSUME TypeOK, NEW i \in Server, NEW term \in Nat
    PROVE  /\ SteppedDown(i, term).term >= hs[i].term
           /\ SteppedDown(i, term).term = hs[i].term =>
                  SteppedDown(i, term).votedFor = hs[i].votedFor
           /\ term >= hs[i].term => SteppedDown(i, term).term = term
<1>1. hs[i] \in HardStates /\ hs[i].term \in Nat
  BY DEF TypeOK, HardStates
<1> QED BY <1>1 DEF SteppedDown, Persisted

\* A step that leaves all hard states alone but that of node i.
LEMMA OneHardState ==
    ASSUME TypeOK, NEW i \in Server, NEW h, hs' = [hs EXCEPT ![i] = h],
           h.term >= hs[i].term,
           h.term = hs[i].term /\ hs[i].votedFor # None => h.votedFor = hs[i].votedFor
    PROVE  \A j \in Server : KeepsVote(j)
<1>1. \A j \in Server : hs[j].term \in Nat
  BY DEF TypeOK
<1> QED BY <1>1 DEF KeepsVote, TypeOK

LEMMA SameHardStates ==
    ASSUME TypeOK, hs' = hs
    PROVE  \A j \in Server : KeepsVote(j)
<1>1. \A j \in Server : hs[j].term \in Nat
  BY DEF TypeOK
<1> QED BY <1>1 DEF KeepsVote

LEMMA BecomeFollowerKeepsVote ==
    ASSUME TypeOK, NEW i \in Server, NEW term \in Nat, BecomeFollower(i, term)
    PROVE  \A j \in Server : KeepsVote(j)
BY SteppedDownKeepsVote, OneHardState DEF BecomeFollower

LEMMA RebootKeepsVote ==
    ASSUME TypeOK, NEW i \in Server, NEW hard, NEW wal, NEW snap, Reboot(i, hard, wal, snap),
           hard \in HardStates,
           hard.term >= hs[i].term,
           hard.term = hs[i].term => hard.votedFor = hs[i].votedFor
    PROVE  \A j \in Server : KeepsVote(j)
<1> DEFINE h == [hard EXCEPT !.commit = MaxOf(hard.commit, snap.index)]
<1>1. hs' = [hs EXCEPT ![i] = h]
  BY DEF Reboot
<1>2. h.term = hard.term /\ h.votedFor = hard.votedFor
  BY DEF HardStates
<1> HIDE DEF h
<1> QED BY <1>1, <1>2, OneHardState

LEMMA StepKeepsVotes ==
    ASSUME TypeOK, [Next]_vars
    PROVE  \A j \in Server : KeepsVote(j)
<1> USE DEF HardStates
<1>1. CASE UNCHANGED vars
  BY <1>1, SameHardStates DEF vars
<1>2. ASSUME NEW i \in Server, Campaign(i) PROVE \A j \in Server : KeepsVote(j)
  <2>1. hs[i].term \in Nat
    BY DEF TypeOK
  <2> DEFINE h == Persisted(i, hs[i].term + 1, i)
  <2>2. hs' = [hs EXCEPT ![i] = h] /\ h.term = hs[i].term + 1
    BY <1>2 DEF Campaign, Persisted
  <2> HIDE DEF h
  <2>3. h.term >= hs[i].term /\ h.term # hs[i].term
    BY <2>1, <2>2
  <2> QED BY <2>2, <2>3, OneHardState
<1>3. ASSUME NEW m \in msgs, HandleRequestVote(m) PROVE \A j \in Server : KeepsVote(j)
  <2> DEFINE i == m.to
             known == SteppedDown(i, m.term)
             grant == /\ m.term >= hs[i].term
                      /\ known.votedFor \in {None, m.from}
                      /\ UpToDate(node[i].log, m.lastIndex, m.lastTerm)
             h == IF grant THEN Persisted(i, m.term, m.from) ELSE known
  <2>1. i \in Server /\ m.term \in Nat /\ hs[i].term \in Nat
    BY MessageFields DEF TypeOK
  <2>2. hs' = [hs EXCEPT ![i] = h]
    BY <1>3 DEF HandleRequestVote
  <2>3. /\ known.term >= hs[i].term
        /\ known.term = hs[i].term => known.votedFor = hs[i].votedFor
        /\ m.term >= hs[i].term => known.term = m.term
    BY <2>1, SteppedDownKeepsVote
  <2> HIDE DEF known
  <2>4. h.term >= hs[i].term
    BY <2>3 DEF Persisted
  <2>5. h.term = hs[i].term /\ hs[i].votedFor # None => h.votedFor = hs[i].votedFor
    BY <2>1, <2>3 DEF Persisted
  <2> HIDE DEF h
  <2> QED BY <2>1, <2>2, <2>4, <2>5, OneHardState
<1>4. ASSUME NEW m \in msgs, OnVoteReply(m) PROVE \A j \in Server : KeepsVote(j)
  <2>1. m.to \in Server /\ m.term \in Nat
    BY MessageFields DEF TypeOK
  <2>2. CASE BecomeFollower(m.to, m.term)
    BY <2>1, <2>2, BecomeFollowerKeepsVote
  <2>3. CASE UNCHANGED hs
    BY <2>3, SameHardStates
  <2> QED BY <1>4, <2>2, <2>3 DEF OnVoteReply
<1>5. ASSUME Replicates PROVE \A j \in Server : KeepsVote(j)
  BY <1>5, BecomeFollowerKeepsVote, SameHardStates DEF Replicates
<1>6. ASSUME NEW i \in Server, Restart(i) PROVE \A j \in Server : KeepsVote(j)
  <2>1. hs[i] \in HardStates /\ hs[i].term >= hs[i].term
    BY DEF TypeOK
  <2> QED BY <1>6, <2>1, RebootKeepsVote DEF Restart
<1>7. ASSUME NEW m \in msgs, CrashInHandler(m) PROVE \A j \in Server : KeepsVote(j)
  <2> DEFINE known == SteppedDown(m.to, m.term)
  <2>1. m.to \in Server /\ m.term \in Nat
    BY MessageFields DEF TypeOK
  <2>2. /\ known \in HardStates /\ known.term >= hs[m.to].term
        /\ known.term = hs[m.to].term => known.votedFor = hs[m.to].votedFor
    BY <2>1, SteppedDownType, SteppedDownKeepsVote
  <2>3. \E wal, snap : Reboot(m.to, known, wal, snap)
    BY <1>7 DEF CrashInHandler
  <2> HIDE DEF known
  <2> QED BY <2>1, <2>2, <2>3, RebootKeepsVote
<1>8. ASSUME NEW m \in msgs, StopWhileServing(m) PROVE \A j \in Server : KeepsVote(j)
  <2>1. m.to \in Server
    BY MessageFields DEF TypeOK
  <2>2. hs[m.to] \in HardStates /\ hs[m.to].term >= hs[m.to].term
    BY <2>1 DEF TypeOK
  <2> QED BY <1>8, <2>1, <2>2, RebootKeepsVote DEF StopWhileServing
<1> QED BY <1>1, <1>2, <1>3, <1>4, <1>5, <1>6, <1>7, <1>8, TickReplicates, ProposeReplicates,
           LinearizableReadReplicates, ChangeMembershipReplicates, HandleAppendEntriesReplicates, OnAppendReplyReplicates,
           HandleInstallSnapshotReplicates, OnInstallReplyReplicates, InstallFailsReplicates
        DEF Next

\* A node's term never goes back and a vote is never taken back within its
\* term, across every restart, whatever the crash left half done.
THEOREM VotesAreKept == Spec => VoteKept
<1>1. TypeOK /\ [Next]_vars =>
        [\A i \in Server :
          /\ hs'[i].term >= hs[i].term
          /\ hs'[i].term = hs[i].term /\ hs[i].votedFor # None =>
                hs'[i].votedFor = hs[i].votedFor]_vars
  BY StepKeepsVotes DEF KeepsVote
<1> QED BY <1>1, TypeCorrect, PTL DEF Spec, VoteKept

-----------------------------------------------------------------------------
(***************************************************************************)
(* One leader per term.                                                    *)
(*                                                                         *)
(* A step keeps ElectionInv for three reasons, each a formula of its own:  *)
(* a node only adds votes it has on disk; a vote in the network is one of  *)
(* before, or one just given; and who stays candidate or leader stays so   *)
(* in its term, with the votes it had or with enough of them.              *)
(***************************************************************************)
GivesVotes ==
    /\ granted \subseteq granted'
    /\ \A g \in granted' :
          \/ g \in granted
          \/ g.term = hs'[g.voter].term /\ hs'[g.voter].votedFor = g.candidate

SendsVotes ==
    \A m \in msgs' :
        /\ m.type = "RequestVote" => m.to \in Voters
        /\ m.type = "RequestVoteReply" /\ m.granted =>
              /\ m.from \in Voters
              /\ Vote(m.from, m.sent, m.to) \in granted'
              /\ hs'[m.to].term = m.sent
              /\ role'[m.to] = "candidate"

CountsVotes ==
    \A i \in Server :
        \/ role'[i] = "follower"
        \/ role'[i] = role[i] /\ hs'[i].term = hs[i].term /\ votes'[i] = votes[i]
        \/ /\ \A j \in votes'[i] : j \in Voters /\ Vote(j, hs'[i].term, i) \in granted'
           /\ role'[i] = "leader" => Cardinality(votes'[i]) > Cardinality(Voters) \div 2

LEMMA ElectionStep ==
    ASSUME TypeOK, TypeOK', ElectionInv, \A i \in Server : KeepsVote(i),
           GivesVotes, SendsVotes, CountsVotes
    PROVE  ElectionInv'
<1>1. VotesRecorded'
  <2> SUFFICES ASSUME NEW g \in granted'
               PROVE  /\ g.term <= hs'[g.voter].term
                      /\ g.term = hs'[g.voter].term => hs'[g.voter].votedFor = g.candidate
    BY DEF VotesRecorded
  <2>1. /\ g.voter \in Server /\ g.term \in Nat /\ g.candidate \in Server
        /\ hs'[g.voter].term \in Nat
    BY DEF TypeOK
  <2>2. CASE g \in granted
    <3>1. hs[g.voter].term \in Nat
      BY <2>1 DEF TypeOK
    <3>2. /\ g.term <= hs[g.voter].term
          /\ g.term = hs[g.voter].term => hs[g.voter].votedFor = g.candidate
      BY <2>2 DEF ElectionInv, VotesRecorded
    <3>3. KeepsVote(g.voter)
      BY <2>1
    <3> QED BY <2>1, <3>1, <3>2, <3>3, NoneAssumption DEF KeepsVote
  <2>3. CASE g.term = hs'[g.voter].term /\ hs'[g.voter].votedFor = g.candidate
    BY <2>1, <2>3
  <2> QED BY <2>2, <2>3 DEF GivesVotes
<1>2. OneVote'
  <2> SUFFICES ASSUME NEW g \in granted', NEW h \in granted',
                      g.voter = h.voter, g.term = h.term
               PROVE  g.candidate = h.candidate
    BY DEF OneVote
  <2>1. CASE g \in granted /\ h \in granted
    BY <2>1 DEF ElectionInv, OneVote
  <2>2. CASE g \notin granted \/ h \notin granted
    BY <1>1, <2>2 DEF GivesVotes, VotesRecorded
  <2> QED BY <2>1, <2>2
<1>3. BallotsGenuine'
  BY DEF BallotsGenuine, SendsVotes
<1>4. VotesGenuine'
  BY DEF VotesGenuine, CountsVotes, ElectionInv, GivesVotes
<1>5. LeadersElected'
  BY DEF LeadersElected, CountsVotes, ElectionInv
<1> QED BY <1>1, <1>2, <1>3, <1>4, <1>5 DEF ElectionInv

\* Two leaders of a term would share a voter.
LEMMA InvElectionSafety ==
    ASSUME TypeOK, ElectionInv, IsFiniteSet(Voters)
    PROVE  ElectionSafety
<1> SUFFICES ASSUME NEW i \in Server, NEW j \in Server, role[i] = "leader", role[j] = "leader",
                    hs[i].term = hs[j].term
             PROVE  i = j
  BY DEF ElectionSafety
<1>1. votes[i] \subseteq Voters /\ votes[j] \subseteq Voters
  BY DEF ElectionInv, VotesGenuine
<1>2. Cardinality(votes[i]) + Cardinality(votes[j]) > Cardinality(Voters)
  <2>1. IsFiniteSet(votes[i]) /\ IsFiniteSet(votes[j])
    BY <1>1, FS_Subset
  <2>2. Cardinality(votes[i]) \in Nat /\ Cardinality(votes[j]) \in Nat /\ Cardinality(Voters) \in Nat
    BY <2>1, FS_CardinalityType
  <2>3. /\ Cardinality(votes[i]) > Cardinality(Voters) \div 2
        /\ Cardinality(votes[j]) > Cardinality(Voters) \div 2
    BY DEF ElectionInv, LeadersElected
  <2> QED BY <2>2, <2>3
<1>3. PICK k \in votes[i] : k \in votes[j]
  <2>1. votes[i] \cap votes[j] # {}
    BY <1>1, <1>2, FS_MajoritiesIntersect
  <2> QED BY <2>1
<1>4. Vote(k, hs[i].term, i) \in granted /\ Vote(k, hs[i].term, j) \in granted
  BY <1>3 DEF ElectionInv, VotesGenuine
<1> QED BY <1>4 DEF ElectionInv, OneVote, Vote

-----------------------------------------------------------------------------
(***************************************************************************)
(* Every action keeps ElectionInv.                                         *)
(***************************************************************************)

\* A handler's calls carry no votes but those of calls, and the vote replies
\* that stay in the network are awaited.
LEMMA FinishVotes ==
    ASSUME TypeOK, NEW i \in Server, NEW n \in Nodes, NEW done, NEW replies, NEW calls,
           Finish(i, n, done, replies, calls),
           NEW m \in msgs'
    PROVE  /\ m.type = "RequestVote" => m \in msgs \cup replies \cup calls
           /\ m.type = "RequestVoteReply" => m \in calls \/
                 /\ m \in msgs \cup replies
                 /\ hs'[m.to].term = m.sent
                 /\ role'[m.to] = "candidate"
<1> DEFINE sent == {x \in (msgs \ done) \cup replies : Live(x)}
<1>1. msgs' \in Networks(sent, calls \cup n.out)
  BY DEF Finish
<1>2. sent \subseteq msgs \cup replies /\ \A x \in sent : Live(x)
  OBVIOUS
<1>3. \A x \in n.out : x.type # "RequestVote" /\ x.type # "RequestVoteReply"
  BY DEF Nodes, AppendCalls, SnapshotCalls
<1> HIDE DEF sent
<1>4. m \in sent \/ m \in calls \/ m \in n.out
  BY <1>1, NetworksBound
<1>5. Live(m) /\ m.type = "RequestVoteReply" => hs'[m.to].term = m.sent /\ role'[m.to] = "candidate"
  BY DEF Live, Awaits
<1> QED BY <1>2, <1>3, <1>4, <1>5

LEMMA ReplicatesElection ==
    ASSUME TypeOK, ElectionInv, Replicates
    PROVE  GivesVotes /\ SendsVotes /\ CountsVotes
<1> PICK i \in Server :
        /\ UNCHANGED <<hs, role, votes>> \/ \E term \in Nat : BecomeFollower(i, term)
        /\ UNCHANGED <<granted, restarts>>
        /\ \E n \in Nodes, replies \in SUBSET Others : \E done : Finish(i, n, done, replies, {})
  BY DEF Replicates
<1> PICK n \in Nodes, replies \in SUBSET Others : \E done : Finish(i, n, done, replies, {})
  OBVIOUS
<1> PICK done : Finish(i, n, done, replies, {})
  OBVIOUS
<1>1. GivesVotes
  <2>1. granted' = granted
    OBVIOUS
  <2> QED BY <2>1 DEF GivesVotes
<1>2. SendsVotes
  <2> SUFFICES ASSUME NEW m \in msgs'
               PROVE  /\ m.type = "RequestVote" => m.to \in Voters
                      /\ m.type = "RequestVoteReply" /\ m.granted =>
                            /\ m.from \in Voters
                            /\ Vote(m.from, m.sent, m.to) \in granted'
                            /\ hs'[m.to].term = m.sent
                            /\ role'[m.to] = "candidate"
    BY DEF SendsVotes
  <2>1. \A x \in replies : x.type # "RequestVote" /\ x.type # "RequestVoteReply"
    BY DEF Others, AppendReplies, SnapshotCalls, SnapshotReplies
  <2>2. /\ m.type = "RequestVote" => m \in msgs
        /\ m.type = "RequestVoteReply" =>
              m \in msgs /\ hs'[m.to].term = m.sent /\ role'[m.to] = "candidate"
    BY <2>1, FinishVotes
  <2> QED BY <2>2 DEF ElectionInv, BallotsGenuine
<1>3. CountsVotes
  BY DEF CountsVotes, BecomeFollower, TypeOK
<1> QED BY <1>1, <1>2, <1>3

LEMMA CampaignElection ==
    ASSUME TypeOK, ElectionInv, FixedVoters, IsFiniteSet(Voters), NEW i \in Server, Campaign(i)
    PROVE  GivesVotes /\ SendsVotes /\ CountsVotes
<1> DEFINE term == hs[i].term + 1
           wins == 1 >= Quorum(node[i].conf)
           n    == Housekeeping(IF wins THEN Elected(node[i], i, term) ELSE node[i])
           calls == IF wins THEN {} ELSE VoteCalls(i, term)
           none == {}
<1>1. /\ hs' = [hs EXCEPT ![i] = Persisted(i, term, i)]
      /\ granted' = granted \cup {[voter |-> i, term |-> term, candidate |-> i]}
      /\ votes' = [votes EXCEPT ![i] = {i}]
      /\ role' = [role EXCEPT ![i] = IF wins THEN "leader" ELSE "candidate"]
      /\ Finish(i, n, none, none, calls)
      /\ i \in Voters
  BY DEF Campaign, FixedVoters
<1>2. hs'[i].term = term /\ hs'[i].votedFor = i
  BY <1>1 DEF TypeOK, Persisted
<1>3. n \in Nodes
  <2>1. node[i] \in Nodes /\ term \in Nat
    BY DEF TypeOK
  <2> QED BY <2>1, ElectedType, HousekeepingType
<1>4. \A m \in calls : m.type = "RequestVote" /\ m.to \in Voters
  BY DEF VoteCalls, FixedVoters
<1>5. wins => 1 > Cardinality(Voters) \div 2
  <2>1. Cardinality(Voters) \in Nat /\ node[i].conf.voters = Voters
    BY FS_CardinalityType DEF FixedVoters
  <2> QED BY <2>1 DEF Quorum
<1> HIDE DEF n, calls, term, wins
<1>6. GivesVotes
  <2> DEFINE v == [voter |-> i, term |-> term, candidate |-> i]
  <2>1. granted' = granted \cup {v}
    BY <1>1
  <2>2. v.term = hs'[v.voter].term /\ hs'[v.voter].votedFor = v.candidate
    BY <1>2
  <2> HIDE DEF v
  <2> QED BY <2>1, <2>2 DEF GivesVotes
<1>7. SendsVotes
  <2> SUFFICES ASSUME NEW m \in msgs'
               PROVE  /\ m.type = "RequestVote" => m.to \in Voters
                      /\ m.type = "RequestVoteReply" /\ m.granted =>
                            /\ m.from \in Voters
                            /\ Vote(m.from, m.sent, m.to) \in granted'
                            /\ hs'[m.to].term = m.sent
                            /\ role'[m.to] = "candidate"
    BY DEF SendsVotes
  <2>1. /\ m.type = "RequestVote" => m \in msgs \/ m \in calls
        /\ m.type = "RequestVoteReply" => m \in calls \/
              (m \in msgs /\ hs'[m.to].term = m.sent /\ role'[m.to] = "candidate")
    BY <1>1, <1>3, FinishVotes
  <2> QED BY <1>1, <1>4, <2>1 DEF ElectionInv, BallotsGenuine
<1>8. CountsVotes
  <2> SUFFICES ASSUME NEW k \in Server
               PROVE  \/ role'[k] = role[k] /\ hs'[k].term = hs[k].term /\ votes'[k] = votes[k]
                      \/ /\ \A j \in votes'[k] : j \in Voters /\ Vote(j, hs'[k].term, k) \in granted'
                         /\ role'[k] = "leader" => Cardinality(votes'[k]) > Cardinality(Voters) \div 2
    BY DEF CountsVotes
  <2>1. CASE k # i
    BY <1>1, <2>1 DEF TypeOK
  <2>2. CASE k = i
    <3>1. votes'[i] = {i} /\ (role'[i] = "leader" => wins)
      BY <1>1 DEF TypeOK
    <3>2. Cardinality({i}) = 1
      BY FS_Singleton
    <3>3. Vote(i, hs'[i].term, i) \in granted'
      BY <1>1, <1>2 DEF Vote
    <3> QED BY <1>1, <1>5, <2>2, <3>1, <3>2, <3>3
  <2> QED BY <2>1, <2>2
<1> QED BY <1>6, <1>7, <1>8

LEMMA HandleRequestVoteElection ==
    ASSUME TypeOK, ElectionInv, NEW m \in msgs, HandleRequestVote(m)
    PROVE  GivesVotes /\ SendsVotes /\ CountsVotes
<1> DEFINE i     == m.to
           newer == m.term > hs[i].term
           known == SteppedDown(i, m.term)
           grant == /\ m.term >= hs[i].term
                    /\ known.votedFor \in {None, m.from}
                    /\ UpToDate(node[i].log, m.lastIndex, m.lastTerm)
           h     == IF grant THEN Persisted(i, m.term, m.from) ELSE known
           v     == Vote(i, m.term, m.from)
           n     == IF newer THEN FailPending(node[i]) ELSE node[i]
           reply == VoteReply(m, known.term, grant)
           none  == {}
<1>1. /\ m.type = "RequestVote"
      /\ hs' = [hs EXCEPT ![i] = h]
      /\ role' = [role EXCEPT ![i] = IF newer THEN "follower" ELSE @]
      /\ votes' = [votes EXCEPT ![i] = IF newer THEN {} ELSE @]
      /\ granted' = IF grant THEN granted \cup {v} ELSE granted
      /\ Finish(i, n, Delivered(m), {reply}, none)
  BY DEF HandleRequestVote, Vote
<1>2. i \in Server /\ m.term \in Nat /\ hs[i].term \in Nat /\ i \in Voters
  <2>1. i \in Server /\ m.term \in Nat
    BY MessageFields DEF TypeOK
  <2> QED BY <2>1, <1>1 DEF TypeOK, ElectionInv, BallotsGenuine
<1>3. n \in Nodes
  BY <1>2, FailPendingType DEF TypeOK
<1>4. /\ hs'[i] = h
      /\ grant => h.term = m.term /\ h.votedFor = m.from
      /\ ~newer => h.term = hs[i].term
  <2>1. ~newer => known = hs[i]
    BY <1>2 DEF SteppedDown
  <2>2. grant /\ ~newer => m.term = hs[i].term
    BY <1>2
  <2>3. Persisted(i, m.term, m.from).term = m.term /\ Persisted(i, m.term, m.from).votedFor = m.from
    BY DEF Persisted
  <2> HIDE DEF known, grant, newer
  <2>4. (grant => h.term = m.term /\ h.votedFor = m.from) /\ (~newer => h.term = hs[i].term)
    BY <2>1, <2>2, <2>3
  <2> HIDE DEF h
  <2> QED BY <1>1, <1>2, <2>4 DEF TypeOK
<1>5. /\ reply.type = "RequestVoteReply" /\ reply.from = i /\ reply.to = m.from
      /\ reply.sent = m.term /\ (reply.granted <=> grant)
  BY DEF VoteReply
<1>6. v.voter = i /\ v.term = m.term /\ v.candidate = m.from
  BY DEF Vote
<1> HIDE DEF n, h, grant, newer, known, reply
<1>7. GivesVotes
  <2> HIDE DEF v
  <2> QED BY <1>1, <1>4, <1>6 DEF GivesVotes
<1>8. SendsVotes
  <2> SUFFICES ASSUME NEW x \in msgs'
               PROVE  /\ x.type = "RequestVote" => x.to \in Voters
                      /\ x.type = "RequestVoteReply" /\ x.granted =>
                            /\ x.from \in Voters
                            /\ Vote(x.from, x.sent, x.to) \in granted'
                            /\ hs'[x.to].term = x.sent
                            /\ role'[x.to] = "candidate"
    BY DEF SendsVotes
  <2>1. /\ x.type = "RequestVote" => x \in msgs
        /\ x.type = "RequestVoteReply" =>
              /\ x \in msgs \/ x = reply
              /\ hs'[x.to].term = x.sent /\ role'[x.to] = "candidate"
    BY <1>1, <1>2, <1>3, <1>5, FinishVotes
  <2>2. x = reply /\ x.granted => Vote(x.from, x.sent, x.to) \in granted'
    BY <1>1, <1>5
  <2>3. x \in msgs /\ x.type = "RequestVoteReply" /\ x.granted =>
            x.from \in Voters /\ Vote(x.from, x.sent, x.to) \in granted'
    BY <1>1 DEF ElectionInv, BallotsGenuine
  <2>4. x \in msgs /\ x.type = "RequestVote" => x.to \in Voters
    BY DEF ElectionInv, BallotsGenuine
  <2> QED BY <1>2, <1>5, <2>1, <2>2, <2>3, <2>4
<1>9. CountsVotes
  BY <1>1, <1>4 DEF CountsVotes, TypeOK
<1> QED BY <1>7, <1>8, <1>9

LEMMA OnVoteReplyElection ==
    ASSUME TypeOK, ElectionInv, FixedVoters, IsFiniteSet(Voters), NEW m \in msgs, OnVoteReply(m)
    PROVE  GivesVotes /\ SendsVotes /\ CountsVotes
<1> DEFINE i       == m.to
           counted == votes[i] \cup {m.from}
           wins    == Cardinality(counted) >= Quorum(node[i].conf)
           n       == IF wins THEN Elected(node[i], i, hs[i].term) ELSE node[i]
           none    == {}
<1>1. i \in Server /\ m.term \in Nat /\ node[i] \in Nodes /\ hs[i].term \in Nat
  BY MessageFields DEF TypeOK
<1>2. CASE /\ BecomeFollower(i, m.term)
           /\ Finish(i, FailPending(node[i]), {m}, none, {})
  <2>1. FailPending(node[i]) \in Nodes /\ none \subseteq Others
    BY <1>1, FailPendingType
  <2>2. UNCHANGED <<granted, restarts>>
    BY DEF OnVoteReply
  <2> HIDE DEF none
  <2>3. Replicates
    BY <1>1, <1>2, <2>1, <2>2, StepDown
  <2> QED BY <2>3, ReplicatesElection
<1>3. CASE /\ m.granted /\ UNCHANGED hs
           /\ votes' = [votes EXCEPT ![i] = counted]
           /\ role'  = [role EXCEPT ![i] = IF wins THEN "leader" ELSE @]
           /\ Finish(i, n, {m}, none, none)
  <2>1. n \in Nodes
    BY <1>1, ElectedType
  <2>2. granted' = granted /\ hs' = hs
    BY <1>3 DEF OnVoteReply
  <2>3. /\ m.from \in Voters /\ Vote(m.from, hs[i].term, i) \in granted
        /\ role[i] = "candidate"
    BY <1>3 DEF ElectionInv, BallotsGenuine, OnVoteReply
  <2>4. wins => Cardinality(counted) > Cardinality(Voters) \div 2
    <3>1. counted \subseteq Voters
      BY <2>3, <1>1 DEF ElectionInv, VotesGenuine
    <3>2. Cardinality(Voters) \in Nat /\ Cardinality(counted) \in Nat
      BY <3>1, FS_CardinalityType, FS_Subset
    <3>3. Quorum(node[i].conf) = Cardinality(Voters) \div 2 + 1
      BY <1>1 DEF Quorum, FixedVoters
    <3> HIDE DEF counted
    <3> QED BY <3>2, <3>3
  <2> HIDE DEF n, wins
  <2>5. GivesVotes
    BY <2>2 DEF GivesVotes
  <2>6. SendsVotes
    <3> SUFFICES ASSUME NEW x \in msgs'
                 PROVE  /\ x.type = "RequestVote" => x.to \in Voters
                        /\ x.type = "RequestVoteReply" /\ x.granted =>
                              /\ x.from \in Voters
                              /\ Vote(x.from, x.sent, x.to) \in granted'
                              /\ hs'[x.to].term = x.sent
                              /\ role'[x.to] = "candidate"
      BY DEF SendsVotes
    <3>1. /\ x.type = "RequestVote" => x \in msgs
          /\ x.type = "RequestVoteReply" =>
                x \in msgs /\ hs'[x.to].term = x.sent /\ role'[x.to] = "candidate"
      BY <1>1, <1>3, <2>1, FinishVotes
    <3> QED BY <2>2, <3>1 DEF ElectionInv, BallotsGenuine
  <2>7. CountsVotes
    <3> SUFFICES ASSUME NEW k \in Server
                 PROVE  \/ role'[k] = role[k] /\ hs'[k].term = hs[k].term /\ votes'[k] = votes[k]
                        \/ /\ \A j \in votes'[k] : j \in Voters /\ Vote(j, hs'[k].term, k) \in granted'
                           /\ role'[k] = "leader" => Cardinality(votes'[k]) > Cardinality(Voters) \div 2
      BY DEF CountsVotes
    <3>1. CASE k # i
      BY <1>1, <1>3, <2>2, <3>1 DEF TypeOK
    <3>2. CASE k = i
      <4>1. votes'[i] = counted /\ (role'[i] = "leader" => wins)
        BY <1>1, <1>3, <2>3 DEF TypeOK
      <4>2. \A j \in counted : j \in Voters /\ Vote(j, hs[i].term, i) \in granted
        BY <1>1, <2>3 DEF ElectionInv, VotesGenuine
      <4> HIDE DEF counted
      <4> QED BY <2>2, <2>4, <3>2, <4>1, <4>2
    <3> QED BY <3>1, <3>2
  <2> QED BY <2>5, <2>6, <2>7
<1> QED BY <1>2, <1>3 DEF OnVoteReply, n, wins, counted

\* A rebooted node is a follower; what the network keeps of its calls has no
\* vote that could still be counted.
LEMMA RebootElection ==
    ASSUME TypeOK, ElectionInv, NEW i \in Server, NEW hard, NEW wal, NEW snap,
           Reboot(i, hard, wal, snap),
           NEW M, M \subseteq msgs,
           \A m \in msgs' : m \in Orphaned(M, i) \/ (m.type # "RequestVote" /\ ~(m.type = "RequestVoteReply" /\ m.granted))
    PROVE  GivesVotes /\ SendsVotes /\ CountsVotes
<1> DEFINE h == [hard EXCEPT !.commit = MaxOf(hard.commit, snap.index)]
<1>1. /\ hs' = [hs EXCEPT ![i] = h]
      /\ role' = [role EXCEPT ![i] = "follower"]
      /\ votes' = [votes EXCEPT ![i] = {}]
      /\ granted' = granted
  BY DEF Reboot
<1> HIDE DEF h
<1>2. GivesVotes
  BY <1>1 DEF GivesVotes
<1>3. SendsVotes
  <2> SUFFICES ASSUME NEW m \in msgs'
               PROVE  /\ m.type = "RequestVote" => m.to \in Voters
                      /\ m.type = "RequestVoteReply" /\ m.granted =>
                            /\ m.from \in Voters
                            /\ Vote(m.from, m.sent, m.to) \in granted'
                            /\ hs'[m.to].term = m.sent
                            /\ role'[m.to] = "candidate"
    BY DEF SendsVotes
  <2>1. CASE m \in Orphaned(M, i)
    <3>1. PICK x \in M : /\ ~(IsReply(x) /\ x.to = i)
                         /\ m = IF x.type = "InstallSnapshot" /\ x.from = i
                                THEN [x EXCEPT !.open = FALSE] ELSE x
      BY <2>1 DEF Orphaned
    <3>2. x \in Messages
      BY DEF TypeOK
    <3>3. CASE x.type = "InstallSnapshot"
      <4>1. x \in SnapshotCalls
        BY <3>2, <3>3, MessageFields
      <4>2. m.type = "InstallSnapshot"
        BY <3>1, <3>3, <4>1 DEF SnapshotCalls
      <4> QED BY <4>2
    <3>4. CASE x.type # "InstallSnapshot"
      <4>1. m = x /\ x \in msgs /\ x.to \in Server
        BY <3>1, <3>2, <3>4, MessageFields
      <4>2. m.type = "RequestVoteReply" => m.to # i
        BY <3>1, <4>1 DEF IsReply
      <4> QED BY <1>1, <4>1, <4>2 DEF ElectionInv, BallotsGenuine, TypeOK
    <3> QED BY <3>3, <3>4
  <2>2. CASE m.type # "RequestVote" /\ ~(m.type = "RequestVoteReply" /\ m.granted)
    BY <2>2
  <2> QED BY <2>1, <2>2
<1>4. CountsVotes
  BY <1>1 DEF CountsVotes, TypeOK
<1> QED BY <1>2, <1>3, <1>4

-----------------------------------------------------------------------------
(***************************************************************************)
(* The invariant, as long as the voters stay the same.                     *)
(***************************************************************************)

LEMMA InitElection == Init => ElectionInv
BY DEF Init, ElectionInv, VotesRecorded, OneVote, BallotsGenuine, VotesGenuine, LeadersElected

LEMMA NextElection ==
    ASSUME TypeOK, TypeOK', ElectionInv, FixedVoters, IsFiniteSet(Voters), [Next]_vars
    PROVE  ElectionInv'
<1> DEFINE Good == GivesVotes /\ SendsVotes /\ CountsVotes
<1>1. CASE UNCHANGED vars
  BY <1>1 DEF vars, ElectionInv, VotesRecorded, OneVote, BallotsGenuine, VotesGenuine, LeadersElected
<1>2. ASSUME NEW i \in Server, Campaign(i) PROVE Good
  BY <1>2, CampaignElection
<1>3. ASSUME NEW m \in msgs, HandleRequestVote(m) PROVE Good
  BY <1>3, HandleRequestVoteElection
<1>4. ASSUME NEW m \in msgs, OnVoteReply(m) PROVE Good
  BY <1>4, OnVoteReplyElection
<1>5. ASSUME Replicates PROVE Good
  BY <1>5, ReplicatesElection
<1>6. ASSUME NEW i \in Server, Restart(i) PROVE Good
  BY <1>6, RebootElection DEF Restart
<1>7. ASSUME NEW m \in msgs, CrashInHandler(m) PROVE Good
  <2> DEFINE M == msgs \ Delivered(m)
  <2>1. m.to \in Server /\ M \subseteq msgs
    BY MessageFields DEF TypeOK
  <2>2. msgs' = Orphaned(M, m.to) /\ \E hard, wal, snap : Reboot(m.to, hard, wal, snap)
    BY <1>7 DEF CrashInHandler
  <2> HIDE DEF M
  <2> QED BY <2>1, <2>2, RebootElection
<1>8. ASSUME NEW m \in msgs, StopWhileServing(m) PROVE Good
  <2> DEFINE M == msgs \ Delivered(m)
  <2>1. m.to \in Server /\ M \subseteq msgs
    BY MessageFields DEF TypeOK
  <2>2. \A x \in ZeroReply(m) : x.type # "RequestVote" /\ ~(x.type = "RequestVoteReply" /\ x.granted)
    <3>1. m \in Calls
      BY <1>8 DEF StopWhileServing, TypeOK, IsReply, Messages, VoteReplies, AppendReplies,
                  SnapshotReplies
    <3>2. m.type \in {"RequestVote", "AppendEntries", "InstallSnapshot"}
      BY <3>1 DEF Calls, VoteRequests, AppendCalls, SnapshotCalls
    <3>3. CASE m.type = "RequestVote"
      BY <3>3 DEF ZeroReply, VoteReply
    <3>4. CASE m.type = "AppendEntries"
      BY <3>4 DEF ZeroReply, AppendReply
    <3>5. CASE m.type = "InstallSnapshot" /\ m.open
      BY <3>5 DEF ZeroReply, InstallReply
    <3>6. CASE m.type = "InstallSnapshot" /\ ~m.open
      BY <3>6 DEF ZeroReply
    <3> QED BY <3>2, <3>3, <3>4, <3>5, <3>6
  <2>3. /\ \A x \in msgs' : x \in Orphaned(M, m.to) \/ x \in ZeroReply(m)
        /\ \E hard, wal, snap : Reboot(m.to, hard, wal, snap)
    BY <1>8 DEF StopWhileServing
  <2> HIDE DEF M
  <2> QED BY <2>1, <2>2, <2>3, RebootElection
<1>9. CASE Next
  <2>1. Good
    BY <1>2, <1>3, <1>4, <1>5, <1>6, <1>7, <1>8, <1>9, TickReplicates, ProposeReplicates,
       LinearizableReadReplicates, ChangeMembershipReplicates, HandleAppendEntriesReplicates, OnAppendReplyReplicates,
       HandleInstallSnapshotReplicates, OnInstallReplyReplicates, InstallFailsReplicates
    DEF Next
  <2> QED BY <2>1, ElectionStep, StepKeepsVotes
<1> QED BY <1>1, <1>9

\* Votes are on disk before they are sent, nobody votes twice in a term, and every
\* leader has a majority of its term's votes (handleRequestVote, becomeCandidate).
THEOREM VotesAreGenuine ==
    ASSUME IsFiniteSet(Voters)
    PROVE  Spec /\ []FixedVoters => []ElectionInv
<1>1. Init => ElectionInv
  BY InitElection
<1>2. TypeOK /\ TypeOK' /\ ElectionInv /\ FixedVoters /\ [Next]_vars => ElectionInv'
  BY NextElection
<1>3. Spec => []TypeOK
  BY TypeCorrect
<1> QED BY <1>1, <1>2, <1>3, PTL DEF Spec

\* As long as every node knows the same voters, no term has two leaders,
\* whatever is lost, delayed, delivered twice, or restarted.
THEOREM OneLeaderPerTerm ==
    ASSUME IsFiniteSet(Voters)
    PROVE  Spec /\ []FixedVoters => []ElectionSafety
<1>1. TypeOK /\ ElectionInv => ElectionSafety
  BY InvElectionSafety
<1>2. Spec /\ []FixedVoters => []ElectionInv
  BY VotesAreGenuine
<1>3. Spec => []TypeOK
  BY TypeCorrect
<1> QED BY <1>1, <1>2, <1>3, PTL

-----------------------------------------------------------------------------
(***************************************************************************)
(* A node without a snapshot: entries are where their index says, the WAL  *)
(* holds the log, and the calls the running handler has started carry      *)
(* copies of it.                                                           *)
(***************************************************************************)
Plain(n) ==
    /\ n \in Nodes
    /\ n.snap.index = 0
    /\ Aligned(n.log)
    /\ n.wal = n.log
    /\ \A c \in n.out : CopyOf(c, n.log)

\* The log of b is that of a and then entries of term.
Longer(a, b, term) ==
    /\ Len(a.ents) <= Len(b.ents)
    /\ \A k \in 1..Len(a.ents) : b.ents[k] = a.ents[k]
    /\ \A k \in Len(a.ents) + 1 .. Len(b.ents) : b.ents[k].term = term

Grown(n, b, term) == Plain(b) /\ Longer(n.log, b.log, term)

\* Nothing that Plain looks at has changed.
Quiet(n, b) == b.log = n.log /\ b.wal = n.wal /\ b.snap = n.snap /\ b.out = n.out

\* In an aligned log positions are indexes.
LEMMA AlignedReads ==
    ASSUME NEW log \in Logs, Aligned(log)
    PROVE  /\ log.ents \in Seq(Entries) /\ Len(log.ents) \in Nat
           /\ LastIndex(log) = Len(log.ents)
           /\ \A x \in Int : Has(log, x) <=> x \in 1..Len(log.ents)
           /\ \A x \in Int : At(log, x) = log.ents[x]
           /\ \A x \in Int : Term(log, x) = IF x \in 1..Len(log.ents) THEN log.ents[x].term ELSE 0
           /\ \A x \in Int : KnowsTerm(log, x) <=> x \in 0..Len(log.ents)
<1>1. log.snapIndex = 0 /\ log.ents \in Seq(Entries) /\ Len(log.ents) \in Nat
  BY DEF Logs, Aligned
<1>2. LastIndex(log) = Len(log.ents)
  BY <1>1 DEF LastIndex, Aligned
<1>3. \A x \in Int : (Has(log, x) <=> x \in 1..Len(log.ents)) /\ At(log, x) = log.ents[x]
  BY <1>1 DEF Has, At
<1>4. \A x \in Int : Term(log, x) = IF x \in 1..Len(log.ents) THEN log.ents[x].term ELSE 0
  BY <1>1, <1>3 DEF Term
<1>5. \A x \in Int : KnowsTerm(log, x) <=> x \in 0..Len(log.ents)
  BY <1>1, <1>3 DEF KnowsTerm
<1> QED BY <1>1, <1>2, <1>3, <1>4, <1>5

\* A call for the entries after NextIndex carries a copy of the log.
LEMMA CallsAreCopies ==
    ASSUME NEW n, Plain(n), NEW i \in Server, NEW term \in Nat, NEW j \in Server,
           NEW c \in CallTo(n, i, term, j)
    PROVE  CopyOf(c, n.log)
<1> DEFINE log  == n.log
           len  == Len(log.ents)
           prev == NextOf(n, j) - 1
           all  == Slice(log, prev + 1, LastIndex(log))
           k    == MinOf(Len(all), MaxBatch)
<1>1. n \in Nodes /\ log \in Logs /\ Aligned(log) /\ n.snap.index = 0
  BY DEF Plain, Nodes
<1>2. prev \in Nat
  BY <1>1, NextOfType
<1>3. c = AppendCall(n, i, term, j) /\ ~NeedsSnapshot(n, j)
  <2>1. NeedsSnapshot(n, j) \in BOOLEAN
    BY DEF NeedsSnapshot
  <2>2. CASE NeedsSnapshot(n, j)
    BY <1>1, <2>2 DEF CallTo
  <2>3. CASE ~NeedsSnapshot(n, j)
    BY <2>3 DEF CallTo
  <2> QED BY <2>1, <2>2, <2>3
<1>4. /\ len \in Nat /\ LastIndex(log) = len /\ prev \in 0..len /\ log.snapIndex = 0
      /\ log.ents \in Seq(Entries)
  <2>1. KnowsTerm(log, prev)
    BY <1>3 DEF NeedsSnapshot
  <2>2. log.snapIndex = 0
    BY <1>1 DEF Aligned
  <2> HIDE DEF prev, log
  <2> QED BY <1>1, <1>2, <2>1, <2>2, AlignedReads
<1> HIDE DEF log, prev
<1>5. all = SubSeq(log.ents, prev + 1, len)
  <2>1. MaxOf(prev + 1, log.snapIndex + 1) = prev + 1
    BY <1>4 DEF MaxOf
  <2>2. MinOf(MinOf(LastIndex(log), LastIndex(log)), log.snapIndex + Len(log.ents)) = len
    BY <1>4 DEF MinOf
  <2>3. CASE prev + 1 > len
    <3>1. SubSeq(log.ents, prev + 1, len) = <<>>
      BY <1>4, <2>3
    <3> QED BY <1>4, <2>1, <2>2, <2>3, <3>1 DEF Slice
  <2>4. CASE ~(prev + 1 > len)
    BY <1>4, <2>1, <2>2, <2>4 DEF Slice
  <2> QED BY <2>3, <2>4
<1>6. Len(all) = len - prev /\ \A x \in 1..len - prev : all[x] = log.ents[prev + x]
  BY <1>4, <1>5
<1>7. k \in Nat /\ k <= len - prev
  BY <1>4, <1>6, LimitsAssumption DEF MinOf
<1>8. all \in Seq(Entries)
  BY <1>4, <1>1, SliceType DEF log, prev
<1> HIDE DEF k, all
<1>9. Len(SubSeq(all, 1, k)) = k /\ \A x \in 1..k : SubSeq(all, 1, k)[x] = log.ents[prev + x]
  <2>1. k <= Len(all) /\ \A x \in 1..k : x \in 1..len - prev
    BY <1>4, <1>6, <1>7
  <2>2. Len(SubSeq(all, 1, k)) = k /\ \A x \in 1..k : SubSeq(all, 1, k)[x] = all[x]
    BY <2>1, <1>7, <1>8
  <2> QED BY <2>1, <2>2, <1>6
<1>10. /\ c.type = "AppendEntries" /\ c.prevIndex = prev /\ c.prevTerm = Term(log, prev)
       /\ c.ents = SubSeq(all, 1, k)
  BY <1>3 DEF AppendCall, prev, log, all, k
<1> QED BY <1>4, <1>7, <1>9, <1>10 DEF CopyOf, log

-----------------------------------------------------------------------------
(***************************************************************************)
(* What the steps of a handler do to a plain node.                         *)
(***************************************************************************)

LEMMA PlainLog ==
    ASSUME NEW n, Plain(n)
    PROVE  /\ n \in Nodes /\ n.log \in Logs /\ Aligned(n.log)
           /\ n.log.ents \in Seq(Entries) /\ Len(n.log.ents) \in Nat
<1>1. n \in Nodes /\ Aligned(n.log)
  BY DEF Plain
<1>2. n.log \in Logs
  BY <1>1 DEF Nodes
<1> QED BY <1>1, <1>2, AlignedReads

LEMMA QuietGrows ==
    ASSUME NEW n, Plain(n), NEW b \in Nodes, Quiet(n, b), NEW term
    PROVE  Grown(n, b, term)
<1>1. n \in Nodes /\ Len(n.log.ents) \in Nat
  BY PlainLog
<1>2. Plain(b)
  BY DEF Plain, Quiet
<1> QED BY <1>1, <1>2 DEF Grown, Longer, Quiet

LEMMA QuietTrans ==
    ASSUME NEW n, NEW b, NEW c, Quiet(n, b), Quiet(b, c)
    PROVE  Quiet(n, c)
BY DEF Quiet

LEMMA GrownTrans ==
    ASSUME NEW n, Plain(n), NEW term, NEW b, NEW c, Grown(n, b, term), Grown(b, c, term)
    PROVE  Grown(n, c, term)
<1>1. /\ Len(n.log.ents) \in Nat /\ Len(b.log.ents) \in Nat /\ Len(c.log.ents) \in Nat
  BY PlainLog DEF Grown
<1>2. /\ Longer(n.log, b.log, term) /\ Longer(b.log, c.log, term) /\ Plain(c)
  BY DEF Grown
<1>3. Longer(n.log, c.log, term)
  BY <1>1, <1>2 DEF Longer
<1> QED BY <1>2, <1>3 DEF Grown

\* Applying, committing, answering and membership leave the log alone.
LEMMA QuietSteps ==
    ASSUME NEW n \in Nodes, NEW i \in Server, NEW term \in Nat
    PROVE  /\ Quiet(n, TryFinishReads(n)) /\ Quiet(n, MaybeApply(n))
           /\ \A j \in Server : Quiet(n, AckReads(n, j))
           /\ Quiet(n, MaybeCommit(n, i, term)) /\ Quiet(n, FailPending(n))
           /\ \A m : Quiet(n, ApplyConfig(n, m))
           /\ Quiet(n, ResetProgress(n, i))
           /\ \A c \in Nat : Quiet(n, FollowCommit(n, c))
<1>1. \A b \in Nodes : Quiet(b, TryFinishReads(b))
  BY DEF TryFinishReads, Quiet, Nodes
<1>2. \A b \in Nodes : Quiet(b, ApplyCommitted(b))
  BY DEF ApplyCommitted, Quiet, Nodes
<1>3. \A b \in Nodes : Quiet(b, MaybeApply(b))
  BY <1>1, <1>2, ApplyCommittedType, QuietTrans DEF MaybeApply
<1>4. ASSUME NEW j \in Server PROVE Quiet(n, AckReads(n, j))
  <2> DEFINE b == [n EXCEPT !.reads = {[r EXCEPT !.acks = @ \cup {j}] : r \in @}]
  <2>1. Quiet(n, b) /\ b.missed = n.missed
    BY DEF Quiet, Nodes
  <2>2. Quiet(b, TryFinishReads(b))
    BY DEF TryFinishReads, Quiet, Nodes
  <2> HIDE DEF b
  <2>3. AckReads(n, j) = TryFinishReads(b)
    BY DEF AckReads, b
  <2> QED BY <2>1, <2>2, <2>3, QuietTrans
<1>5. ASSUME NEW c \in Nat PROVE Quiet(n, MaybeApply([n EXCEPT !.commit = c]))
  <2> DEFINE b == [n EXCEPT !.commit = c]
  <2>1. b \in Nodes /\ Quiet(n, b)
    BY DEF Nodes, Quiet
  <2> HIDE DEF b
  <2>2. Quiet(n, MaybeApply(b))
    BY <2>1, <1>3, QuietTrans
  <2> QED BY <2>2 DEF b
<1>0. Quiet(n, n)
  BY DEF Quiet
<1>6. Quiet(n, MaybeCommit(n, i, term))
  BY <1>0, <1>5, CommittablePick DEF MaybeCommit
<1>7. ASSUME NEW c \in Nat PROVE Quiet(n, FollowCommit(n, c))
  <2>1. MinOf(c, LastIndex(n.log)) \in Nat
    <3>1. LastIndex(n.log) \in Nat
      BY LogReads DEF Nodes
    <3> QED BY <3>1 DEF MinOf
  <2> QED BY <2>1, <1>0, <1>5 DEF FollowCommit
<1>8. Quiet(n, FailPending(n)) /\ (\A m : Quiet(n, ApplyConfig(n, m))) /\ Quiet(n, ResetProgress(n, i))
  BY DEF FailPending, ApplyConfig, ResetProgress, Quiet, Nodes
<1> QED BY <1>1, <1>3, <1>4, <1>6, <1>7, <1>8

\* Sending adds copies of the log to out.
LEMMA SendToGrows ==
    ASSUME NEW n, Plain(n), NEW i \in Server, NEW term \in Nat, NEW J \in SUBSET Server
    PROVE  Grown(n, SendTo(n, i, term, J), term)
<1> DEFINE b == SendTo(n, i, term, J)
<1>1. n \in Nodes /\ b \in Nodes
  BY SendToType DEF Plain
<1>2. /\ b.log = n.log /\ b.wal = n.wal /\ b.snap = n.snap
      /\ b.out = n.out \cup UNION {CallTo(n, i, term, j) : j \in J}
  BY <1>1 DEF SendTo, Nodes
<1> HIDE DEF b
<1>3. \A c \in b.out : CopyOf(c, b.log)
  BY <1>2, CallsAreCopies DEF Plain
<1>4. Plain(b)
  BY <1>1, <1>2, <1>3 DEF Plain
<1>5. Len(n.log.ents) \in Nat
  BY <1>1 DEF Nodes, Logs
<1> QED BY <1>2, <1>4, <1>5 DEF Grown, Longer, b

\* appendData: one entry at the end, in memory and in the WAL.
LEMMA AppendDataGrows ==
    ASSUME NEW n, Plain(n), NEW i \in Server, NEW term \in Nat, NEW type, NEW data,
           <<type, data>> \in Payloads
    PROVE  Grown(n, AppendData(n, i, term, type, data), term)
<1> DEFINE log == n.log
           len == Len(log.ents)
           e   == Entry(LastIndex(log) + 1, term, type, data)
           new == AppendTo(log, <<e>>)
           b   == AppendData(n, i, term, type, data)
<1>1. n \in Nodes /\ log \in Logs /\ Aligned(log) /\ n.wal = log
  BY DEF Plain, Nodes
<1>2. /\ log.ents \in Seq(Entries) /\ len \in Nat /\ LastIndex(log) = len
      /\ log.snapIndex = 0 /\ log.snapTerm = 0
  BY <1>1, AlignedReads DEF Aligned
<1>3. e.index = len + 1 /\ e.term = term
  BY <1>2 DEF Entry
<1>4. b \in Nodes
  BY <1>1, AppendDataType
<1>5. Replay(n.wal, <<e>>) = new
  <2>1. ~(e.index <= LastIndex(log)) /\ <<e>>[1] = e /\ <<e>> # <<>>
    BY <1>2, <1>3
  <2> HIDE DEF e
  <2> QED BY <1>1, <2>1 DEF Replay
<1>6. b.log = new /\ b.wal = new /\ b.snap = n.snap /\ b.out = n.out
  <2> HIDE DEF new
  <2> QED BY <1>1, <1>5 DEF AppendData, ApplyConfig, Nodes, new
<1> HIDE DEF b
<1>7. /\ new.snapIndex = 0 /\ new.snapTerm = 0 /\ new.ents = Append(log.ents, e)
  <2> HIDE DEF e
  <2>1. log.ents \o <<e>> = Append(log.ents, e)
    BY <1>2
  <2> QED BY <1>1, <1>2, <2>1 DEF AppendTo, Logs
<1> HIDE DEF e, new
<1>8. /\ Len(new.ents) = len + 1 /\ new.ents[len + 1] = e
      /\ \A k \in 1..len : new.ents[k] = log.ents[k]
  BY <1>2, <1>7
<1>9. Aligned(new) /\ Longer(log, new, term)
  BY <1>1, <1>2, <1>3, <1>7, <1>8 DEF Aligned, Longer
<1>10. ASSUME NEW c, CopyOf(c, log) PROVE CopyOf(c, new)
  <2>1. Aligned(new) /\ new \in Logs /\ new = b.log
    BY <1>4, <1>6, <1>9 DEF Nodes
  <2>2. c.prevIndex \in 0..len /\ c.prevIndex + Len(c.ents) <= len
    BY <1>10 DEF CopyOf
  <2>3. Term(new, c.prevIndex) = Term(log, c.prevIndex)
    <3> DEFINE p == c.prevIndex
    <3>1. p \in Int /\ (p \in 1..len => p \in 1..len + 1 /\ new.ents[p] = log.ents[p])
      BY <1>2, <1>8, <2>2
    <3>2. /\ Term(log, p) = IF p \in 1..len THEN log.ents[p].term ELSE 0
          /\ Term(new, p) = IF p \in 1..len + 1 THEN new.ents[p].term ELSE 0
      BY <1>1, <1>8, <2>1, <3>1, AlignedReads
    <3> HIDE DEF p, log, new
    <3>3. p \in 1..len + 1 => p \in 1..len
      BY <1>2, <2>2 DEF p
    <3> QED BY <3>1, <3>2, <3>3 DEF p
  <2>4. \A k \in 1..Len(c.ents) : c.ents[k] = log.ents[c.prevIndex + k]
    BY <1>10 DEF CopyOf
  <2> DEFINE m == Len(c.ents)
             p == c.prevIndex
  <2>5. \A k \in 1..m : c.ents[k] = new.ents[p + k]
    <3>1. ASSUME m \in Int PROVE \A k \in 1..m : p + k \in 1..len
      BY <3>1, <2>2, <1>2
    <3>2. ASSUME NEW k \in 1..m PROVE p + k \in 1..len
      BY <3>2, <2>2, <1>2
    <3> QED BY <3>2, <2>4, <1>8
  <2> QED BY <1>2, <1>8, <1>10, <2>2, <2>3, <2>5 DEF CopyOf
<1>11. \A c \in n.out : CopyOf(c, log)
  BY DEF Plain
<1>12. Plain(b)
  <2> HIDE DEF log
  <2> QED BY <1>4, <1>6, <1>9, <1>10, <1>11 DEF Plain, log
<1> QED BY <1>6, <1>9, <1>12 DEF Grown, b

LEMMA BcastGrows ==
    ASSUME NEW n, Plain(n), NEW i \in Server, NEW term \in Nat
    PROVE  Grown(n, Bcast(n, i, term), term)
<1>1. Members(n.conf) \ {i} \in SUBSET Server
  BY DEF Plain, Members, Nodes, Membership
<1> QED BY <1>1, SendToGrows DEF Bcast

LEMMA MaybeCommitGrows ==
    ASSUME NEW n, Plain(n), NEW i \in Server, NEW term \in Nat
    PROVE  Grown(n, MaybeCommit(n, i, term), term)
BY PlainLog, QuietSteps, MaybeCommitType, QuietGrows

LEMMA AcceptGrows ==
    ASSUME NEW n, Plain(n), NEW i \in Server, NEW term \in Nat, NEW type, NEW data,
           <<type, data>> \in Payloads
    PROVE  Grown(n, Accept(n, i, term, type, data), term)
<1> DEFINE a == AppendData(n, i, term, type, data)
           c == MaybeCommit(a, i, term)
           b == Bcast(c, i, term)
<1>1. Grown(n, a, term)
  BY AppendDataGrows
<1> HIDE DEF a
<1>2. Grown(a, c, term)
  BY <1>1, MaybeCommitGrows DEF Grown
<1> HIDE DEF c
<1>3. Grown(c, b, term)
  BY <1>2, BcastGrows DEF Grown
<1> HIDE DEF b
<1>4. Grown(n, b, term)
  BY <1>1, <1>2, <1>3, GrownTrans DEF Grown
<1> QED BY <1>4 DEF Accept, a, b, c

LEMMA PromoteGrows ==
    ASSUME NEW n, Plain(n), NEW i \in Server, NEW term \in Nat, NEW j \in Server
    PROVE  Grown(n, MaybePromoteLearner(n, i, term, j), term)
<1>1. <<"config", Promoted(n.conf, j)>> \in Payloads
  BY DEF Payloads, Promoted, Membership, Nodes, Plain
<1>2. Grown(n, n, term)
  BY PlainLog, QuietGrows DEF Quiet
<1> QED BY <1>1, <1>2, AcceptGrows DEF MaybePromoteLearner

LEMMA ElectedGrows ==
    ASSUME NEW n, Plain(n), NEW i \in Server, NEW term \in Nat
    PROVE  Grown(n, Elected(n, i, term), term)
<1> DEFINE r == ResetProgress(n, i)
           b == Accept(r, i, term, "noop", None)
<1>1. Grown(n, r, term)
  BY PlainLog, QuietSteps, ResetProgressType, QuietGrows
<1> HIDE DEF r
<1>2. Grown(r, b, term)
  <2>1. <<"noop", None>> \in Payloads
    BY DEF Payloads
  <2> QED BY <1>1, <2>1, AcceptGrows DEF Grown
<1> HIDE DEF b
<1>3. Grown(n, b, term)
  BY <1>1, <1>2, GrownTrans
<1> QED BY <1>3 DEF Elected, r, b

LEMMA AcknowledgedGrows ==
    ASSUME NEW n, Plain(n), NEW i \in Server, NEW term \in Nat, NEW m \in AppendReplies
    PROVE  Grown(n, Acknowledged(n, i, term, m), term)
<1> DEFINE j     == m.from
           match == CASE m.match > n.match[j]                             -> m.match
                      [] m.match <= n.match[j] /\ m.hint - 1 > n.match[j] -> m.hint - 1
                      [] OTHER                                            -> n.match[j]
           c == [n EXCEPT !.match[j] = match, !.next[j] = match + 1]
           k == AckReads(c, j)
           a == MaybeCommit(k, i, term)
           b == IF match + 1 <= LastIndex(a.log) THEN SendTo(a, i, term, {j}) ELSE a
           p == MaybePromoteLearner(b, i, term, j)
<1>1. n \in Nodes /\ j \in Server /\ m.match \in Nat /\ m.hint \in Nat /\ n.match[j] \in Nat
  BY DEF AppendReplies, Nodes, Plain
<1>2. match \in Nat
  BY <1>1
<1> HIDE DEF match
<1>3. c \in Nodes
  <2> DEFINE next == match + 1
  <2>1. next \in Nat
    BY <1>2
  <2> HIDE DEF next
  <2>2. [n EXCEPT !.match[j] = match, !.next[j] = next] \in Nodes
    BY <1>1, <1>2, <2>1, ProgressType
  <2> QED BY <2>2 DEF next
<1>4. Quiet(n, c)
  BY <1>1 DEF Quiet, Nodes
<1> HIDE DEF c
<1>5. Quiet(n, k) /\ k \in Nodes
  BY <1>1, <1>3, <1>4, QuietSteps, AckReadsType, QuietTrans
<1> HIDE DEF k
<1>6. Grown(n, k, term) /\ Plain(k)
  BY <1>5, QuietGrows DEF Grown
<1>7. Grown(k, a, term) /\ Plain(a)
  BY <1>6, MaybeCommitGrows DEF Grown
<1> HIDE DEF a
<1>8. Grown(a, b, term) /\ Plain(b)
  <2>1. Grown(a, a, term)
    BY <1>7, PlainLog, QuietGrows DEF Quiet
  <2>2. Grown(a, SendTo(a, i, term, {j}), term)
    BY <1>1, <1>7, SendToGrows
  <2> QED BY <2>1, <2>2 DEF Grown
<1> HIDE DEF b
<1>9. Grown(b, p, term)
  BY <1>1, <1>8, PromoteGrows
<1> HIDE DEF p
<1>10. Grown(n, p, term)
  <2>1. Grown(n, a, term)
    BY <1>6, <1>7, GrownTrans
  <2>2. Grown(n, b, term)
    BY <1>8, <2>1, GrownTrans
  <2> QED BY <1>9, <2>2, GrownTrans
<1> QED BY <1>10 DEF Acknowledged, p, b, a, k, c, match

LEMMA BackedUpGrows ==
    ASSUME NEW n, Plain(n), NEW i \in Server, NEW term \in Nat, NEW m \in AppendReplies
    PROVE  Grown(n, BackedUp(n, i, term, m), term)
<1> DEFINE j    == m.from
           last == LastIndexOfTerm(n.log, m.conflictTerm)
           next == CASE m.conflictTerm # 0 /\ last > 0 -> last + 1
                     [] ~(m.conflictTerm # 0 /\ last > 0) /\ m.conflictIndex > 0 -> m.conflictIndex
                     [] OTHER -> MaxOf(NextOf(n, j) - 1, 1)
           c == [n EXCEPT !.next[j] = next]
           b == SendTo(c, i, term, {j})
<1>1. n \in Nodes /\ j \in Server
  BY DEF AppendReplies, Plain
<1>2. next \in Nat
  BY <1>1, BackedUpNext
<1> HIDE DEF next
<1>3. c \in Nodes /\ Quiet(n, c)
  BY <1>1, <1>2, ProgressType DEF Quiet, Nodes
<1> HIDE DEF c
<1>4. Grown(n, c, term) /\ Plain(c)
  BY <1>3, QuietGrows DEF Grown
<1>5. Grown(c, b, term)
  BY <1>1, <1>4, SendToGrows
<1> HIDE DEF b
<1>6. Grown(n, b, term)
  BY <1>4, <1>5, GrownTrans
<1> QED BY <1>6 DEF BackedUp, b, c, next, last

\* A tick after which there is still no snapshot.
LEMMA HousekeepingQuiet ==
    ASSUME NEW n, Plain(n), NEW i \in Server, Housekeeping(n).snap.index = 0
    PROVE  Quiet(n, Housekeeping(n)) /\ Housekeeping(n) \in Nodes
<1> DEFINE a == MaybeApply(n)
<1>0. 0 \in Nat
  OBVIOUS
<1>1. n \in Nodes /\ a \in Nodes
  BY MaybeApplyType DEF Plain
<1>2. Quiet(n, a)
  BY <1>0, <1>1, QuietSteps
<1>3. Plain(a)
  BY <1>0, <1>1, <1>2, QuietGrows DEF Grown
<1> HIDE DEF a
<1>4. MaybeSnapshot(a) = a
  <2> SUFFICES ASSUME ~(Len(a.log.ents) < SnapshotLogN \/ a.applied <= a.log.snapIndex)
               PROVE  FALSE
    BY DEF MaybeSnapshot
  <2>1. a.applied > 0 /\ a.snap.index = 0 /\ a.applied \in Nat
    BY <1>3 DEF Plain, Aligned, Nodes
  <2>2. PICK t : MaybeSnapshot(a).snap =
                    Saved(a.snap, [index |-> a.applied, term |-> t, sm |-> a.sm])
    BY <1>1 DEF MaybeSnapshot, Nodes
  <2>3. MaybeSnapshot(a).snap.index = a.applied
    BY <2>1, <2>2 DEF Saved
  <2>4. MaybeSnapshot(a).snap.index = 0
    BY DEF Housekeeping, a
  <2> QED BY <2>1, <2>3, <2>4
<1> QED BY <1>1, <1>2, <1>4 DEF Housekeeping, a

-----------------------------------------------------------------------------
(***************************************************************************)
(* What a follower makes of the entries es after prev.                     *)
(***************************************************************************)

\* What is before the k-th of the entries es that follow prev.
Before(log, prev, es, k) == IF k = 1 THEN Term(log, prev) ELSE es[k - 1].term

\* The log stays as it is when it has all of es, and else is overwritten from the
\* first entry f of es that it lacks.
Kept(log, prev, es) ==
    /\ prev + Len(es) <= Len(log.ents)
    /\ \A k \in 1..Len(es) : log.ents[prev + k].term = es[k].term

Overwritten(log, prev, es, b, f) ==
    /\ prev + f <= Len(log.ents) + 1
    /\ \A k \in 1..f - 1 : log.ents[prev + k].term = es[k].term
    /\ prev + f <= Len(log.ents) => log.ents[prev + f].term # es[f].term
    /\ Len(b.ents) = prev + Len(es)
    /\ \A x \in 1..(prev + f) - 1 : b.ents[x] = log.ents[x]
    /\ \A k \in f..Len(es) : b.ents[prev + k] = es[k]

\* The new log: what it keeps is the old one, and the rest is es.
Spliced(log, prev, es, b) ==
    /\ b \in Logs /\ Aligned(b)
    /\ \/ b = log /\ Kept(log, prev, es)
       \/ \E f \in 1..Len(es) : Overwritten(log, prev, es, b, f)
    /\ \A x \in 1..Len(b.ents) :
          \/ x \in 1..Len(log.ents) /\ LogLink(b, x) = LogLink(log, x)
          \/ \E k \in 1..Len(es) : LogLink(b, x) = LinkOf(es[k], Before(log, prev, es, k))

\* TruncateFrom keeps the entries up to keep.
LEMMA CutAligned ==
    ASSUME NEW log \in Logs, Aligned(log), NEW keep \in 0..Len(log.ents)
    PROVE  LET cut == TruncateFrom(log, keep + 1)
           IN  /\ cut \in Logs /\ cut.snapIndex = 0 /\ cut.snapTerm = 0 /\ cut.ents \in Seq(Entries)
               /\ Len(cut.ents) = keep /\ \A x \in 1..keep : cut.ents[x] = log.ents[x]
               /\ keep = Len(log.ents) => cut = log
<1> DEFINE cut == TruncateFrom(log, keep + 1)
<1> SUFFICES /\ cut \in Logs /\ cut.snapIndex = 0 /\ cut.snapTerm = 0 /\ cut.ents \in Seq(Entries)
             /\ Len(cut.ents) = keep /\ \A x \in 1..keep : cut.ents[x] = log.ents[x]
             /\ keep = Len(log.ents) => cut = log
  OBVIOUS
<1>1. /\ log.ents \in Seq(Entries) /\ Len(log.ents) \in Nat
      /\ log.snapIndex = 0 /\ log.snapTerm = 0
  BY AlignedReads DEF Aligned
<1>2. cut \in Logs
  BY <1>1, TruncateType
<1>3. cut = IF keep <= 0 THEN [log EXCEPT !.ents = <<>>]
            ELSE IF keep >= Len(log.ents) THEN log
            ELSE [log EXCEPT !.ents = SubSeq(log.ents, 1, keep)]
  <2> DEFINE k == (keep + 1) - log.snapIndex - 1
  <2>1. k = keep
    BY <1>1
  <2>2. cut = IF k <= 0 THEN [log EXCEPT !.ents = <<>>]
              ELSE IF k >= Len(log.ents) THEN log
              ELSE [log EXCEPT !.ents = SubSeq(log.ents, 1, k)]
    BY DEF TruncateFrom
  <2> HIDE DEF k, cut
  <2> QED BY <2>1, <2>2
<1> HIDE DEF cut
<1>4. CASE keep = 0
  <2>1. cut = [log EXCEPT !.ents = <<>>]
    BY <1>3, <1>4
  <2>2. cut.ents = <<>> /\ cut.snapIndex = 0 /\ cut.snapTerm = 0
    BY <1>1, <2>1 DEF Logs
  <2>3. Len(log.ents) = 0 => log.ents = <<>>
    BY <1>1
  <2>4. log.ents = <<>> => cut = log
    BY <2>1 DEF Logs
  <2> QED BY <1>2, <1>4, <2>2, <2>3, <2>4
<1>5. CASE keep = Len(log.ents) /\ keep # 0
  BY <1>1, <1>2, <1>3, <1>5
<1>6. CASE keep # 0 /\ keep # Len(log.ents)
  <2>1. cut = [log EXCEPT !.ents = SubSeq(log.ents, 1, keep)]
    BY <1>1, <1>3, <1>6
  <2>2. /\ cut.ents = SubSeq(log.ents, 1, keep) /\ cut.ents \in Seq(Entries)
        /\ cut.snapIndex = 0 /\ cut.snapTerm = 0
    BY <1>1, <1>2, <2>1 DEF Logs
  <2>3. Len(cut.ents) = keep /\ \A x \in 1..keep : cut.ents[x] = log.ents[x]
    BY <1>1, <2>2
  <2> QED BY <1>2, <1>6, <2>2, <2>3
<1> QED BY <1>4, <1>5, <1>6

\* Cutting a log after keep and appending es from its entry f.
LEMMA SplicePart ==
    ASSUME NEW log \in Logs, Aligned(log), NEW prev \in 0..Len(log.ents),
           NEW es \in Seq(Entries), \A k \in 1..Len(es) : es[k].index = prev + k,
           NEW f \in 1..Len(es), NEW keep \in 0..Len(log.ents), keep + 1 = prev + f,
           \A k \in 1..f - 1 : log.ents[prev + k].term = es[k].term,
           prev + f <= Len(log.ents) => log.ents[prev + f].term # es[f].term
    PROVE  LET run == SubSeq(es, f, Len(es))
               b   == AppendTo(TruncateFrom(log, keep + 1), run)
           IN  /\ run # <<>> /\ run[1].index = keep + 1
               /\ Spliced(log, prev, es, b)
               /\ Replay(log, run) = b
<1> DEFINE len  == Len(log.ents)
           m    == Len(es)
           run  == SubSeq(es, f, m)
           cut  == TruncateFrom(log, keep + 1)
           b    == AppendTo(cut, run)
<1>1. /\ log.ents \in Seq(Entries) /\ len \in Nat /\ LastIndex(log) = len
      /\ log.snapIndex = 0 /\ log.snapTerm = 0
      /\ \A k \in 1..len : log.ents[k].index = k
      /\ Term(log, prev) = IF prev \in 1..len THEN log.ents[prev].term ELSE 0
  <2>1. prev \in Int
    BY AlignedReads
  <2> QED BY <2>1, AlignedReads DEF Aligned
<1>2. /\ m \in Nat /\ f \in 1..m /\ prev \in 0..len /\ keep \in 0..len /\ keep + 1 = prev + f
      /\ keep \in Nat /\ prev \in Nat
  BY <1>1
<1>3. /\ Len(run) = m - f + 1 /\ run \in Seq(Entries)
      /\ \A x \in f..m : run[x - f + 1] = es[x]
  <2>1. run \in Seq(Entries) /\ Len(run) = m - f + 1 /\ \A x \in 1..m - f + 1 : run[x] = es[f + x - 1]
    BY <1>2
  <2> HIDE DEF run
  <2>2. ASSUME NEW x \in f..m PROVE run[x - f + 1] = es[x]
    <3>1. x - f + 1 \in 1..m - f + 1 /\ f + (x - f + 1) - 1 = x
      BY <1>2
    <3> QED BY <2>1, <3>1
  <2> QED BY <2>1, <2>2
<1>4. run # <<>> /\ run[1].index = keep + 1
  <2>0. f - f + 1 = 1 /\ f \in f..m
    BY <1>2
  <2>1. run[1] = es[f] /\ es[f].index = keep + 1
    <3>1. run[f - f + 1] = es[f]
      BY <1>3, <2>0
    <3> QED BY <2>0, <3>1
  <2>2. Len(run) # 0
    BY <1>2, <1>3
  <2> HIDE DEF run
  <2> QED BY <2>1, <2>2
<1>5. /\ cut \in Logs /\ cut.snapIndex = 0 /\ cut.snapTerm = 0 /\ cut.ents \in Seq(Entries)
      /\ Len(cut.ents) = keep /\ \A x \in 1..keep : cut.ents[x] = log.ents[x]
      /\ keep = Len(log.ents) => cut = log
  BY CutAligned
<1> HIDE DEF run, cut
<1>6. b \in Logs /\ b.snapIndex = 0 /\ b.snapTerm = 0 /\ b.ents = cut.ents \o run
  <2>1. b \in Logs
    BY <1>3, <1>5, AppendToType
  <2> HIDE DEF run, cut
  <2> QED BY <2>1, <1>5 DEF AppendTo, Logs
<1> HIDE DEF b
<1>7. /\ Len(b.ents) = prev + m
      /\ \A x \in 1..keep : b.ents[x] = log.ents[x]
      /\ \A x \in f..m : b.ents[prev + x] = es[x]
  <2> DEFINE c == cut.ents
             k == Len(run)
  <2>a. c \in Seq(Entries) /\ run \in Seq(Entries) /\ Len(c) = keep /\ b.ents = c \o run
    BY <1>3, <1>5, <1>6
  <2> HIDE DEF c
  <2>b. /\ Len(c \o run) = Len(c) + Len(run)
        /\ \A x \in 1..Len(c) + Len(run) :
              (c \o run)[x] = IF x <= Len(c) THEN c[x] ELSE run[x - Len(c)]
    BY <2>a, ConcatProperties
  <2>0. /\ Len(b.ents) = keep + k
        /\ \A x \in 1..keep + k : b.ents[x] = IF x <= keep THEN c[x] ELSE run[x - keep]
    BY <2>a, <2>b
  <2>c. k = m - f + 1 /\ k \in Nat /\ f \in Nat /\ k + f = m + 1
    BY <1>2, <1>3
  <2> HIDE DEF k
  <2>1. Len(b.ents) = prev + m
    <3>1. keep + k = prev + m
      <4>1. m \in Nat /\ keep \in Nat /\ prev \in Nat /\ keep + 1 = prev + f
        BY <1>2
      <4> HIDE DEF m
      <4> QED BY ONLY <2>c, <4>1
    <3> QED BY <2>0, <3>1
  <2>2. \A x \in 1..keep : b.ents[x] = cut.ents[x]
    <3>1. \A x \in 1..keep : x \in 1..keep + k /\ x <= keep
      BY <1>2, <2>c
    <3> QED BY <2>0, <3>1 DEF c
  <2>3. ASSUME NEW x \in f..m PROVE b.ents[prev + x] = es[x]
    <3> DEFINE y == x - f + 1
    <3>1. y \in 1..k /\ prev + x = keep + y /\ run[y] = es[x]
      BY <1>2, <1>3, <2>c
    <3> HIDE DEF y
    <3>2. ~(keep + y <= keep) /\ (keep + y) - keep = y /\ keep + y \in 1..keep + k
      BY <1>2, <2>c, <3>1
    <3> QED BY <2>0, <3>1, <3>2
  <2> QED BY <1>5, <2>1, <2>2, <2>3
<1>8. Replay(log, run) = b
  <2>1. CASE keep < len
    <3>1. run[1].index <= LastIndex(log)
      BY <1>1, <1>2, <1>4, <2>1
    <3> QED BY <1>4, <3>1 DEF Replay, b, cut
  <2>2. CASE keep = len
    <3>1. ~(run[1].index <= LastIndex(log)) /\ cut = log
      BY <1>1, <1>4, <1>5, <2>2
    <3> QED BY <1>4, <3>1 DEF Replay, b
  <2> QED BY <1>1, <1>2, <2>1, <2>2
<1>0. ASSUME NEW x \in 1..prev + m, ~(x <= keep)
      PROVE  \E k \in f..m : x = prev + k
  <2>1. x - prev \in f..m /\ x = prev + (x - prev)
    BY <1>0, <1>2
  <2> QED BY <2>1
<1>9. Aligned(b)
  <2>1. ASSUME NEW x \in 1..prev + m PROVE b.ents[x].index = x
    <3>1. CASE x <= keep
      <4>1. x \in 1..keep /\ x \in 1..len
        BY <1>2, <3>1
      <4> QED BY <1>1, <1>7, <4>1
    <3>2. CASE ~(x <= keep)
      <4>1. PICK k \in f..m : x = prev + k
        BY <1>0, <3>2
      <4>2. k \in 1..m
        BY <1>2
      <4> QED BY <1>7, <4>1, <4>2
    <3> QED BY <3>1, <3>2
  <2> QED BY <1>6, <1>7, <2>1 DEF Aligned
<1>10. ASSUME NEW x \in 1..Len(b.ents)
       PROVE  \/ x \in 1..len /\ LogLink(b, x) = LogLink(log, x)
              \/ \E k \in 1..m : LogLink(b, x) = LinkOf(es[k], Before(log, prev, es, k))
  <2>0. x \in 1..prev + m
    BY <1>7
  <2>1. CASE x <= keep
    <3>1. x \in 1..len /\ x \in 1..keep /\ (x # 1 => x - 1 \in 1..keep)
      BY <1>2, <2>0, <2>1
    <3>2. b.ents[x] = log.ents[x] /\ (x # 1 => b.ents[x - 1] = log.ents[x - 1])
      BY <1>7, <3>1
    <3> QED BY <3>1, <3>2 DEF LogLink
  <2>2. CASE ~(x <= keep)
    <3>1. PICK k \in f..m : x = prev + k
      BY <1>0, <2>0, <2>2
    <3>2. k \in 1..m /\ b.ents[x] = es[k]
      BY <1>2, <1>7, <3>1
    <3>3. (IF x = 1 THEN 0 ELSE b.ents[x - 1].term) = Before(log, prev, es, k)
      <4>1. CASE k > f
        <5>1. k # 1 /\ x # 1 /\ k - 1 \in f..m /\ x - 1 = prev + (k - 1)
          BY <1>2, <3>1, <4>1
        <5>2. b.ents[x - 1] = es[k - 1]
          BY <1>7, <5>1
        <5> QED BY <5>1, <5>2 DEF Before
      <4>2. CASE k = f /\ f = 1
        <5>1. k = 1 /\ keep = prev /\ x - 1 = prev /\ (prev # 0 => prev \in 1..keep /\ prev \in 1..len)
          BY <1>2, <3>1, <4>2
        <5>2. prev # 0 => b.ents[x - 1] = log.ents[prev]
          BY <1>7, <5>1
        <5>3. x = 1 <=> prev = 0
          BY <1>2, <3>1, <5>1
        <5>4. prev = 0 => prev \notin 1..len
          BY <1>2
        <5>5. Term(log, prev) = IF x = 1 THEN 0 ELSE b.ents[x - 1].term
          BY <1>1, <5>1, <5>2, <5>3, <5>4
        <5> QED BY <5>1, <5>5 DEF Before
      <4>3. CASE k = f /\ f # 1
        <5>1. k - 1 \in 1..f - 1 /\ x # 1 /\ x - 1 = prev + (k - 1) /\ x - 1 \in 1..keep /\ k # 1
          BY <1>2, <3>1, <4>3
        <5>2. b.ents[x - 1].term = es[k - 1].term
          BY <1>7, <5>1
        <5> QED BY <5>1, <5>2 DEF Before
      <4> QED BY <1>2, <4>1, <4>2, <4>3
    <3>4. LogLink(b, x) = LinkOf(es[k], Before(log, prev, es, k))
      BY <3>2, <3>3 DEF LogLink
    <3> QED BY <3>2, <3>4
  <2> QED BY <2>1, <2>2
<1>11. Overwritten(log, prev, es, b, f)
  <2>1. (prev + f) - 1 = keep /\ prev + f <= len + 1
    BY <1>2
  <2> QED BY <1>7, <2>1 DEF Overwritten
<1> QED BY <1>2, <1>4, <1>6, <1>8, <1>9, <1>10, <1>11 DEF Spliced, b, cut, run

\* The loop of handleAppendEntries splices the entries in, and so does the WAL.
LEMMA MergeSplices ==
    ASSUME NEW log \in Logs, Aligned(log), NEW prev \in 0..Len(log.ents),
           NEW es \in Seq(Entries), \A k \in 1..Len(es) : es[k].index = prev + k
    PROVE  /\ Spliced(log, prev, es, Merge(log, es))
           /\ Replay(Replay(log, Stale(log, es)), Fresh(log, es)) = Merge(log, es)
<1> DEFINE m     == Len(es)
           stale == Stale(log, es)
           base  == AppendTo(log, stale)
           fresh == Fresh(log, es)
           News  == {k \in Covered(log, es) + 1 .. m :
                       Has(base, es[k].index) => At(base, es[k].index).term # es[k].term}
<1>1. /\ log.ents \in Seq(Entries) /\ Len(log.ents) \in Nat /\ log.snapIndex = 0
      /\ m \in Nat /\ prev \in Nat
  BY AlignedReads DEF Aligned
<1>2. Covered(log, es) = 0
  <2>1. CASE es = <<>>
    BY <2>1 DEF Covered
  <2>2. CASE es # <<>>
    <3>1. m >= 1 /\ es[1].index = prev + 1
      BY <1>1, <2>2
    <3>2. MaxOf(0, log.snapIndex + 1 - es[1].index) = 0
      BY <1>1, <3>1 DEF MaxOf
    <3> QED BY <1>1, <2>2, <3>1, <3>2 DEF Covered, MinOf
  <2> QED BY <2>1, <2>2
<1>3. stale = <<>> /\ base = log /\ Replay(log, stale) = log
  <2>1. stale = <<>>
    BY <1>1, <1>2 DEF Stale
  <2>2. log.ents \o <<>> = log.ents
    BY <1>1, ConcatEmptySeq
  <2> HIDE DEF stale
  <2>3. base = log
    BY <2>1, <2>2 DEF AppendTo, Logs
  <2> QED BY <2>1, <2>3 DEF Replay
<1>4. News = {k \in 1..m : prev + k \in 1..Len(log.ents) => log.ents[prev + k].term # es[k].term}
  <2>1. \A k \in 1..m : /\ es[k].index = prev + k /\ prev + k \in Int
                        /\ Has(log, prev + k) <=> prev + k \in 1..Len(log.ents)
                        /\ At(log, prev + k) = log.ents[prev + k]
    <3>1. \A k \in 1..m : prev + k \in Int
      BY <1>1
    <3> QED BY <3>1, AlignedReads
  <2>2. Covered(log, es) + 1 = 1
    BY <1>2
  <2> HIDE DEF base, m
  <2> QED BY <1>3, <2>1, <2>2
<1>5. fresh = IF News = {} THEN <<>>
              ELSE SubSeq(es, CHOOSE k \in News : \A j \in News : k <= j, m)
  BY DEF Fresh
<1>6. Merge(log, es) = IF fresh = <<>> THEN base ELSE AppendTo(TruncateFrom(base, fresh[1].index), fresh)
  BY DEF Merge
<1> HIDE DEF fresh, base, stale
<1>7. CASE News = {}
  <2>1. fresh = <<>> /\ Merge(log, es) = log
    BY <1>3, <1>5, <1>6, <1>7
  <2>2. Spliced(log, prev, es, log)
    <3>1. \A k \in 1..m : prev + k \in 1..Len(log.ents) /\ log.ents[prev + k].term = es[k].term
      BY <1>4, <1>7
    <3>2. prev + m <= Len(log.ents)
      <4>1. CASE m = 0
        BY <1>1, <4>1
      <4>2. CASE m # 0
        <5>1. m \in 1..m
          BY <1>1, <4>2
        <5>2. prev + m \in 1..Len(log.ents)
          BY <3>1, <5>1
        <5> QED BY <1>1, <5>2
      <4> QED BY <4>1, <4>2
    <3>3. Kept(log, prev, es)
      BY <3>1, <3>2 DEF Kept
    <3> QED BY <3>3 DEF Spliced
  <2> QED BY <1>3, <2>1, <2>2 DEF Replay, stale, fresh
<1>8. CASE News # {}
  <2>1. PICK f \in News : \A j \in News : f <= j
    <3>1. News \subseteq 1..m /\ News \in SUBSET Int
      BY <1>1, <1>4
    <3> HIDE DEF News
    <3>2. IsFiniteSet(News)
      <4>1. IsFiniteSet(1..m)
        BY <1>1, FS_Interval
      <4> QED BY <3>1, <4>1, FS_Subset
    <3> QED BY <1>8, <3>1, <3>2, MinExists
  <2>2. f \in 1..m
    BY <1>4, <2>1
  <2>3. (CHOOSE k \in News : \A j \in News : k <= j) = f
    <3>1. \A k \in News : k \in Int
      BY <1>4
    <3> HIDE DEF News
    <3> QED BY <2>1, <3>1
  <2>4. fresh = SubSeq(es, f, m)
    BY <1>5, <1>8, <2>3
  <2>5. ASSUME NEW k \in 1..f - 1
        PROVE  prev + k \in 1..Len(log.ents) /\ log.ents[prev + k].term = es[k].term
    <3>1. k \in 1..m /\ ~(f <= k)
      BY <1>1, <2>2
    <3>2. k \notin News
      BY <2>1, <3>1
    <3> QED BY <1>4, <3>1, <3>2
  <2>9. prev + f <= Len(log.ents) => log.ents[prev + f].term # es[f].term
    <3>1. f \in News
      OBVIOUS
    <3>2. prev + f <= Len(log.ents) => prev + f \in 1..Len(log.ents)
      BY <1>1, <2>2
    <3> HIDE DEF News
    <3> QED BY <1>4, <3>1, <3>2
  <2> DEFINE keep == prev + (f - 1)
  <2>6. keep \in 0..Len(log.ents) /\ keep + 1 = prev + f
    <3>1. CASE f = 1
      BY <1>1, <3>1
    <3>2. CASE f # 1
      <4>1. f - 1 \in 1..f - 1
        BY <1>1, <2>2, <3>2
      <4>2. prev + (f - 1) \in 1..Len(log.ents)
        BY <2>5, <4>1
      <4> QED BY <1>1, <2>2, <4>2
    <3> QED BY <3>1, <3>2
  <2> HIDE DEF keep, News
  <2> DEFINE b == AppendTo(TruncateFrom(log, keep + 1), SubSeq(es, f, m))
  <2> HIDE DEF m
  <2>7. /\ SubSeq(es, f, m) # <<>> /\ SubSeq(es, f, m)[1].index = keep + 1
        /\ Spliced(log, prev, es, b) /\ Replay(log, SubSeq(es, f, m)) = b
    <3>1. f \in 1..Len(es) /\ \A k \in 1..f - 1 : log.ents[prev + k].term = es[k].term
      BY <2>2, <2>5 DEF m
    <3> QED BY <2>6, <2>9, <3>1, SplicePart DEF m
  <2>8. Merge(log, es) = b /\ Replay(log, fresh) = b
    BY <1>3, <1>6, <2>4, <2>7
  <2> QED BY <1>3, <2>7, <2>8 DEF stale, fresh
<1> QED BY <1>7, <1>8

\* A follower that has accepted an AppendEntries call, or a part of it.
LEMMA TakeEntriesSplices ==
    ASSUME NEW n, Plain(n), n.out = {}, NEW prev \in 0..Len(n.log.ents),
           NEW es \in Seq(Entries), \A k \in 1..Len(es) : es[k].index = prev + k
    PROVE  LET b == TakeEntries(n, es)
           IN  Plain(b) /\ b.out = {} /\ Spliced(n.log, prev, es, b.log)
<1> DEFINE b == TakeEntries(n, es)
           merged == Merge(n.log, es)
           wal == Replay(Replay(n.wal, Stale(n.log, es)), Fresh(n.log, es))
           a == [n EXCEPT !.log = merged, !.wal = wal]
<1>1. n \in Nodes /\ n.log \in Logs /\ Aligned(n.log) /\ n.wal = n.log /\ n.snap.index = 0
  BY DEF Plain, Nodes
<1>2. Spliced(n.log, prev, es, merged) /\ wal = merged
  BY <1>1, MergeSplices
<1>3. b \in Nodes
  BY <1>1, TakeEntriesType
<1> HIDE DEF merged, wal
<1>4. a.log = merged /\ a.wal = wal /\ a.snap = n.snap /\ a.out = n.out
  BY <1>1 DEF Nodes
<1>5. b = a \/ \E m : b = ApplyConfig(a, m)
  BY DEF TakeEntries, merged, wal
<1>6. \A m : Quiet(a, ApplyConfig(a, m))
  <2>1. \A r \in Nodes : \A m : Quiet(r, ApplyConfig(r, m))
    BY DEF ApplyConfig, Quiet, Nodes
  <2>2. a \in Nodes
    <3>1. merged \in Logs /\ wal \in Logs
      BY <1>2 DEF Spliced
    <3> QED BY <1>1, <3>1 DEF Nodes
  <2> QED BY <2>1, <2>2
<1> HIDE DEF a, b
<1>7. b.log = merged /\ b.wal = wal /\ b.snap = n.snap /\ b.out = {}
  BY <1>4, <1>5, <1>6 DEF Quiet
<1>8. Plain(b)
  BY <1>1, <1>2, <1>3, <1>7 DEF Plain, Spliced
<1> QED BY <1>2, <1>7, <1>8 DEF b

-----------------------------------------------------------------------------
(***************************************************************************)
(* The links after a step.                                                 *)
(***************************************************************************)

\* The log after a step of node i: a leader only appends entries of its term,
\* any other node has none but known links.
Continues(i) ==
    \/ role'[i] = "leader" /\ Longer(node[i].log, node'[i].log, hs'[i].term)
    \/ /\ role'[i] # "leader"
       /\ \A x \in 1..Len(node'[i].log.ents) : LogLink(node'[i].log, x) \in Links

\* Who leads or campaigns has done so before, or has been a candidate, or is in a new term.
RoleStep(i) ==
    role'[i] # "follower" =>
        \/ hs'[i].term > hs[i].term
        \/ /\ hs'[i].term = hs[i].term
           /\ role'[i] = role[i] \/ (role[i] = "candidate" /\ role'[i] = "leader")

LogStep(i) ==
    /\ \A j \in Server : j # i => hs'[j] = hs[j] /\ role'[j] = role[j] /\ node'[j] = node[j]
    /\ hs'[i].term >= hs[i].term
    /\ granted \subseteq granted'
    /\ RoleStep(i)
    /\ Aligned(node'[i].log) /\ node'[i].wal = node'[i].log
    /\ \A m \in msgs' : m.type = "AppendEntries" => m \in msgs \/ CopyOf(m, node'[i].log)
    /\ NoTransfers'
    /\ Continues(i)

LEMMA LogTypes ==
    ASSUME TypeOK, NEW i \in Server
    PROVE  /\ node[i] \in Nodes /\ node[i].log \in Logs /\ node[i].log.ents \in Seq(Entries)
           /\ Len(node[i].log.ents) \in Nat /\ hs[i].term \in Nat
<1>1. node[i] \in Nodes /\ hs[i].term \in Nat
  BY DEF TypeOK
<1>2. node[i].log \in Logs
  BY <1>1 DEF Nodes
<1>3. node[i].log.ents \in Seq(Entries)
  BY <1>2 DEF Logs
<1> QED BY <1>1, <1>2, <1>3

\* The links of a copy are links of the log.
LEMMA CopiedLinks ==
    ASSUME NEW log \in Logs, Aligned(log), NEW c, CopyOf(c, log), NEW k \in 1..Len(c.ents),
           Len(c.ents) \in Nat
    PROVE  /\ c.prevIndex + k \in 1..Len(log.ents)
           /\ CallLink(c, k) = LogLink(log, c.prevIndex + k)
<1> DEFINE p == c.prevIndex
           m == Len(c.ents)
           len == Len(log.ents)
<1>1. /\ len \in Nat /\ p \in 0..len /\ p + m <= len /\ c.prevTerm = Term(log, p)
      /\ \A x \in 1..m : c.ents[x] = log.ents[p + x]
      /\ Term(log, p) = IF p \in 1..len THEN log.ents[p].term ELSE 0
  <2>1. len \in Nat /\ p \in 0..len
    BY AlignedReads DEF CopyOf
  <2>2. p \in Int
    BY <2>1
  <2>3. Term(log, p) = IF p \in 1..len THEN log.ents[p].term ELSE 0
    BY <2>2, AlignedReads
  <2> QED BY <2>1, <2>3 DEF CopyOf
<1> HIDE DEF p, m, len
<1>2. m \in Nat /\ k \in 1..m
  BY DEF m
<1>3. p + k \in 1..len /\ c.ents[k] = log.ents[p + k]
  BY <1>1, <1>2
<1>4. (IF k = 1 THEN c.prevTerm ELSE c.ents[k - 1].term)
        = IF p + k = 1 THEN 0 ELSE log.ents[(p + k) - 1].term
  <2>1. CASE k = 1 /\ p = 0
    <3>1. p \notin 1..len /\ p + k = 1
      BY <2>1, <1>1
    <3> QED BY <2>1, <3>1, <1>1
  <2>2. CASE k = 1 /\ p # 0
    <3>1. p \in 1..len /\ p + k # 1 /\ (p + k) - 1 = p
      BY <2>2, <1>1
    <3> QED BY <2>2, <3>1, <1>1
  <2>3. CASE k # 1
    <3>1. k - 1 \in 1..m /\ p + k # 1 /\ (p + k) - 1 = p + (k - 1)
      BY <2>3, <1>1, <1>2
    <3>2. c.ents[k - 1] = log.ents[p + (k - 1)]
      BY <1>1, <3>1
    <3> QED BY <2>3, <3>1, <3>2
  <2> QED BY <2>1, <2>2, <2>3
<1>5. CallLink(c, k) = LogLink(log, p + k)
  BY <1>3, <1>4 DEF CallLink, LogLink
<1> QED BY <1>3, <1>5 DEF p, len

\* Every new link is of the term of the leader that appended its entry.
LEMMA LinksGrow ==
    ASSUME TypeOK, TypeOK', NEW i \in Server, LogStep(i), NEW l \in Links'
    PROVE  \/ l \in Links
           \/ /\ role'[i] = "leader" /\ Longer(node[i].log, node'[i].log, hs'[i].term)
              /\ l.entry.term = hs'[i].term
              /\ l.entry.index \in Len(node[i].log.ents) + 1 .. Len(node'[i].log.ents)
              /\ l = LogLink(node'[i].log, l.entry.index)
<1> DEFINE a == node[i].log
           b == node'[i].log
           New == /\ role'[i] = "leader" /\ Longer(a, b, hs'[i].term)
                  /\ l.entry.term = hs'[i].term
                  /\ l.entry.index \in Len(a.ents) + 1 .. Len(b.ents)
                  /\ l = LogLink(b, l.entry.index)
<1>1. /\ a \in Logs /\ b \in Logs /\ Len(a.ents) \in Nat /\ Len(b.ents) \in Nat
      /\ Aligned(b)
  BY LogTypes, (\A j \in Server : node[j] \in Nodes)', AlignedReads DEF LogStep, TypeOK, Nodes
<1>2. \A j \in Server : \A x \in 1..Len(node[j].log.ents) : LogLink(node[j].log, x) \in Links
  BY DEF Links
<1>3. \A m \in msgs : m.type = "AppendEntries" => \A k \in 1..Len(m.ents) : CallLink(m, k) \in Links
  BY DEF Links, AppendsUnderWay
<1>4. ASSUME NEW x \in 1..Len(b.ents), l = LogLink(b, x) PROVE l \in Links \/ New
  <2>1. CASE role'[i] # "leader"
    BY <1>4, <2>1 DEF LogStep, Continues
  <2>2. CASE role'[i] = "leader"
    <3>1. Longer(a, b, hs'[i].term)
      BY <2>2 DEF LogStep, Continues
    <3>2. CASE x <= Len(a.ents)
      <4>1. x \in 1..Len(a.ents) /\ (x # 1 => x - 1 \in 1..Len(a.ents))
        BY <1>1, <3>2
      <4>2. b.ents[x] = a.ents[x] /\ (x # 1 => b.ents[x - 1] = a.ents[x - 1])
        BY <3>1, <4>1 DEF Longer
      <4>3. l = LogLink(a, x)
        BY <1>4, <4>2 DEF LogLink
      <4> QED BY <1>2, <4>1, <4>3
    <3>3. CASE ~(x <= Len(a.ents))
      <4>1. x \in Len(a.ents) + 1 .. Len(b.ents)
        BY <1>1, <3>3
      <4>2. l.entry = b.ents[x]
        BY <1>4 DEF LogLink, LinkOf
      <4>3. l.entry.term = hs'[i].term
        BY <3>1, <4>1, <4>2 DEF Longer
      <4>4. l.entry.index = x
        BY <1>1, <4>2 DEF Aligned
      <4> QED BY <1>4, <2>2, <3>1, <4>1, <4>3, <4>4
    <3> QED BY <3>2, <3>3
  <2> QED BY <2>1, <2>2
<1>5. ASSUME NEW j \in Server, NEW x \in 1..Len(node'[j].log.ents), l = LogLink(node'[j].log, x)
      PROVE  l \in Links \/ New
  <2>1. CASE j = i
    BY <1>4, <1>5, <2>1
  <2>2. CASE j # i
    BY <1>2, <1>5, <2>2 DEF LogStep
  <2> QED BY <2>1, <2>2
<1>6. ASSUME NEW m \in msgs', m.type = "AppendEntries", NEW k \in 1..Len(m.ents), l = CallLink(m, k)
      PROVE  l \in Links \/ New
  <2>1. CASE m \in msgs
    BY <1>3, <1>6, <2>1
  <2>2. CASE CopyOf(m, b)
    <3>1. Len(m.ents) \in Nat
      <4>1. m \in Messages
        BY DEF TypeOK
      <4>2. m \in AppendCalls
        BY <4>1, <1>6, MessageFields
      <4> QED BY <4>2 DEF AppendCalls
    <3>2. m.prevIndex + k \in 1..Len(b.ents) /\ l = LogLink(b, m.prevIndex + k)
      BY <1>1, <1>6, <2>2, <3>1, CopiedLinks
    <3> QED BY <1>4, <3>2
  <2> QED BY <1>6, <2>1, <2>2 DEF LogStep
<1>7. \/ \E j \in Server : \E x \in 1..Len(node'[j].log.ents) : l = LogLink(node'[j].log, x)
      \/ \E m \in msgs' : m.type = "AppendEntries" /\ \E k \in 1..Len(m.ents) : l = CallLink(m, k)
  BY DEF Links, AppendsUnderWay
<1> QED BY <1>5, <1>6, <1>7

\* A link is of an entry.
LEMMA LinkTypes ==
    ASSUME TypeOK, NEW l \in Links
    PROVE  l.entry.index \in Nat /\ l.entry.term \in Nat
<1>1. l.entry \in Entries
  <2>1. CASE \E j \in Server : \E x \in 1..Len(node[j].log.ents) : l = LogLink(node[j].log, x)
    BY <2>1, LogTypes DEF LogLink, LinkOf
  <2>2. CASE \E m \in msgs : m.type = "AppendEntries" /\ \E x \in 1..Len(m.ents) : l = CallLink(m, x)
    <3>1. PICK m \in msgs : m.type = "AppendEntries" /\ \E x \in 1..Len(m.ents) : l = CallLink(m, x)
      BY <2>2
    <3>2. m.ents \in Seq(Entries)
      <4>1. m \in AppendCalls
        BY <3>1, MessageFields DEF TypeOK
      <4> QED BY <4>1 DEF AppendCalls
    <3> QED BY <3>1, <3>2 DEF CallLink, LinkOf
  <2> QED BY <2>1, <2>2 DEF Links, AppendsUnderWay
<1> QED BY <1>1 DEF Entries

\* Nobody is elected in a term of which there is a link.
LEMMA NewLeader ==
    ASSUME TypeOK, TypeOK', LogInv, ElectionInv', IsFiniteSet(Voters),
           NEW i \in Server, LogStep(i), role'[i] = "leader",
           ~(role[i] = "leader" /\ hs'[i].term = hs[i].term),
           NEW l \in Links
    PROVE  l.entry.term # hs'[i].term
<1> SUFFICES ASSUME l.entry.term = hs'[i].term PROVE FALSE
  OBVIOUS
<1> DEFINE term == hs'[i].term
<1>1. hs[i].term < term \/ (hs[i].term = term /\ role[i] = "candidate")
  BY LogTypes, role'[i] # "follower" DEF LogStep, RoleStep
<1>2. PICK c \in Server, Q \in SUBSET Voters :
        /\ Cardinality(Q) > Cardinality(Voters) \div 2
        /\ \A v \in Q : Vote(v, term, c) \in granted
        /\ hs[c].term >= term
        /\ hs[c].term = term => role[c] # "candidate"
  BY DEF LogInv, LinksElected
<1>3. /\ Cardinality(votes'[i]) > Cardinality(Voters) \div 2
      /\ \A v \in votes'[i] : v \in Voters /\ Vote(v, term, i) \in granted'
  BY DEF ElectionInv, VotesGenuine, LeadersElected
<1>4. PICK v \in Q : v \in votes'[i]
  <2> DEFINE W == votes'[i]
  <2>1. W \subseteq Voters /\ Cardinality(W) > Cardinality(Voters) \div 2
    BY <1>3
  <2> HIDE DEF W
  <2>2. Q \cap W # {}
    <3>1. IsFiniteSet(Q) /\ IsFiniteSet(W)
      BY <2>1, FS_Subset
    <3>2. Cardinality(Q) \in Nat /\ Cardinality(W) \in Nat /\ Cardinality(Voters) \in Nat
      BY <3>1, FS_CardinalityType
    <3>3. Cardinality(Q) + Cardinality(W) > Cardinality(Voters)
      BY <1>2, <2>1, <3>2
    <3> QED BY <2>1, <3>3, FS_MajoritiesIntersect
  <2> QED BY <2>2 DEF W
<1>5. Vote(v, term, c) \in granted' /\ Vote(v, term, i) \in granted'
  BY <1>2, <1>3, <1>4 DEF LogStep
<1>6. c = i
  <2>1. OneVote'
    BY DEF ElectionInv
  <2> HIDE DEF term
  <2> QED BY <1>5, <2>1 DEF OneVote, Vote
<1>7. hs[i].term \in Int /\ term \in Int
  <2>1. (\A j \in Server : hs[j].term \in Nat)'
    BY DEF TypeOK
  <2> QED BY <2>1, LogTypes
<1> HIDE DEF term
<1> QED BY <1>1, <1>2, <1>6, <1>7

LEMMA LogStepKeeps ==
    ASSUME TypeOK, TypeOK', LogInv, ElectionInv', ElectionSafety', IsFiniteSet(Voters),
           NEW i \in Server, LogStep(i)
    PROVE  LogInv'
<1> DEFINE len == Len(node[i].log.ents)
           b   == node'[i].log
           Fresh1(l) == /\ role'[i] = "leader" /\ Longer(node[i].log, b, hs'[i].term)
                        /\ l.entry.term = hs'[i].term
                        /\ l.entry.index \in len + 1 .. Len(b.ents)
                        /\ l = LogLink(b, l.entry.index)
<1>1. \A l \in Links' : l \in Links \/ Fresh1(l)
  BY LinksGrow
<1>2. /\ \A j \in Server : hs[j].term \in Nat /\ hs'[j].term \in Nat /\ hs'[j].term >= hs[j].term
      /\ len \in Nat /\ b \in Logs /\ Len(b.ents) \in Nat /\ Aligned(b)
  <2>1. (\A j \in Server : hs[j].term \in Nat /\ node[j] \in Nodes)'
    BY DEF TypeOK
  <2>2. \A j \in Server : hs[j].term \in Nat /\ hs'[j].term \in Nat /\ hs'[j].term >= hs[j].term
    BY <2>1, LogTypes DEF LogStep
  <2>3. len \in Nat /\ b \in Logs /\ Aligned(b)
    BY <2>1, LogTypes DEF LogStep, Nodes
  <2> QED BY <2>2, <2>3, AlignedReads
<1>3. \A l \in Links, k \in Links' :
        Fresh1(k) => ~(l.entry.index = k.entry.index /\ l.entry.term = k.entry.term)
  <2> SUFFICES ASSUME NEW l \in Links, NEW k \in Links', Fresh1(k),
                      l.entry.index = k.entry.index, l.entry.term = k.entry.term
               PROVE  FALSE
    OBVIOUS
  <2>1. role[i] = "leader" /\ hs'[i].term = hs[i].term
    BY NewLeader
  <2>2. l.entry.index <= len
    BY <2>1 DEF LogInv, LeadersAhead
  <2> QED BY <1>2, <2>2
<1>4. LogsPlain'
  BY DEF LogsPlain, LogStep, LogInv
<1>5. CallsAligned'
  <2> SUFFICES ASSUME NEW m \in msgs', m.type = "AppendEntries"
               PROVE  /\ m.prevIndex = 0 => m.prevTerm = 0
                      /\ \A k \in 1..Len(m.ents) : m.ents[k].index = m.prevIndex + k
    BY DEF CallsAligned, AppendsUnderWay
  <2>1. CASE m \in msgs
    BY <2>1 DEF LogInv, CallsAligned, AppendsUnderWay
  <2>2. CASE CopyOf(m, b)
    <3>1. m.prevIndex \in 0..Len(b.ents) /\ m.prevTerm = Term(b, m.prevIndex)
      BY <2>2 DEF CopyOf
    <3>2. m.prevIndex = 0 => m.prevTerm = 0
      <4>1. Term(b, 0) = 0
        BY <1>2 DEF Term, Has, Aligned
      <4> QED BY <3>1, <4>1
    <3>3. Len(m.ents) \in Nat
      <4>1. m \in AppendCalls
        BY MessageFields DEF TypeOK
      <4> QED BY <4>1 DEF AppendCalls
    <3>4. ASSUME NEW k \in 1..Len(m.ents) PROVE m.ents[k].index = m.prevIndex + k
      <4>1. m.prevIndex + k \in 1..Len(b.ents)
        BY <1>2, <2>2, <3>3, CopiedLinks
      <4> QED BY <1>2, <2>2, <4>1 DEF CopyOf, Aligned
    <3> QED BY <3>2, <3>4
  <2> QED BY <2>1, <2>2 DEF LogStep
<1>6. NoTransfers'
  BY DEF LogStep
<1>7. LinksUnique'
  <2> SUFFICES ASSUME NEW l \in Links', NEW k \in Links',
                      l.entry.index = k.entry.index, l.entry.term = k.entry.term
               PROVE  l = k
    BY DEF LinksUnique
  <2>1. CASE l \in Links /\ k \in Links
    BY <2>1 DEF LogInv, LinksUnique
  <2>2. CASE Fresh1(l) /\ Fresh1(k)
    BY <2>2
  <2>3. CASE l \in Links /\ Fresh1(k)
    BY <1>3, <2>3
  <2>4. CASE Fresh1(l) /\ k \in Links
    BY <1>3, <2>4
  <2> QED BY <1>1, <2>1, <2>2, <2>3, <2>4
<1>8. LinksElected'
  <2> SUFFICES ASSUME NEW l \in Links'
               PROVE  \E c \in Server, Q \in SUBSET Voters :
                        /\ Cardinality(Q) > Cardinality(Voters) \div 2
                        /\ \A v \in Q : Vote(v, l.entry.term, c) \in granted'
                        /\ hs'[c].term >= l.entry.term
                        /\ hs'[c].term = l.entry.term => role'[c] # "candidate"
    BY DEF LinksElected
  <2>1. CASE l \in Links
    <3>1. PICK c \in Server, Q \in SUBSET Voters :
            /\ Cardinality(Q) > Cardinality(Voters) \div 2
            /\ \A v \in Q : Vote(v, l.entry.term, c) \in granted
            /\ hs[c].term >= l.entry.term
            /\ hs[c].term = l.entry.term => role[c] # "candidate"
      BY <2>1 DEF LogInv, LinksElected
    <3>2. \A v \in Q : Vote(v, l.entry.term, c) \in granted'
      BY <3>1 DEF LogStep
    <3>3. l.entry.term \in Nat
      BY <2>1, LinkTypes
    <3>4. hs'[c].term >= l.entry.term
      BY <1>2, <3>1, <3>3
    <3>5. ASSUME hs'[c].term = l.entry.term PROVE role'[c] # "candidate"
      <4>1. hs[c].term = hs'[c].term /\ role[c] # "candidate"
        BY <1>2, <3>1, <3>3, <3>5
      <4>2. ~(hs'[c].term > hs[c].term)
        BY <1>2, <4>1
      <4>3. CASE c = i
        BY <4>1, <4>2, <4>3 DEF LogStep, RoleStep
      <4>4. CASE c # i
        BY <4>1, <4>4 DEF LogStep
      <4> QED BY <4>3, <4>4
    <3> QED BY <3>1, <3>2, <3>4, <3>5
  <2>2. CASE Fresh1(l)
    <3> DEFINE Q == votes'[i]
    <3>1. /\ Cardinality(Q) > Cardinality(Voters) \div 2
          /\ \A v \in Q : v \in Voters /\ Vote(v, l.entry.term, i) \in granted'
      BY <2>2 DEF ElectionInv, VotesGenuine, LeadersElected
    <3>2. hs'[i].term >= l.entry.term /\ role'[i] # "candidate"
      BY <1>2, <2>2
    <3> HIDE DEF Q
    <3> QED BY <3>1, <3>2
  <2> QED BY <1>1, <2>1, <2>2
<1>9. LeadersAhead'
  <2> SUFFICES ASSUME NEW j \in Server, role'[j] = "leader", NEW l \in Links',
                      l.entry.term = hs'[j].term
               PROVE  l.entry.index <= Len(node'[j].log.ents)
    BY DEF LeadersAhead
  <2>1. CASE l \in Links /\ j # i
    BY <2>1 DEF LogStep, LogInv, LeadersAhead
  <2>2. CASE l \in Links /\ j = i
    <3>1. role[i] = "leader" /\ hs'[i].term = hs[i].term
      BY <2>2, NewLeader
    <3>2. l.entry.index <= len
      BY <2>2, <3>1 DEF LogInv, LeadersAhead
    <3>3. len <= Len(b.ents)
      BY <2>2 DEF LogStep, Continues, Longer
    <3>4. l.entry.index \in Int
      BY <2>2, LinkTypes
    <3> QED BY <1>2, <2>2, <3>2, <3>3, <3>4
  <2>3. CASE Fresh1(l)
    <3>1. j = i
      BY <2>3 DEF ElectionSafety
    <3> QED BY <1>2, <2>3, <3>1
  <2> QED BY <1>1, <2>1, <2>2, <2>3
<1> QED BY <1>4, <1>5, <1>6, <1>7, <1>8, <1>9 DEF LogInv

-----------------------------------------------------------------------------
(***************************************************************************)
(* Every action is such a step.                                            *)
(***************************************************************************)

LEMMA PlainNode ==
    ASSUME TypeOK, LogInv, Uncompacted, NEW i \in Server
    PROVE  Plain(node[i]) /\ node[i].out = {} /\ hs[i].term \in Nat /\ node[i] \in Nodes
BY DEF TypeOK, LogInv, LogsPlain, Uncompacted, Plain

\* What a step does to terms and roles.
RolesStep(i) ==
    /\ \A j \in Server : j # i => hs'[j] = hs[j] /\ role'[j] = role[j]
    /\ hs'[i].term >= hs[i].term
    /\ granted \subseteq granted'
    /\ RoleStep(i)

LEMMA SameRoles ==
    ASSUME TypeOK, NEW i \in Server, UNCHANGED <<hs, role, granted>>
    PROVE  RolesStep(i) /\ hs'[i].term = hs[i].term /\ role'[i] = role[i]
<1>1. hs[i].term \in Nat
  BY LogTypes
<1> QED BY <1>1 DEF RolesStep, RoleStep

LEMMA FollowerRoles ==
    ASSUME TypeOK, NEW i \in Server, NEW term \in Nat, BecomeFollower(i, term), granted' = granted
    PROVE  RolesStep(i) /\ role'[i] = "follower"
<1>1. hs[i].term \in Nat
  BY LogTypes
<1>2. /\ hs' = [hs EXCEPT ![i] = SteppedDown(i, term)]
      /\ role' = [role EXCEPT ![i] = "follower"]
  BY DEF BecomeFollower
<1>3. SteppedDown(i, term).term >= hs[i].term
  BY <1>1 DEF SteppedDown, Persisted
<1> QED BY <1>2, <1>3 DEF RolesStep, RoleStep, TypeOK

\* A handler whose record is plain sends copies of its log only.
LEMMA FinishLogs ==
    ASSUME TypeOK, LogInv, NEW i \in Server, NEW n, Plain(n), NEW done, NEW replies, NEW calls,
           Finish(i, n, done, replies, calls),
           \A m \in replies \cup calls :
              m.type \notin {"AppendEntries", "InstallSnapshot", "InstallSnapshotReply"},
           \A m \in calls : m.type # "AppendEntriesReply"
    PROVE  /\ \A j \in Server : j # i => node'[j] = node[j]
           /\ node'[i].log = n.log /\ node'[i].wal = n.log /\ node'[i].snap = n.snap
           /\ \A m \in msgs' : m.type = "AppendEntries" => m \in msgs \/ CopyOf(m, n.log)
           /\ NoTransfers'
<1> DEFINE sent == {x \in (msgs \ done) \cup replies : Live(x)}
           rest == [n EXCEPT !.out = {}]
<1>1. n \in Nodes /\ n.wal = n.log
  BY DEF Plain
<1>2. node' = [node EXCEPT ![i] = rest] /\ msgs' \in Networks(sent, calls \cup n.out)
  BY DEF Finish
<1>3. rest.log = n.log /\ rest.wal = n.wal /\ rest.snap = n.snap
  BY <1>1 DEF Nodes
<1> HIDE DEF rest
<1>4. /\ \A j \in Server : j # i => node'[j] = node[j]
      /\ node'[i] = rest
  BY <1>2 DEF TypeOK
<1>5. sent \subseteq msgs \cup replies /\ \A x \in sent : Live(x)
  OBVIOUS
<1> HIDE DEF sent
<1>6. \A m \in msgs' : m \in sent \/ m \in calls \/ m \in n.out
  BY <1>2, NetworksBound
<1>7. \A m \in n.out : CopyOf(m, n.log) /\ m.type = "AppendEntries"
  BY DEF Plain, CopyOf
<1>8. ASSUME NEW m \in msgs' PROVE m.type = "AppendEntries" => m \in msgs \/ CopyOf(m, n.log)
  BY <1>5, <1>6, <1>7
<1>9. ASSUME NEW m \in msgs'
      PROVE  /\ m.type \notin {"InstallSnapshot", "InstallSnapshotReply"}
             /\ m.type = "AppendEntriesReply" => hs'[m.to].term = m.sent /\ role'[m.to] = "leader"
  <2>1. \A x \in msgs : x.type \notin {"InstallSnapshot", "InstallSnapshotReply"}
    BY DEF LogInv, NoTransfers
  <2>2. Live(m) /\ m.type = "AppendEntriesReply" => hs'[m.to].term = m.sent /\ role'[m.to] = "leader"
    BY DEF Live, Awaits
  <2>3. CASE m \in n.out
    BY <1>7, <2>3
  <2>4. CASE m \in calls
    BY <2>4
  <2>5. CASE m \in sent
    BY <1>5, <2>1, <2>2, <2>5
  <2> QED BY <1>6, <2>3, <2>4, <2>5
<1>10. NoTransfers'
  BY <1>9 DEF NoTransfers
<1> QED BY <1>1, <1>3, <1>4, <1>8, <1>10

LEMMA FinishStep ==
    ASSUME TypeOK, LogInv, NEW i \in Server, NEW n, Plain(n), NEW done, NEW replies, NEW calls,
           Finish(i, n, done, replies, calls),
           \A m \in replies \cup calls :
              m.type \notin {"AppendEntries", "InstallSnapshot", "InstallSnapshotReply"},
           \A m \in calls : m.type # "AppendEntriesReply",
           RolesStep(i),
           \/ role'[i] = "leader" /\ Longer(node[i].log, n.log, hs'[i].term)
           \/ role'[i] # "leader" /\ \A x \in 1..Len(n.log.ents) : LogLink(n.log, x) \in Links
    PROVE  LogStep(i)
<1>1. /\ \A j \in Server : j # i => node'[j] = node[j]
      /\ node'[i].log = n.log /\ node'[i].wal = n.log
      /\ \A m \in msgs' : m.type = "AppendEntries" => m \in msgs \/ CopyOf(m, n.log)
      /\ NoTransfers'
  BY FinishLogs
<1>2. Aligned(n.log)
  BY DEF Plain
<1>3. Continues(i)
  BY <1>1 DEF Continues
<1> QED BY <1>1, <1>2, <1>3 DEF LogStep, RolesStep

LEMMA LogLinks ==
    ASSUME NEW i \in Server
    PROVE  \A x \in 1..Len(node[i].log.ents) : LogLink(node[i].log, x) \in Links
BY DEF Links

\* A leader that appends to its log, or a node that leaves its log alone.
LEMMA GrownStep ==
    ASSUME TypeOK, LogInv, NEW i \in Server, NEW n, NEW done, NEW replies, NEW calls,
           Finish(i, n, done, replies, calls),
           \A m \in replies \cup calls :
              m.type \notin {"AppendEntries", "InstallSnapshot", "InstallSnapshotReply"},
           \A m \in calls : m.type # "AppendEntriesReply",
           RolesStep(i),
           Grown(node[i], n, hs'[i].term),
           role'[i] = "leader" \/ n.log = node[i].log
    PROVE  LogStep(i)
<1>1. Plain(n) /\ Longer(node[i].log, n.log, hs'[i].term)
  BY DEF Grown
<1>2. \/ role'[i] = "leader" /\ Longer(node[i].log, n.log, hs'[i].term)
      \/ role'[i] # "leader" /\ \A x \in 1..Len(n.log.ents) : LogLink(n.log, x) \in Links
  BY <1>1, LogLinks
<1> QED BY <1>1, <1>2, FinishStep

\* The same for a handler without messages of its own.
LEMMA LocalGrownStep ==
    ASSUME TypeOK, LogInv, NEW i \in Server, NEW n, NEW done,
           Finish(i, n, done, {}, {}), RolesStep(i),
           Grown(node[i], n, hs'[i].term),
           role'[i] = "leader" \/ n.log = node[i].log
    PROVE  LogStep(i)
<1> DEFINE none == {}
<1>1. Finish(i, n, done, none, none) /\ none = {}
  OBVIOUS
<1> HIDE DEF none
<1> QED BY <1>1, GrownStep

\* The end of a tick.
LEMMA HousekeepingStep ==
    ASSUME TypeOK, LogInv, NEW i \in Server, NEW n, NEW calls,
           Plain(node[i]), Grown(node[i], n, hs'[i].term),
           Finish(i, Housekeeping(n), {}, {}, calls), Uncompacted',
           \A m \in calls : m.type = "RequestVote",
           RolesStep(i),
           role'[i] = "leader" \/ n.log = node[i].log
    PROVE  LogStep(i)
<1> DEFINE b == Housekeeping(n)
           none == {}
<1>1. Plain(n)
  BY DEF Grown
<1>2. b \in Nodes /\ node' = [node EXCEPT ![i] = [b EXCEPT !.out = {}]]
  BY <1>1, HousekeepingType DEF Finish, Plain
<1> HIDE DEF b
<1>3. node'[i].snap = b.snap
  <2>1. [b EXCEPT !.out = {}].snap = b.snap
    BY <1>2 DEF Nodes
  <2> QED BY <1>2, <2>1 DEF TypeOK
<1>4. b.snap.index = 0
  BY <1>3 DEF Uncompacted
<1>5. Quiet(n, b) /\ b \in Nodes
  BY <1>1, <1>4, HousekeepingQuiet DEF b
<1>6. Grown(n, b, hs'[i].term) /\ b.log = n.log
  BY <1>1, <1>5, QuietGrows DEF Quiet
<1>7. Finish(i, b, none, none, calls) /\ none = {}
  BY DEF b
<1> HIDE DEF none
<1>8. Grown(node[i], b, hs'[i].term)
  BY <1>6, GrownTrans
<1> QED BY <1>6, <1>7, <1>8, GrownStep

LEMMA TickLogs ==
    ASSUME TypeOK, LogInv, Uncompacted, Uncompacted', NEW i \in Server, Heartbeat(i) \/ IdleTick(i)
    PROVE  LogStep(i)
<1> DEFINE none == {}
<1>1. Plain(node[i]) /\ hs[i].term \in Nat /\ \A m \in none : m.type = "RequestVote"
  BY PlainNode
<1>2. RolesStep(i) /\ hs'[i].term = hs[i].term /\ role'[i] = role[i]
  BY SameRoles DEF Heartbeat, IdleTick
<1>3. CASE Heartbeat(i)
  <2> DEFINE n == Bcast(node[i], i, hs[i].term)
  <2>1. role[i] = "leader" /\ Finish(i, Housekeeping(n), {}, {}, none)
    BY <1>3 DEF Heartbeat
  <2>2. Grown(node[i], n, hs'[i].term)
    BY <1>1, <1>2, BcastGrows
  <2> HIDE DEF n, none
  <2> QED BY <1>1, <1>2, <2>1, <2>2, HousekeepingStep
<1>4. CASE IdleTick(i)
  <2>1. Finish(i, Housekeeping(node[i]), {}, {}, none)
    BY <1>4 DEF IdleTick
  <2>2. Grown(node[i], node[i], hs'[i].term)
    BY <1>1, QuietGrows DEF Quiet, Plain
  <2> HIDE DEF none
  <2> QED BY <1>1, <1>2, <2>1, <2>2, HousekeepingStep
<1> QED BY <1>3, <1>4

LEMMA ProposeLogs ==
    ASSUME TypeOK, LogInv, Uncompacted, NEW i \in Server, NEW v \in Value, Propose(i, v)
    PROVE  LogStep(i)
<1> DEFINE term == hs[i].term
           a == AppendData(node[i], i, term, "normal", v)
           w == [a EXCEPT !.waiting = @ \cup {LastIndex(a.log)}]
           c == MaybeCommit(w, i, term)
           b == Bcast(c, i, term)
<1>1. Plain(node[i]) /\ term \in Nat
  BY PlainNode
<1>2. RolesStep(i) /\ hs'[i].term = term /\ role'[i] = role[i] /\ role[i] = "leader"
  BY SameRoles DEF Propose
<1>3. Finish(i, b, {}, {}, {})
  BY DEF Propose
<1>4. Grown(node[i], a, term) /\ Plain(a)
  <2>1. <<"normal", v>> \in Payloads
    BY DEF Payloads
  <2> QED BY <1>1, <2>1, AppendDataGrows DEF Grown
<1> HIDE DEF a, term
<1>5. w \in Nodes /\ Quiet(a, w)
  <2>1. a \in Nodes
    BY <1>4 DEF Plain
  <2>2. LastIndex(a.log) \in Nat
    BY <2>1, LogReads DEF Nodes
  <2> QED BY <2>1, <2>2 DEF Nodes, Quiet
<1> HIDE DEF w
<1>6. Grown(a, w, term) /\ Plain(w)
  BY <1>4, <1>5, QuietGrows DEF Grown
<1>7. Grown(w, c, term) /\ Plain(c)
  BY <1>1, <1>6, MaybeCommitGrows DEF Grown
<1> HIDE DEF c
<1>8. Grown(c, b, term)
  BY <1>1, <1>7, BcastGrows
<1> HIDE DEF b
<1>9. Grown(node[i], b, term)
  <2>1. Grown(node[i], w, term)
    BY <1>1, <1>4, <1>6, GrownTrans
  <2>2. Grown(node[i], c, term)
    BY <1>1, <1>7, <2>1, GrownTrans
  <2> QED BY <1>1, <1>8, <2>2, GrownTrans
<1> QED BY <1>2, <1>3, <1>9, LocalGrownStep

LEMMA LinearizableReadLogs ==
    ASSUME TypeOK, LogInv, Uncompacted, NEW i \in Server, LinearizableRead(i)
    PROVE  LogStep(i)
<1> DEFINE n == node[i]
           term == hs[i].term
           r == Read(i, n.commit, term, Promised)
           a == [n EXCEPT !.reads = @ \cup {r}]
           c == Bcast(a, i, term)
           b == TryFinishReads(c)
<1>1. Plain(node[i]) /\ term \in Nat /\ n \in Nodes
  BY PlainNode
<1>2. RolesStep(i) /\ hs'[i].term = term /\ role'[i] = role[i] /\ role[i] = "leader"
  BY SameRoles DEF LinearizableRead
<1>3. Finish(i, b, {}, {}, {})
  BY DEF LinearizableRead
<1>4. r \in Reads
  <2>1. Promised \subseteq Entries
    BY DEF Promised, TypeOK, Nodes
  <2>2. n.commit \in Nat
    BY <1>1 DEF Nodes
  <2> QED BY <1>1, <2>1, <2>2 DEF Read, Reads
<1> HIDE DEF r, term
<1>5. a \in Nodes /\ Quiet(n, a)
  BY <1>1, <1>4 DEF Nodes, Quiet
<1> HIDE DEF a
<1>6. Grown(n, a, term) /\ Plain(a)
  BY <1>1, <1>5, QuietGrows DEF Grown
<1>7. Grown(a, c, term) /\ Plain(c)
  BY <1>1, <1>6, BcastGrows DEF Grown
<1> HIDE DEF c
<1>8. Grown(c, b, term)
  <2>1. c \in Nodes
    BY <1>7 DEF Plain
  <2>2. Quiet(c, b)
    BY <1>1, <2>1, QuietSteps
  <2>3. b \in Nodes
    BY <2>1, TryFinishReadsType
  <2> QED BY <1>7, <2>2, <2>3, QuietGrows
<1> HIDE DEF b
<1>9. Grown(n, b, term)
  <2>1. Grown(n, c, term)
    BY <1>1, <1>6, <1>7, GrownTrans
  <2> QED BY <1>1, <1>8, <2>1, GrownTrans
<1> QED BY <1>2, <1>3, <1>9, LocalGrownStep

LEMMA ChangeMembershipLogs ==
    ASSUME TypeOK, LogInv, Uncompacted, NEW i \in Server, NEW c \in Changes, ChangeMembership(i, c)
    PROVE  LogStep(i)
<1> DEFINE next == Changed(node[i].conf, c)
           term == hs[i].term
           b    == Accept(node[i], i, term, "config", next)
<1>1. Plain(node[i]) /\ term \in Nat /\ node[i] \in Nodes
  BY PlainNode
<1>2. RolesStep(i) /\ hs'[i].term = term /\ role'[i] = role[i] /\ role[i] = "leader"
  BY SameRoles DEF ChangeMembership
<1>3. Finish(i, b, {}, {}, {})
  BY DEF ChangeMembership
<1>4. <<"config", next>> \in Payloads
  <2>1. node[i].conf \in Membership
    BY <1>1 DEF Nodes
  <2>2. c.add \in Server \cup {None}
    BY BoundsAssumption
  <2>3. next \in Membership
    BY <2>1, <2>2 DEF Changed, Membership
  <2> QED BY <2>3 DEF Payloads
<1>5. Grown(node[i], b, term)
  BY <1>1, <1>4, AcceptGrows
<1> HIDE DEF b
<1> QED BY <1>2, <1>3, <1>5, LocalGrownStep

LEMMA CampaignLogs ==
    ASSUME TypeOK, LogInv, Uncompacted, Uncompacted', NEW i \in Server, Campaign(i)
    PROVE  LogStep(i)
<1> DEFINE term == hs[i].term + 1
           wins == 1 >= Quorum(node[i].conf)
           n    == IF wins THEN Elected(node[i], i, term) ELSE node[i]
           calls == IF wins THEN {} ELSE VoteCalls(i, term)
<1>1. Plain(node[i]) /\ term \in Nat /\ hs[i].term \in Nat
  BY PlainNode
<1>2. /\ hs' = [hs EXCEPT ![i] = Persisted(i, term, i)]
      /\ granted \subseteq granted'
      /\ role' = [role EXCEPT ![i] = IF wins THEN "leader" ELSE "candidate"]
      /\ Finish(i, Housekeeping(n), {}, {}, calls)
  BY DEF Campaign
<1>3. hs'[i].term = term
  BY <1>2 DEF Persisted, TypeOK
<1>4. RolesStep(i)
  <2> HIDE DEF wins
  <2>1. hs'[i].term > hs[i].term
    BY <1>1, <1>3
  <2> QED BY <1>2, <2>1, <1>1, <1>3 DEF RolesStep, RoleStep
<1>5. \A m \in calls : m.type = "RequestVote"
  BY DEF VoteCalls
<1>6. Grown(node[i], n, hs'[i].term)
  <2>1. Grown(node[i], node[i], term)
    BY <1>1, QuietGrows DEF Quiet, Plain
  <2> QED BY <1>1, <1>3, <2>1, ElectedGrows
<1>7. role'[i] = "leader" \/ n.log = node[i].log
  BY <1>2 DEF TypeOK
<1> HIDE DEF n, calls
<1> QED BY <1>1, <1>2, <1>4, <1>5, <1>6, <1>7, HousekeepingStep

LEMMA HandleRequestVoteLogs ==
    ASSUME TypeOK, LogInv, Uncompacted, NEW m \in msgs, HandleRequestVote(m)
    PROVE  LogStep(m.to)
<1> DEFINE i     == m.to
           newer == m.term > hs[i].term
           known == SteppedDown(i, m.term)
           grant == /\ m.term >= hs[i].term
                    /\ known.votedFor \in {None, m.from}
                    /\ UpToDate(node[i].log, m.lastIndex, m.lastTerm)
           h     == IF grant THEN Persisted(i, m.term, m.from) ELSE known
           n     == IF newer THEN FailPending(node[i]) ELSE node[i]
           reply == VoteReply(m, known.term, grant)
           none  == {}
<1>1. /\ hs' = [hs EXCEPT ![i] = h]
      /\ role' = [role EXCEPT ![i] = IF newer THEN "follower" ELSE @]
      /\ granted \subseteq granted'
      /\ Finish(i, n, Delivered(m), {reply}, none)
  BY DEF HandleRequestVote
<1>2. i \in Server /\ m.term \in Nat /\ hs[i].term \in Nat
  BY MessageFields DEF TypeOK
<1>3. hs'[i] = h /\ (newer => h.term = m.term) /\ (~newer => h.term = hs[i].term)
  <2>1. known.term = IF newer THEN m.term ELSE hs[i].term
    BY DEF SteppedDown, Persisted
  <2>2. grant => m.term >= hs[i].term
    OBVIOUS
  <2>3. Persisted(i, m.term, m.from).term = m.term
    BY DEF Persisted
  <2> HIDE DEF known, grant
  <2>4. h.term = IF grant THEN m.term ELSE known.term
    BY <2>3
  <2> HIDE DEF h
  <2>5. hs'[i] = h
    BY <1>1, <1>2 DEF TypeOK
  <2>6. CASE newer
    BY <1>2, <2>1, <2>4, <2>5, <2>6
  <2>7. CASE ~newer
    BY <1>2, <2>1, <2>2, <2>4, <2>5, <2>7
  <2> QED BY <2>6, <2>7
<1>4. RolesStep(i)
  <2> HIDE DEF h
  <2>1. hs'[i].term >= hs[i].term
    <3>1. CASE newer
      BY <1>2, <1>3, <3>1
    <3>2. CASE ~newer
      BY <1>2, <1>3, <3>2
    <3> QED BY <3>1, <3>2
  <2>2. RoleStep(i)
    BY <1>1, <1>2, <1>3 DEF RoleStep, TypeOK
  <2> QED BY <1>1, <1>2, <2>1, <2>2 DEF RolesStep, TypeOK
<1>5. Grown(node[i], n, hs'[i].term) /\ n.log = node[i].log
  <2>0. Plain(node[i]) /\ node[i] \in Nodes /\ 0 \in Nat
    BY <1>2, PlainNode
  <2>1. Quiet(node[i], n) /\ n \in Nodes
    <3>1. Quiet(node[i], FailPending(node[i])) /\ FailPending(node[i]) \in Nodes
      BY <1>2, <2>0, QuietSteps, FailPendingType
    <3> QED BY <2>0, <3>1 DEF Quiet
  <2> HIDE DEF n
  <2>2. Grown(node[i], n, hs'[i].term)
    BY <2>0, <2>1, QuietGrows
  <2> QED BY <2>1, <2>2 DEF Quiet
<1>6. reply.type = "RequestVoteReply"
  BY DEF VoteReply
<1> HIDE DEF n, reply, h
<1>7. /\ \A x \in {reply} \cup none :
            x.type \notin {"AppendEntries", "InstallSnapshot", "InstallSnapshotReply"}
      /\ \A x \in none : x.type # "AppendEntriesReply"
  BY <1>6
<1> HIDE DEF none
<1> QED BY <1>1, <1>2, <1>4, <1>5, <1>7, GrownStep

\* A callback that learns of a later term.
LEMMA StepDownLogs ==
    ASSUME TypeOK, LogInv, Uncompacted, NEW i \in Server, NEW term \in Nat, NEW done,
           BecomeFollower(i, term), granted' = granted, Finish(i, FailPending(node[i]), done, {}, {})
    PROVE  LogStep(i)
<1> DEFINE n == FailPending(node[i])
<1>1. Plain(node[i]) /\ hs[i].term \in Nat /\ node[i] \in Nodes
  BY PlainNode
<1>2. Quiet(node[i], n) /\ n \in Nodes
  BY <1>1, QuietSteps, FailPendingType
<1> HIDE DEF n
<1>3. Grown(node[i], n, hs'[i].term) /\ n.log = node[i].log
  BY <1>1, <1>2, QuietGrows DEF Quiet
<1>4. RolesStep(i)
  BY FollowerRoles
<1>5. Finish(i, n, done, {}, {})
  BY DEF n
<1> QED BY <1>3, <1>4, <1>5, LocalGrownStep

LEMMA OnVoteReplyLogs ==
    ASSUME TypeOK, LogInv, Uncompacted, ElectionInv, NEW m \in msgs, OnVoteReply(m)
    PROVE  LogStep(m.to)
<1> DEFINE i       == m.to
           counted == votes[i] \cup {m.from}
           wins    == Cardinality(counted) >= Quorum(node[i].conf)
           n       == IF wins THEN Elected(node[i], i, hs[i].term) ELSE node[i]
<1>1. i \in Server /\ m.term \in Nat /\ hs[i].term \in Nat /\ Plain(node[i]) /\ granted' = granted
  BY MessageFields, PlainNode DEF TypeOK, OnVoteReply
<1>2. CASE /\ BecomeFollower(i, m.term)
           /\ Finish(i, FailPending(node[i]), {m}, {}, {})
  BY <1>1, <1>2, StepDownLogs
<1>3. CASE /\ m.granted /\ UNCHANGED hs
           /\ role'  = [role EXCEPT ![i] = IF wins THEN "leader" ELSE @]
           /\ Finish(i, n, {m}, {}, {})
  <2>1. role[i] = "candidate"
    BY <1>3 DEF ElectionInv, BallotsGenuine, OnVoteReply
  <2>2. RolesStep(i) /\ (role'[i] = "leader" \/ ~wins) /\ hs'[i].term = hs[i].term
    <3> HIDE DEF wins
    <3> QED BY <1>1, <1>3, <2>1 DEF RolesStep, RoleStep, TypeOK
  <2>3. Grown(node[i], n, hs'[i].term)
    <3>1. Grown(node[i], node[i], hs[i].term)
      BY <1>1, QuietGrows DEF Quiet, Plain
    <3> QED BY <1>1, <2>2, <3>1, ElectedGrows
  <2>4. role'[i] = "leader" \/ n.log = node[i].log
    BY <2>2
  <2> HIDE DEF n
  <2> QED BY <1>1, <1>3, <2>2, <2>3, <2>4, LocalGrownStep
<1> QED BY <1>2, <1>3 DEF OnVoteReply

LEMMA OnAppendReplyLogs ==
    ASSUME TypeOK, LogInv, Uncompacted, NEW m \in msgs, OnAppendReply(m)
    PROVE  LogStep(m.to)
<1> DEFINE i == m.to
           n == IF m.success THEN Acknowledged(node[i], i, hs[i].term, m)
                ELSE BackedUp(node[i], i, hs[i].term, m)
<1>1. /\ i \in Server /\ m.term \in Nat /\ hs[i].term \in Nat /\ Plain(node[i])
      /\ m \in AppendReplies /\ granted' = granted
  BY MessageFields, PlainNode DEF TypeOK, OnAppendReply
<1>2. CASE BecomeFollower(i, m.term) /\ Finish(i, FailPending(node[i]), {m}, {}, {})
  BY <1>1, <1>2, StepDownLogs
<1>3. CASE UNCHANGED <<hs, role, votes>> /\ Finish(i, n, {m}, {}, {})
  <2>1. role[i] = "leader"
    BY DEF OnAppendReply, LogInv, NoTransfers
  <2>2. RolesStep(i) /\ role'[i] = "leader" /\ hs'[i].term = hs[i].term
    BY <1>1, <1>3, <2>1, SameRoles
  <2>3. Grown(node[i], n, hs'[i].term)
    BY <1>1, <2>2, AcknowledgedGrows, BackedUpGrows
  <2> HIDE DEF n
  <2> QED BY <1>1, <1>3, <2>2, <2>3, LocalGrownStep
<1> QED BY <1>2, <1>3 DEF OnAppendReply

\* The log after an accepted call, or after the first entries of it, has known links only.
LEMMA AcceptedSplices ==
    ASSUME TypeOK, LogInv, Uncompacted, NEW m \in msgs, m.type = "AppendEntries",
           NEW n, Plain(n), n.out = {}, n.log = node[m.to].log, ~Conflicts(n.log, m),
           NEW es \in Seq(Entries), Len(es) <= Len(m.ents), \A k \in 1..Len(es) : es[k] = m.ents[k]
    PROVE  LET t == TakeEntries(n, es)
           IN  /\ Plain(t) /\ t.out = {} /\ Spliced(n.log, m.prevIndex, es, t.log)
               /\ \A x \in 1..Len(t.log.ents) : LogLink(t.log, x) \in Links
<1> DEFINE log  == n.log
           prev == m.prevIndex
           t    == TakeEntries(n, es)
<1>1. m \in AppendCalls /\ m.to \in Server
  BY MessageFields DEF TypeOK
<1>2. /\ prev \in Nat /\ m.prevTerm \in Nat /\ Len(es) \in Nat /\ Len(m.ents) \in Nat
      /\ log \in Logs /\ Aligned(log) /\ Len(log.ents) \in Nat
  BY <1>1, PlainLog DEF AppendCalls
<1>3. prev \in 0..Len(log.ents)
  BY <1>2, AlignedReads DEF Conflicts
<1>4. Term(log, prev) = m.prevTerm
  <2>1. CASE prev > 0
    BY <1>2, <2>1 DEF Conflicts
  <2>2. CASE prev = 0
    <3>1. m.prevTerm = 0
      BY <2>2 DEF LogInv, CallsAligned, AppendsUnderWay
    <3>2. Term(log, prev) = 0
      BY <1>2, <2>2, AlignedReads
    <3> QED BY <3>1, <3>2
  <2> QED BY <1>2, <2>1, <2>2
<1>5. \A k \in 1..Len(es) : k \in 1..Len(m.ents) /\ (k # 1 => k - 1 \in 1..Len(es))
  BY <1>2
<1>6. \A k \in 1..Len(es) : es[k].index = prev + k
  BY <1>5 DEF LogInv, CallsAligned, AppendsUnderWay
<1> HIDE DEF log, prev, t
<1>7. Plain(t) /\ t.out = {} /\ Spliced(log, prev, es, t.log)
  BY <1>3, <1>6, TakeEntriesSplices DEF t, log, prev
<1>8. \A k \in 1..Len(es) : LinkOf(es[k], Before(log, prev, es, k)) = CallLink(m, k)
  BY <1>4, <1>5 DEF Before, CallLink
<1>9. \A k \in 1..Len(es) : CallLink(m, k) \in Links
  BY <1>5 DEF Links, AppendsUnderWay
<1>10. \A x \in 1..Len(log.ents) : LogLink(log, x) \in Links
  BY <1>1, LogLinks DEF log
<1> QED BY <1>7, <1>8, <1>9, <1>10 DEF Spliced, t, log, prev

LEMMA HandleAppendEntriesLogs ==
    ASSUME TypeOK, LogInv, Uncompacted, NEW m \in msgs, HandleAppendEntries(m)
    PROVE  LogStep(m.to)
<1> DEFINE i == m.to
           stepsDown == m.term > hs[i].term \/ role[i] # "follower"
           n     == IF stepsDown THEN FailPending(node[i]) ELSE node[i]
           t     == TakeEntries(n, m.ents)
           taken == FollowCommit(t, m.commit)
           late     == {AppendReply(m, hs[i].term, FALSE, 0, 0, 0)}
           refused  == {Rejection(n.log, m, m.term)}
           accepted == {AppendReply(m, m.term, TRUE, LastIndex(taken.log), 0, 0)}
           none     == {}
<1>1. m \in AppendCalls /\ m.type = "AppendEntries" /\ i \in Server /\ m.term \in Nat
  BY MessageFields DEF TypeOK, HandleAppendEntries
<1>2. Plain(node[i]) /\ node[i].out = {} /\ hs[i].term \in Nat /\ node[i] \in Nodes
  BY <1>1, PlainNode
<1>3. Quiet(node[i], n) /\ n \in Nodes
  <2>1. Quiet(node[i], FailPending(node[i])) /\ FailPending(node[i]) \in Nodes
    BY <1>1, <1>2, QuietSteps, FailPendingType
  <2> QED BY <1>2, <2>1 DEF Quiet
<1>4. /\ \A x \in late \cup refused \cup accepted : x.type = "AppendEntriesReply"
  BY DEF AppendReply, Rejection
<1>5. granted' = granted
  BY DEF HandleAppendEntries
<1>6. /\ \/ /\ UNCHANGED <<hs, role, votes>>
            /\ Finish(i, node[i], Delivered(m), late, none)
         \/ /\ m.term >= hs[i].term
            /\ IF stepsDown THEN BecomeFollower(i, m.term) ELSE UNCHANGED <<hs, role, votes>>
            /\ IF Conflicts(n.log, m) THEN Finish(i, n, Delivered(m), refused, none)
                                      ELSE Finish(i, taken, Delivered(m), accepted, none)
  BY DEF HandleAppendEntries
<1>7. ASSUME ~Conflicts(node[i].log, m)
      PROVE  Plain(t) /\ \A x \in 1..Len(t.log.ents) : LogLink(t.log, x) \in Links
  <2> DEFINE es == m.ents
  <2>1. es \in Seq(Entries) /\ Len(es) <= Len(m.ents) /\ \A k \in 1..Len(es) : es[k] = m.ents[k]
    BY <1>1 DEF AppendCalls
  <2> HIDE DEF n
  <2>2. Plain(n) /\ n.out = {} /\ n.log = node[i].log
    BY <1>2, <1>3 DEF Plain, Quiet
  <2>3. ~Conflicts(n.log, m)
    BY <1>7, <2>2
  <2> HIDE DEF es
  <2> QED BY <1>1, <2>1, <2>2, <2>3, AcceptedSplices DEF es
<1>8. ASSUME Plain(t)
      PROVE  Plain(taken) /\ taken.log = t.log
  <2>1. t \in Nodes /\ m.commit \in Nat
    BY <1>1, <1>8 DEF AppendCalls, Plain
  <2> HIDE DEF t
  <2>2. Quiet(t, taken) /\ taken \in Nodes
    BY <1>1, <1>2, <2>1, QuietSteps, FollowCommitType
  <2> HIDE DEF taken
  <2>3. Grown(t, taken, 0)
    BY <1>8, <2>2, QuietGrows
  <2> QED BY <2>2, <2>3 DEF Grown, Quiet
<1>9. n.log = node[i].log
  BY <1>3 DEF Quiet
<1> HIDE DEF n, t, taken, late, refused, accepted
<1>10. /\ \A x \in late \cup none : x.type \notin {"AppendEntries", "InstallSnapshot", "InstallSnapshotReply"}
       /\ \A x \in refused \cup none : x.type \notin {"AppendEntries", "InstallSnapshot", "InstallSnapshotReply"}
       /\ \A x \in accepted \cup none : x.type \notin {"AppendEntries", "InstallSnapshot", "InstallSnapshotReply"}
       /\ \A x \in none : x.type # "AppendEntriesReply"
  BY <1>4
<1> HIDE DEF none
<1>11. CASE UNCHANGED <<hs, role, votes>> /\ Finish(i, node[i], Delivered(m), late, none)
  <2>1. RolesStep(i)
    BY <1>1, <1>5, <1>11, SameRoles
  <2>2. Grown(node[i], node[i], hs'[i].term)
    BY <1>2, QuietGrows DEF Quiet
  <2> QED BY <1>1, <1>10, <1>11, <2>1, <2>2, GrownStep
<1>12. CASE /\ m.term >= hs[i].term
            /\ IF stepsDown THEN BecomeFollower(i, m.term) ELSE UNCHANGED <<hs, role, votes>>
            /\ IF Conflicts(n.log, m) THEN Finish(i, n, Delivered(m), refused, none)
                                      ELSE Finish(i, taken, Delivered(m), accepted, none)
  <2>1. RolesStep(i) /\ role'[i] = "follower"
    <3>1. CASE stepsDown
      BY <1>1, <1>5, <1>12, <3>1, FollowerRoles
    <3>2. CASE ~stepsDown
      BY <1>1, <1>5, <1>12, <3>2, SameRoles
    <3> QED BY <3>1, <3>2
  <2>2. CASE Conflicts(n.log, m)
    <3>1. Grown(node[i], n, hs'[i].term)
      BY <1>2, <1>3, QuietGrows
    <3>2. Finish(i, n, Delivered(m), refused, none)
      BY <1>12, <2>2
    <3> QED BY <1>1, <1>9, <1>10, <2>1, <3>1, <3>2, GrownStep
  <2>3. CASE ~Conflicts(n.log, m)
    <3>1. Plain(t) /\ \A x \in 1..Len(t.log.ents) : LogLink(t.log, x) \in Links
      BY <1>7, <1>9, <2>3
    <3>2. Plain(taken) /\ taken.log = t.log
      BY <1>8, <3>1
    <3>3. Finish(i, taken, Delivered(m), accepted, none)
      BY <1>12, <2>3
    <3>4. role'[i] # "leader" /\ \A x \in 1..Len(taken.log.ents) : LogLink(taken.log, x) \in Links
      BY <2>1, <3>1, <3>2
    <3> QED BY <1>1, <1>10, <2>1, <3>2, <3>3, <3>4, FinishStep
  <2> QED BY <2>2, <2>3
<1> QED BY <1>6, <1>11, <1>12

\* Nobody transfers snapshots.
LEMMA InstallLogs ==
    ASSUME LogInv, NEW m \in msgs
    PROVE  ~HandleInstallSnapshot(m) /\ ~OnInstallReply(m) /\ ~InstallFails(m)
BY DEF LogInv, NoTransfers, HandleInstallSnapshot, OnInstallReply, InstallFails

\* A node that comes back has the log its WAL gives it.
LEMMA RebootStep ==
    ASSUME TypeOK, LogInv, NEW i \in Server, NEW hard \in HardStates, hard.term >= hs[i].term,
           NEW wal \in Logs, Aligned(wal), \A x \in 1..Len(wal.ents) : LogLink(wal, x) \in Links,
           NEW snap, snap.index = 0, Reboot(i, hard, wal, snap),
           NEW M \in SUBSET msgs,
           \A m \in msgs' : \/ m \in Orphaned(M, i)
                            \/ m.type = "RequestVoteReply"
                            \/ /\ m.type = "AppendEntriesReply"
                               /\ hs'[m.to].term = m.sent /\ role'[m.to] = "leader"
    PROVE  LogStep(i)
<1> DEFINE c == MaxOf(hard.commit, snap.index)
           h == [hard EXCEPT !.commit = c]
           b == Booted(i, wal, snap, c, node[i].acked, node[i].missed)
<1>1. /\ hs' = [hs EXCEPT ![i] = h]
      /\ role' = [role EXCEPT ![i] = "follower"]
      /\ node' = [node EXCEPT ![i] = b]
      /\ granted' = granted
  BY DEF Reboot
<1>2. h.term = hard.term
  BY DEF HardStates
<1>3. b.log = wal /\ b.wal = wal
  BY DEF Booted
<1> HIDE DEF b, h
<1>4. /\ \A j \in Server : j # i => hs'[j] = hs[j] /\ role'[j] = role[j] /\ node'[j] = node[j]
      /\ hs'[i].term = hard.term /\ role'[i] = "follower"
      /\ node'[i].log = wal /\ node'[i].wal = wal
  BY <1>1, <1>2, <1>3 DEF TypeOK
<1>5. \A m \in Orphaned(M, i) : m \in msgs /\ ~(m.type = "AppendEntriesReply" /\ m.to = i)
  BY DEF Orphaned, LogInv, NoTransfers, IsReply
<1>6. \A m \in msgs' : m.type = "AppendEntries" => m \in msgs
  BY <1>5
<1>7. ASSUME NEW m \in msgs'
      PROVE  /\ m.type \notin {"InstallSnapshot", "InstallSnapshotReply"}
             /\ m.type = "AppendEntriesReply" => hs'[m.to].term = m.sent /\ role'[m.to] = "leader"
  <2>1. CASE m \in Orphaned(M, i)
    <3>1. m \in msgs /\ (m.type = "AppendEntriesReply" => m.to # i) /\ m.to \in Server
      BY <1>5, <2>1, MessageFields DEF TypeOK
    <3> QED BY <1>4, <3>1 DEF LogInv, NoTransfers
  <2>2. CASE m \notin Orphaned(M, i)
    BY <2>2
  <2> QED BY <2>1, <2>2
<1>8. NoTransfers'
  BY <1>7 DEF NoTransfers
<1>9. Continues(i) /\ RoleStep(i)
  BY <1>4 DEF Continues, RoleStep
<1> QED BY <1>1, <1>4, <1>6, <1>8, <1>9 DEF LogStep

\* The log of a plain node, as its WAL.
LEMMA PlainWal ==
    ASSUME NEW n, Plain(n)
    PROVE  n.wal \in Logs /\ Aligned(n.wal) /\ n.wal = n.log /\ n.snap.index = 0
BY PlainLog DEF Plain

LEMMA RestartLogs ==
    ASSUME TypeOK, LogInv, Uncompacted, NEW i \in Server, Restart(i)
    PROVE  LogStep(i)
<1>1. Plain(node[i]) /\ hs[i] \in HardStates /\ hs[i].term >= hs[i].term
  BY PlainNode DEF TypeOK, HardStates
<1>2. /\ node[i].wal \in Logs /\ Aligned(node[i].wal) /\ node[i].snap.index = 0
      /\ \A x \in 1..Len(node[i].wal.ents) : LogLink(node[i].wal, x) \in Links
  BY <1>1, PlainWal, LogLinks
<1>3. Reboot(i, hs[i], node[i].wal, node[i].snap) /\ msgs' = Orphaned(msgs, i)
  BY DEF Restart
<1> QED BY <1>1, <1>2, <1>3, RebootStep

LEMMA CrashInHandlerLogs ==
    ASSUME TypeOK, LogInv, Uncompacted, NEW m \in msgs, CrashInHandler(m)
    PROVE  LogStep(m.to)
<1> DEFINE i     == m.to
           n     == node[i]
           known == SteppedDown(i, m.term)
           M     == msgs \ Delivered(m)
<1>1. i \in Server /\ m.term \in Nat /\ Plain(n) /\ n.out = {} /\ hs[i].term \in Nat
  BY MessageFields, PlainNode DEF TypeOK
<1>2. known \in HardStates /\ known.term >= hs[i].term
  <2>1. known \in HardStates
    BY <1>1, SteppedDownType
  <2>2. known.term = IF m.term > hs[i].term THEN m.term ELSE hs[i].term
    BY DEF SteppedDown, Persisted
  <2> HIDE DEF known
  <2> QED BY <1>1, <2>1, <2>2
<1>3. M \in SUBSET msgs /\ \A x \in msgs' : x \in Orphaned(M, i)
  BY DEF CrashInHandler
<1>4. \/ Reboot(i, known, n.wal, n.snap)
      \/ /\ m.type = "AppendEntries" /\ ~Conflicts(n.log, m)
         /\ \E k \in 1..Len(m.ents) : Reboot(i, known, TakeEntries(n, SubSeq(m.ents, 1, k)).wal, n.snap)
  BY DEF CrashInHandler
<1> HIDE DEF known, M
<1>5. CASE Reboot(i, known, n.wal, n.snap)
  <2>1. /\ n.wal \in Logs /\ Aligned(n.wal) /\ n.snap.index = 0
        /\ \A x \in 1..Len(n.wal.ents) : LogLink(n.wal, x) \in Links
    BY <1>1, PlainWal, LogLinks
  <2> QED BY <1>1, <1>2, <1>3, <1>5, <2>1, RebootStep
<1>6. ASSUME m.type = "AppendEntries", ~Conflicts(n.log, m), NEW k \in 1..Len(m.ents),
             Reboot(i, known, TakeEntries(n, SubSeq(m.ents, 1, k)).wal, n.snap)
      PROVE  LogStep(i)
  <2> DEFINE es == SubSeq(m.ents, 1, k)
             t  == TakeEntries(n, es)
  <2>1. m.ents \in Seq(Entries)
    <3>1. m \in AppendCalls
      BY <1>6, MessageFields DEF TypeOK
    <3> QED BY <3>1 DEF AppendCalls
  <2>2. es \in Seq(Entries) /\ Len(es) <= Len(m.ents) /\ \A x \in 1..Len(es) : es[x] = m.ents[x]
    BY <2>1
  <2> HIDE DEF es
  <2>3. Plain(t) /\ \A x \in 1..Len(t.log.ents) : LogLink(t.log, x) \in Links
    BY <1>1, <1>6, <2>2, AcceptedSplices
  <2>4. Reboot(i, known, t.wal, n.snap) /\ n.snap.index = 0
    BY <1>1, <1>6 DEF es, Plain
  <2> HIDE DEF t
  <2>5. t.wal \in Logs /\ Aligned(t.wal) /\ \A x \in 1..Len(t.wal.ents) : LogLink(t.wal, x) \in Links
    BY <2>3, PlainWal
  <2> QED BY <1>1, <1>2, <1>3, <2>4, <2>5, RebootStep
<1> QED BY <1>4, <1>5, <1>6

LEMMA StopWhileServingLogs ==
    ASSUME TypeOK, LogInv, Uncompacted, NEW m \in msgs, StopWhileServing(m)
    PROVE  LogStep(m.to)
<1> DEFINE i == m.to
           M == msgs \ Delivered(m)
<1>1. i \in Server /\ Plain(node[i]) /\ hs[i] \in HardStates /\ hs[i].term >= hs[i].term
  BY MessageFields, PlainNode DEF TypeOK, HardStates
<1>2. /\ node[i].wal \in Logs /\ Aligned(node[i].wal) /\ node[i].snap.index = 0
      /\ \A x \in 1..Len(node[i].wal.ents) : LogLink(node[i].wal, x) \in Links
  BY <1>1, PlainWal, LogLinks
<1>3. /\ Reboot(i, hs[i], node[i].wal, node[i].snap)
      /\ msgs' = Orphaned(M, i) \cup {r \in ZeroReply(m) : Live(r)}
      /\ M \in SUBSET msgs /\ ~IsReply(m)
  BY DEF StopWhileServing
<1>4. ASSUME NEW r \in ZeroReply(m), Live(r)
      PROVE  \/ r.type = "RequestVoteReply"
             \/ /\ r.type = "AppendEntriesReply"
                /\ hs'[r.to].term = r.sent /\ role'[r.to] = "leader"
  <2>1. m.type \in {"RequestVote", "AppendEntries"}
    <3>1. m.type \in {"RequestVote", "AppendEntries", "InstallSnapshot", "RequestVoteReply",
                      "AppendEntriesReply", "InstallSnapshotReply"}
      BY DEF TypeOK, Messages, Calls, VoteRequests, AppendCalls, SnapshotCalls, VoteReplies,
             AppendReplies, SnapshotReplies
    <3> QED BY <1>3, <3>1 DEF IsReply, LogInv, NoTransfers
  <2>2. CASE m.type = "RequestVote"
    BY <2>2 DEF ZeroReply, VoteReply
  <2>3. CASE m.type = "AppendEntries"
    <3>1. r.type = "AppendEntriesReply"
      BY <2>3 DEF ZeroReply, AppendReply
    <3> QED BY <1>4, <3>1 DEF Live, Awaits
  <2> QED BY <2>1, <2>2, <2>3
<1> HIDE DEF M
<1>5. \A x \in msgs' : \/ x \in Orphaned(M, i)
                       \/ x.type = "RequestVoteReply"
                       \/ /\ x.type = "AppendEntriesReply"
                          /\ hs'[x.to].term = x.sent /\ role'[x.to] = "leader"
  BY <1>3, <1>4
<1> QED BY <1>1, <1>2, <1>3, <1>5, RebootStep

LEMMA NextLogStep ==
    ASSUME TypeOK, LogInv, Uncompacted, Uncompacted', ElectionInv, Next
    PROVE  \E i \in Server : LogStep(i)
<1>1. ASSUME NEW i \in Server,
             \/ Campaign(i) \/ Heartbeat(i) \/ IdleTick(i) \/ Restart(i) \/ LinearizableRead(i)
             \/ \E v \in Value : Propose(i, v)
             \/ \E c \in Changes : ChangeMembership(i, c)
      PROVE  LogStep(i)
  BY <1>1, CampaignLogs, TickLogs, RestartLogs, LinearizableReadLogs, ProposeLogs,
     ChangeMembershipLogs
<1>2. ASSUME NEW m \in msgs,
             \/ HandleRequestVote(m) \/ OnVoteReply(m) \/ HandleAppendEntries(m)
             \/ OnAppendReply(m) \/ HandleInstallSnapshot(m) \/ OnInstallReply(m)
             \/ InstallFails(m) \/ CrashInHandler(m) \/ StopWhileServing(m)
      PROVE  m.to \in Server /\ LogStep(m.to)
  <2>1. m.to \in Server
    BY MessageFields DEF TypeOK
  <2> QED BY <1>2, <2>1, HandleRequestVoteLogs, OnVoteReplyLogs, HandleAppendEntriesLogs,
             OnAppendReplyLogs, InstallLogs, CrashInHandlerLogs, StopWhileServingLogs
<1> QED BY <1>1, <1>2 DEF Next

LEMMA InitLogs == Init => LogInv
<1> SUFFICES ASSUME Init PROVE LogInv
  OBVIOUS
<1>1. msgs = {} /\ \A i \in Server : /\ node[i].log = EmptyLog /\ node[i].wal = EmptyLog
                                     /\ role[i] = "follower"
  BY DEF Init, Booted, NoSnapshot
<1>2. EmptyLog.snapIndex = 0 /\ EmptyLog.snapTerm = 0 /\ Len(EmptyLog.ents) = 0
  BY DEF EmptyLog
<1>3. Links = {}
  BY <1>1, <1>2 DEF Links, AppendsUnderWay
<1>4. LogsPlain
  BY <1>1, <1>2 DEF LogsPlain, Aligned
<1> QED BY <1>1, <1>3, <1>4
        DEF LogInv, CallsAligned, AppendsUnderWay, NoTransfers, LinksUnique, LinksElected, LeadersAhead

LEMMA NextLogs ==
    ASSUME TypeOK, TypeOK', LogInv, Uncompacted, Uncompacted', ElectionInv, ElectionInv',
           ElectionSafety', IsFiniteSet(Voters), [Next]_vars
    PROVE  LogInv'
<1>1. CASE Next
  BY <1>1, NextLogStep, LogStepKeeps
<1>2. CASE UNCHANGED vars
  <2>1. UNCHANGED <<hs, role, node, msgs, granted>>
    BY <1>2 DEF vars
  <2>2. Links' = Links /\ AppendsUnderWay' = AppendsUnderWay
    BY <2>1 DEF Links, AppendsUnderWay
  <2>3. LogsPlain' /\ NoTransfers'
    BY <2>1 DEF LogInv, LogsPlain, NoTransfers
  <2>4. CallsAligned'
    BY <2>2 DEF LogInv, CallsAligned
  <2>5. LinksUnique'
    BY <2>2 DEF LogInv, LinksUnique
  <2>6. LinksElected'
    BY <2>1, <2>2 DEF LogInv, LinksElected
  <2>7. LeadersAhead'
    BY <2>1, <2>2 DEF LogInv, LeadersAhead
  <2> QED BY <2>3, <2>4, <2>5, <2>6, <2>7 DEF LogInv
<1> QED BY <1>1, <1>2

\* From an entry both logs have, the links lead back to the same entries.
LEMMA InvLogMatching ==
    ASSUME TypeOK, LogInv
    PROVE  LogMatching
<1> SUFFICES ASSUME NEW i \in Server, NEW j \in Server,
                    NEW x \in 1..MinOf(LastIndex(node[i].log), LastIndex(node[j].log)),
                    Term(node[i].log, x) = Term(node[j].log, x),
                    NEW y \in 1..x
             PROVE  At(node[i].log, y) = At(node[j].log, y)
  BY DEF LogMatching
<1> DEFINE a == node[i].log
           b == node[j].log
<1>1. a \in Logs /\ b \in Logs /\ Aligned(a) /\ Aligned(b)
  BY LogTypes DEF LogInv, LogsPlain
<1>2. /\ Len(a.ents) \in Nat /\ Len(b.ents) \in Nat
      /\ LastIndex(a) = Len(a.ents) /\ LastIndex(b) = Len(b.ents)
  BY <1>1, AlignedReads
<1>3. x \in Nat /\ x \in 1..Len(a.ents) /\ x \in 1..Len(b.ents) /\ y \in Int
  BY <1>2 DEF MinOf
<1>4. /\ At(a, y) = a.ents[y] /\ At(b, y) = b.ents[y]
      /\ a.ents[x].term = b.ents[x].term
  <2>1. Term(a, x) = a.ents[x].term /\ Term(b, x) = b.ents[x].term
    BY <1>1, <1>3, AlignedReads
  <2> QED BY <1>1, <1>3, <2>1, AlignedReads
<1>5. ASSUME NEW z \in 1..x, a.ents[z].term = b.ents[z].term
      PROVE  /\ a.ents[z] = b.ents[z]
             /\ z # 1 => a.ents[z - 1].term = b.ents[z - 1].term
  <2>1. z \in 1..Len(a.ents) /\ z \in 1..Len(b.ents)
    BY <1>3
  <2>2. LogLink(a, z) \in Links /\ LogLink(b, z) \in Links
    BY <2>1, LogLinks
  <2>3. a.ents[z].index = z /\ b.ents[z].index = z
    BY <1>1, <2>1 DEF Aligned
  <2> HIDE DEF a, b
  <2>4. LogLink(a, z).entry = a.ents[z] /\ LogLink(b, z).entry = b.ents[z]
    BY DEF LogLink, LinkOf
  <2>5. LogLink(a, z) = LogLink(b, z)
    BY <1>5, <2>2, <2>3, <2>4 DEF LogInv, LinksUnique
  <2>6. LogLink(a, z).before = LogLink(b, z).before
    BY <2>5
  <2> QED BY <2>4, <2>5, <2>6 DEF LogLink, LinkOf
<1> HIDE DEF a, b
<1>6. ASSUME a.ents[y] # b.ents[y] PROVE FALSE
  <2> DEFINE D == {z \in 1..x : a.ents[z] # b.ents[z]}
  <2>1. D \in SUBSET Int /\ D # {} /\ IsFiniteSet(D)
    <3>1. IsFiniteSet(1..x)
      BY <1>3, FS_Interval
    <3> QED BY <1>3, <1>6, <3>1, FS_Subset
  <2>2. PICK z \in D : \A u \in D : u <= z
    BY <2>1, MaxExists
  <2>3. z \in 1..x /\ a.ents[z] # b.ents[z]
    OBVIOUS
  <2>4. CASE z = x
    BY <1>4, <1>5, <2>3, <2>4
  <2>5. CASE z # x
    <3>1. z + 1 \in 1..x /\ z + 1 # 1 /\ (z + 1) - 1 = z /\ ~(z + 1 <= z)
      BY <1>3, <2>3, <2>5
    <3>2. a.ents[z + 1] = b.ents[z + 1]
      BY <2>2, <3>1
    <3>3. a.ents[z].term = b.ents[z].term
      BY <1>5, <3>1, <3>2
    <3> QED BY <1>5, <2>3, <3>3
  <2> QED BY <2>4, <2>5
<1> QED BY <1>4, <1>6 DEF a, b

LEMMA InvRecoverable ==
    ASSUME LogInv, Uncompacted
    PROVE  Recoverable
BY DEF LogInv, LogsPlain, Uncompacted, Recoverable

-----------------------------------------------------------------------------
\* As long as every node knows the same voters and nobody has taken a snapshot,
\* the invariant of the links holds.
LEMMA LogsInvariant ==
    ASSUME IsFiniteSet(Voters)
    PROVE  Spec /\ []FixedVoters /\ []Uncompacted => [](TypeOK /\ ElectionInv /\ LogInv)
<1>1. Init => ElectionInv /\ LogInv
  BY InitElection, InitLogs
<1>2. TypeOK /\ TypeOK' /\ ElectionInv /\ FixedVoters /\ [Next]_vars => ElectionInv'
  BY NextElection
<1>3. TypeOK /\ ElectionInv => ElectionSafety
  BY InvElectionSafety
<1>4. /\ TypeOK /\ TypeOK' /\ LogInv /\ Uncompacted /\ Uncompacted' /\ ElectionInv /\ ElectionInv'
      /\ ElectionSafety' /\ [Next]_vars
      => LogInv'
  BY NextLogs
<1>5. Spec => []TypeOK
  BY TypeCorrect
<1> QED BY <1>1, <1>2, <1>3, <1>4, <1>5, PTL DEF Spec

\* No two entries of one index and term, in whatever log or call, have different
\* data or predecessors (appendData, sendAppend, handleAppendEntries).
THEOREM LinksStayUnique ==
    ASSUME IsFiniteSet(Voters)
    PROVE  Spec /\ []FixedVoters /\ []Uncompacted => []LogInv
<1>1. Spec /\ []FixedVoters /\ []Uncompacted => [](TypeOK /\ ElectionInv /\ LogInv)
  BY LogsInvariant
<1> QED BY <1>1, PTL

\* The log matching property (sendAppend's prev check, handleAppendEntries): logs
\* that hold an entry of the same term at the same index are equal up to there,
\* whatever calls are lost, delayed, delivered twice or cut short by a crash.
THEOREM LogsMatch ==
    ASSUME IsFiniteSet(Voters)
    PROVE  Spec /\ []FixedVoters /\ []Uncompacted => []LogMatching
<1>1. TypeOK /\ LogInv => LogMatching
  BY InvLogMatching
<1>2. Spec /\ []FixedVoters /\ []Uncompacted => [](TypeOK /\ ElectionInv /\ LogInv)
  BY LogsInvariant
<1> QED BY <1>1, <1>2, PTL

\* Replaying the WAL gives the log in memory back after every step (persistEntries
\* in appendData and handleAppendEntries against restoreLog and New).
THEOREM WALKeepsLog ==
    ASSUME IsFiniteSet(Voters)
    PROVE  Spec /\ []FixedVoters /\ []Uncompacted => []Recoverable
<1>1. LogInv /\ Uncompacted => Recoverable
  BY InvRecoverable
<1>2. Spec /\ []FixedVoters /\ []Uncompacted => [](TypeOK /\ ElectionInv /\ LogInv)
  BY LogsInvariant
<1> QED BY <1>1, <1>2, PTL

\* What LeaderAppendOnly says of one step and one node.
AppendsOnly(i) ==
    role[i] = "leader" /\ role'[i] = "leader" /\ hs'[i].term = hs[i].term =>
        \A x \in 1..LastIndex(node[i].log) :
            Has(node[i].log, x) =>
                \/ x <= node'[i].log.snapIndex
                \/ Has(node'[i].log, x) /\ At(node'[i].log, x) = At(node[i].log, x)

LEMMA LongerAppends ==
    ASSUME NEW a \in Logs, NEW b \in Logs, NEW term, Aligned(a), Aligned(b), Longer(a, b, term),
           NEW x \in 1..LastIndex(a)
    PROVE  Has(b, x) /\ At(b, x) = At(a, x)
<1>1. /\ LastIndex(a) = Len(a.ents) /\ LastIndex(b) = Len(b.ents)
      /\ Len(a.ents) \in Nat /\ Len(b.ents) \in Nat
  BY AlignedReads
<1>2. x \in 1..Len(a.ents) /\ x \in 1..Len(b.ents) /\ x \in Int
  BY <1>1 DEF Longer
<1>3. At(a, x) = a.ents[x] /\ At(b, x) = b.ents[x]
  BY <1>2, AlignedReads
<1>4. b.ents[x] = a.ents[x]
  BY <1>2 DEF Longer
<1>5. Has(b, x)
  BY <1>1, <1>2 DEF Has, Aligned
<1> QED BY <1>3, <1>4, <1>5

LEMMA NextAppends ==
    ASSUME TypeOK, TypeOK', LogInv, LogInv', Uncompacted, Uncompacted', ElectionInv, [Next]_vars
    PROVE  \A i \in Server : AppendsOnly(i)
<1> SUFFICES ASSUME NEW i \in Server, role[i] = "leader", role'[i] = "leader",
                    NEW x \in 1..LastIndex(node[i].log), Has(node[i].log, x)
             PROVE  Has(node'[i].log, x) /\ At(node'[i].log, x) = At(node[i].log, x)
  BY DEF AppendsOnly
<1>1. CASE node'[i] = node[i]
  BY <1>1
<1>2. ASSUME NEW j \in Server, LogStep(j), j = i
      PROVE  Has(node'[i].log, x) /\ At(node'[i].log, x) = At(node[i].log, x)
  <2>1. Longer(node[i].log, node'[i].log, hs'[i].term)
    BY <1>2 DEF LogStep, Continues
  <2>2. node[i].log \in Logs /\ Aligned(node[i].log)
    BY LogTypes DEF LogInv, LogsPlain
  <2>3. node'[i].log \in Logs
    BY DEF TypeOK, Nodes
  <2>4. Aligned(node'[i].log)
    BY <1>2 DEF LogStep
  <2> QED BY <2>1, <2>2, <2>3, <2>4, LongerAppends
<1>3. CASE Next
  BY <1>1, <1>2, <1>3, NextLogStep DEF LogStep
<1>4. CASE UNCHANGED vars
  BY <1>1, <1>4 DEF vars
<1> QED BY <1>3, <1>4

\* A leader never rewrites an entry of its own log while it leads (Propose,
\* proposeConfigChange and linearizableReadIndex append, and nothing else).
THEOREM LeadersAppend ==
    ASSUME IsFiniteSet(Voters)
    PROVE  Spec /\ []FixedVoters /\ []Uncompacted => LeaderAppendOnly
<1>1. /\ TypeOK /\ TypeOK' /\ LogInv /\ LogInv' /\ Uncompacted /\ Uncompacted' /\ ElectionInv
      /\ [Next]_vars
      => [\A i \in Server :
            role[i] = "leader" /\ role'[i] = "leader" /\ hs'[i].term = hs[i].term =>
                \A x \in 1..LastIndex(node[i].log) :
                    Has(node[i].log, x) =>
                        \/ x <= node'[i].log.snapIndex
                        \/ Has(node'[i].log, x) /\ At(node'[i].log, x) = At(node[i].log, x)]_vars
  BY NextAppends DEF AppendsOnly
<1>2. Spec /\ []FixedVoters /\ []Uncompacted => [](TypeOK /\ ElectionInv /\ LogInv)
  BY LogsInvariant
<1> QED BY <1>1, <1>2, PTL DEF Spec, LeaderAppendOnly
=============================================================================
