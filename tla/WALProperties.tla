--------------------------- MODULE WALProperties ---------------------------
(***************************************************************************)
(* What the write-ahead log of module WAL owes the raft node.              *)
(***************************************************************************)
EXTENDS WAL

LogRecords == [n : 1..MaxRecords, seg : Nat, synced : BOOLEAN]

Waiters == [writer : Writers, pos : Nat]

\* Every variable keeps its type, and the log never takes more records than the
\* bound allows.
TypeOK ==
    /\ phase \in {"down", "open", "broken"}
    /\ recs \in Seq(LogRecords)
    /\ last \in Nat /\ headed \in SUBSET Nat
    /\ waiting \in SUBSET Waiters
    /\ flush \in [pc : {"idle", "syncing", "replying"}, seg : Nat,
                  for : SUBSET Waiters, ok : BOOLEAN]
    /\ promised \in Nat /\ opens \in Nat
    /\ appended \in 0..MaxRecords

\* When AppendSync has returned nil, the record and all the records before it
\* are on disk, rotations between the append and the sync included.
PromisedDurable ==
    promised <= Len(recs) /\ \A k \in 1..promised : recs[k].synced

\* Why: only the newest segment has records that are not synced, and a flush
\* that will report success covers every record up to its waiters'.
GroupInv ==
    /\ phase = "open" => last > 0
    /\ \A k \in 1..Len(recs) : recs[k].seg \in 1..last /\ (recs[k].seg < last => recs[k].synced)
    /\ \A j, k \in 1..Len(recs) : j <= k => recs[j].seg <= recs[k].seg
    /\ flush.seg <= last
    /\ \A x \in waiting \cup flush.for : x.pos <= Len(recs)
    /\ flush.pc = "syncing" =>
          \A x \in flush.for : \A k \in 1..x.pos : recs[k].seg <= flush.seg
    /\ flush.pc = "replying" /\ flush.ok =>
          \A x \in flush.for : \A k \in 1..x.pos : recs[k].synced
    /\ flush.pc # "idle" => flush.for # {}

\* Open never meets a segment it cannot read: what recovery returns holds every
\* record that was reported safe (wal_test.go, "truncated recover lost good records").
Openable == phase # "broken"

\* A writer that waits for a group commit is answered.
AppendReturns == \A w \in Writers : Busy(w) ~> ~Busy(w)

\* The log implements DurableLog: appends extend it, a reply promises a prefix, and
\* a crash cuts off records that were not promised.
Contract == INSTANCE DurableLog WITH
    Records  <- 1..MaxRecords,
    log      <- [k \in 1..Len(recs) |-> recs[k].n],
    promised <- promised

ImplementsDurableLog == Contract!Spec
=============================================================================
