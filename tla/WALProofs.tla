----------------------------- MODULE WALProofs -----------------------------
(***************************************************************************)
(* The write-ahead log keeps what it has reported safe, and implements     *)
(* DurableLog, for any number of writers, segments, records and crashes.   *)
(***************************************************************************)
EXTENDS WALProperties, SequenceTheorems, TLAPS

\* A sync changes no record but for marking those of the segment.
LEMMA SyncMarks ==
    ASSUME recs \in Seq(LogRecords), NEW s \in Nat
    PROVE  /\ Synced(s) \in Seq(LogRecords)
           /\ Len(Synced(s)) = Len(recs)
           /\ \A k \in 1..Len(recs) :
                 /\ Synced(s)[k].n = recs[k].n
                 /\ Synced(s)[k].seg = recs[k].seg
                 /\ recs[k].seg = s => Synced(s)[k].synced
                 /\ recs[k].synced => Synced(s)[k].synced
<1>1. Len(recs) \in Nat /\ \A k \in 1..Len(recs) : recs[k] \in LogRecords
  BY ElementOfSeq, LenProperties
<1>2. \A k \in 1..Len(recs) : [recs[k] EXCEPT !.synced = TRUE] \in LogRecords
  BY <1>1 DEF LogRecords
<1>3. Synced(s) \in [1..Len(recs) -> LogRecords]
  BY <1>1, <1>2 DEF Synced
<1>4. Synced(s) \in Seq(LogRecords) /\ Len(Synced(s)) = Len(recs)
  BY <1>1, <1>3
<1>5. ASSUME NEW k \in 1..Len(recs)
      PROVE  /\ Synced(s)[k].n = recs[k].n
             /\ Synced(s)[k].seg = recs[k].seg
             /\ recs[k].seg = s => Synced(s)[k].synced
             /\ recs[k].synced => Synced(s)[k].synced
  BY <1>1 DEF Synced, LogRecords
<1> QED BY <1>4, <1>5

Inv == TypeOK /\ GroupInv /\ PromisedDurable

\* Marking records as synced, and nothing else, keeps the invariant.
LEMMA SyncKeeps ==
    ASSUME Inv, NEW s \in Nat, recs' = Synced(s),
           UNCHANGED <<last, headed, waiting, flush, promised, appended, opens>>,
           phase' \in {"down", "open"}, phase' = "open" => phase = "open"
    PROVE  Inv'
<1> USE DEF Inv
<1>1. /\ recs' \in Seq(LogRecords)
      /\ Len(recs') = Len(recs)
      /\ \A k \in 1..Len(recs) :
            /\ recs'[k].seg = recs[k].seg
            /\ recs[k].synced => recs'[k].synced
  BY SyncMarks DEF TypeOK
<1>2. TypeOK'
  BY <1>1 DEF TypeOK
<1>3. GroupInv'
  <2>1. phase' = "open" => last' > 0
    BY DEF GroupInv
  <2>2. \A k \in 1..Len(recs') : recs'[k].seg \in 1..last' /\ (recs'[k].seg < last' => recs'[k].synced)
    BY <1>1 DEF GroupInv
  <2>3. \A j, k \in 1..Len(recs') : j <= k => recs'[j].seg <= recs'[k].seg
    BY <1>1 DEF GroupInv
  <2>4. flush'.seg <= last' /\ \A x \in waiting' \cup flush'.for : x.pos <= Len(recs')
    BY <1>1 DEF GroupInv
  <2>5. \A x \in waiting \cup flush.for : x.pos \in Nat /\ 1..x.pos \subseteq 1..Len(recs)
    BY <2>4, <1>1 DEF TypeOK, Waiters, GroupInv
  <2>6. flush'.pc = "syncing" =>
          \A x \in flush'.for : \A k \in 1..x.pos : recs'[k].seg <= flush'.seg
    BY <1>1, <2>5 DEF GroupInv
  <2>7. flush'.pc = "replying" /\ flush'.ok =>
          \A x \in flush'.for : \A k \in 1..x.pos : recs'[k].synced
    BY <1>1, <2>5 DEF GroupInv
  <2> QED BY <2>1, <2>2, <2>3, <2>4, <2>6, <2>7 DEF GroupInv
<1>4. PromisedDurable'
  BY <1>1 DEF PromisedDurable, TypeOK
<1> QED BY <1>2, <1>3, <1>4

LEMMA FlushSyncKeeps ==
    ASSUME Inv, FlushSync
    PROVE  Inv'
<1> USE DEF Inv
<1>0. flush.seg \in Nat /\ last \in Nat /\ flush.for \subseteq Waiters
  BY DEF TypeOK
<1>1. /\ recs' \in Seq(LogRecords)
      /\ Len(recs') = Len(recs)
      /\ \A k \in 1..Len(recs) :
            /\ recs'[k].seg = recs[k].seg
            /\ recs[k].synced => recs'[k].synced
            /\ flush.seg = last /\ recs[k].seg = last => recs'[k].synced
  BY <1>0, SyncMarks DEF FlushSync, TypeOK
<1>2. /\ flush' = [flush EXCEPT !.pc = "replying", !.ok = (flush.seg = last)]
      /\ UNCHANGED <<phase, last, headed, waiting, promised, appended, opens>>
      /\ flush.pc = "syncing"
  BY DEF FlushSync
<1>3. /\ flush'.pc = "replying" /\ flush'.ok = (flush.seg = last)
      /\ flush'.seg = flush.seg /\ flush'.for = flush.for
  BY <1>2 DEF TypeOK
<1>4. TypeOK'
  BY <1>0, <1>1, <1>2 DEF TypeOK
<1>5. GroupInv'
  <2>1. phase' = "open" => last' > 0
    BY <1>2 DEF GroupInv
  <2>2. \A k \in 1..Len(recs') : recs'[k].seg \in 1..last' /\ (recs'[k].seg < last' => recs'[k].synced)
    BY <1>1, <1>2 DEF GroupInv
  <2>3. \A j, k \in 1..Len(recs') : j <= k => recs'[j].seg <= recs'[k].seg
    BY <1>1 DEF GroupInv
  <2>4. flush'.seg <= last' /\ \A x \in waiting' \cup flush'.for : x.pos <= Len(recs')
    BY <1>1, <1>2, <1>3 DEF GroupInv
  <2>5. ASSUME flush.seg = last, NEW x \in flush.for, NEW k \in 1..x.pos
        PROVE  recs'[k].synced
    <3>1. x.pos \in Nat /\ x.pos <= Len(recs) /\ Len(recs) \in Nat
      BY <1>0, LenProperties DEF Waiters, GroupInv, TypeOK
    <3>2. k \in 1..Len(recs)
      BY <3>1
    <3>3. recs[k].seg \in 1..last /\ (recs[k].seg < last => recs[k].synced)
      BY <3>2 DEF GroupInv
    <3> QED BY <3>2, <3>3, <1>0, <1>1, <2>5
  <2> QED BY <1>2, <1>3, <2>1, <2>2, <2>3, <2>4, <2>5 DEF GroupInv
<1>6. PromisedDurable'
  BY <1>1, <1>2 DEF PromisedDurable, TypeOK
<1> QED BY <1>4, <1>5, <1>6

\* The rotation before an append: when it is done every record of the segments
\* before the active one is on disk.
LEMMA RotationSyncs ==
    ASSUME Inv, NEW full \in BOOLEAN
    PROVE  /\ Rotated(full) \in Seq(LogRecords)
           /\ Len(Rotated(full)) = Len(recs)
           /\ \A k \in 1..Len(recs) :
                 /\ Rotated(full)[k].seg = recs[k].seg
                 /\ recs[k].synced => Rotated(full)[k].synced
                 /\ full \/ recs[k].seg < last => Rotated(full)[k].synced
<1> USE DEF Inv
<1>1. \A k \in 1..Len(recs) : recs[k].seg \in 1..last /\ (recs[k].seg < last => recs[k].synced)
  BY DEF GroupInv
<1>2. last \in Nat /\ recs \in Seq(LogRecords)
  BY DEF TypeOK
<1>3. CASE full
  BY <1>1, <1>2, <1>3, SyncMarks DEF Rotated
<1>4. CASE ~full
  BY <1>1, <1>2, <1>4 DEF Rotated
<1> QED BY <1>3, <1>4

LEMMA AppendKeeps ==
    ASSUME Inv, NEW w \in Writers, NEW wait \in BOOLEAN, AppendSync(w, wait)
    PROVE  Inv'
<1> USE DEF Inv
<1> DEFINE old == Rotated(Full)
           seg == IF Full THEN last + 1 ELSE last
           rec == [n |-> appended + 1, seg |-> seg, synced |-> FALSE]
           len == Len(recs)
<1>1. /\ phase = "open" /\ appended < MaxRecords
      /\ appended' = appended + 1
      /\ recs' = Append(old, rec)
      /\ last' = seg
      /\ headed' = IF Full THEN headed \cup {seg} ELSE headed
      /\ waiting' = IF wait THEN waiting \cup {[writer |-> w, pos |-> len + 1]} ELSE waiting
      /\ UNCHANGED <<phase, flush, promised, opens>>
  BY DEF AppendSync
<1>2. /\ last \in Nat \ {0} /\ len \in Nat /\ seg \in Nat \ {0} /\ seg >= last
      /\ Full \in BOOLEAN /\ appended \in 0..MaxRecords /\ MaxRecords \in Nat
  BY <1>1, LenProperties, WalAssumption DEF TypeOK, GroupInv, Full
<1>3. /\ old \in Seq(LogRecords)
      /\ Len(old) = len
      /\ \A k \in 1..len :
            /\ old[k].seg = recs[k].seg
            /\ recs[k].synced => old[k].synced
            /\ Full \/ recs[k].seg < last => old[k].synced
  BY <1>2, RotationSyncs
<1>4. rec \in LogRecords
  BY <1>1, <1>2 DEF LogRecords
<1> HIDE DEF old
<1>5. /\ recs' \in Seq(LogRecords)
      /\ Len(recs') = len + 1
      /\ recs'[len + 1] = rec
      /\ \A k \in 1..len : recs'[k] = old[k]
  <2>1. /\ Append(old, rec) \in Seq(LogRecords)
        /\ Len(Append(old, rec)) = Len(old) + 1
        /\ \A i \in 1..Len(old) : Append(old, rec)[i] = old[i]
        /\ Append(old, rec)[Len(old) + 1] = rec
    BY <1>3, <1>4, AppendProperties
  <2> QED BY <2>1, <1>1, <1>3
<1>6. \A k \in 1..len :
         /\ recs'[k].seg = recs[k].seg /\ recs[k].seg \in 1..last
         /\ recs[k].synced => recs'[k].synced
         /\ recs[k].seg < seg => recs'[k].synced
  BY <1>2, <1>3, <1>5 DEF GroupInv
<1>7. \A k \in 1..Len(recs') : k \in 1..len \/ k = len + 1
  BY <1>5, <1>2
<1>8. recs'[len + 1].seg = seg
  BY <1>5
<1>9. TypeOK'
  <2>1. waiting' \in SUBSET Waiters
    BY <1>1, <1>2 DEF TypeOK, Waiters
  <2>2. last' \in Nat /\ headed' \in SUBSET Nat /\ appended' \in 0..MaxRecords
    BY <1>1, <1>2 DEF TypeOK
  <2> QED BY <1>1, <1>5, <2>1, <2>2 DEF TypeOK
<1>10. GroupInv'
  <2>1. phase' = "open" => last' > 0
    BY <1>1, <1>2
  <2>2. \A k \in 1..Len(recs') : recs'[k].seg \in 1..last' /\ (recs'[k].seg < last' => recs'[k].synced)
    BY <1>1, <1>2, <1>6, <1>7, <1>8
  <2>3. \A j, k \in 1..Len(recs') : j <= k => recs'[j].seg <= recs'[k].seg
    <3>1. \A j, k \in 1..len : j <= k => recs'[j].seg <= recs'[k].seg
      BY <1>6 DEF GroupInv
    <3>2. \A j \in 1..Len(recs') : recs'[j].seg <= recs'[len + 1].seg
      BY <1>2, <1>6, <1>7, <1>8
    <3> QED BY <3>1, <3>2, <1>7, <1>2, <1>5
  <2>4. flush'.seg <= last'
    BY <1>1, <1>2 DEF GroupInv, TypeOK
  <2>5. \A x \in waiting' \cup flush'.for : x.pos <= Len(recs')
    <3>1. \A x \in waiting \cup flush.for : x.pos <= len + 1
      BY <1>2 DEF GroupInv, TypeOK, Waiters
    <3> QED BY <1>1, <1>5, <3>1
  <2>6. \A x \in flush.for : x.pos \in Nat /\ 1..x.pos \subseteq 1..len
    BY <1>2 DEF TypeOK, Waiters, GroupInv
  <2>7. flush'.pc = "syncing" =>
          \A x \in flush'.for : \A k \in 1..x.pos : recs'[k].seg <= flush'.seg
    BY <1>1, <1>6, <2>6 DEF GroupInv
  <2>8. flush'.pc = "replying" /\ flush'.ok =>
          \A x \in flush'.for : \A k \in 1..x.pos : recs'[k].synced
    BY <1>1, <1>6, <2>6 DEF GroupInv
  <2>9. flush'.pc # "idle" => flush'.for # {}
    BY <1>1 DEF GroupInv
  <2> QED BY <2>1, <2>2, <2>3, <2>4, <2>5, <2>7, <2>8, <2>9 DEF GroupInv
<1>11. PromisedDurable'
  <2>1. promised \in Nat /\ promised <= len /\ \A k \in 1..promised : recs[k].synced
    BY DEF PromisedDurable, TypeOK
  <2>2. \A k \in 1..promised : k \in 1..len
    BY <2>1, <1>2
  <2> QED BY <2>1, <2>2, <1>1, <1>2, <1>5, <1>6 DEF PromisedDurable
<1> QED BY <1>9, <1>10, <1>11

\* A crash cuts off no record that was reported safe.
LEMMA CrashLosesOnlyTheTail ==
    ASSUME Inv, NEW k \in 0..Len(recs), Lost(k)
    PROVE  /\ promised <= k
           /\ recs' \in Seq(LogRecords) /\ Len(recs') = k
           /\ \A i \in 1..k : recs'[i] = recs[i]
<1>1. /\ recs \in Seq(LogRecords) /\ Len(recs) \in Nat /\ promised \in Nat
      /\ promised <= Len(recs) /\ \A i \in 1..promised : recs[i].synced
      /\ k < Len(recs) => ~recs[k + 1].synced
      /\ recs' = SubSeq(recs, 1, k)
  BY LenProperties DEF Inv, TypeOK, PromisedDurable, Lost
<1>2. promised <= k
  <2>1. SUFFICES ASSUME k < promised PROVE FALSE
    BY <1>1
  <2>2. k + 1 \in 1..promised /\ k < Len(recs)
    BY <2>1, <1>1
  <2> QED BY <2>2, <1>1
<1>3. \A i \in 1..k : i \in 1..Len(recs) /\ recs[i] \in LogRecords
  BY <1>1, ElementOfSeq
<1>4. recs' = [i \in 1..k |-> recs[i]]
  BY <1>1
<1>5. recs' \in Seq(LogRecords) /\ Len(recs') = k
  BY <1>1, <1>3, <1>4
<1> QED BY <1>2, <1>4, <1>5

LEMMA CrashKeeps ==
    ASSUME Inv, Crash
    PROVE  Inv'
<1> USE DEF Inv
<1>1. PICK k \in 0..Len(recs) : Lost(k)
  BY DEF Crash
<1>2. /\ promised <= k
      /\ recs' \in Seq(LogRecords) /\ Len(recs') = k
      /\ \A i \in 1..k : recs'[i] = recs[i]
  BY <1>1, CrashLosesOnlyTheTail
<1>3. /\ phase' = "down" /\ waiting' = {} /\ flush' = Idle
      /\ UNCHANGED <<last, headed, promised, appended, opens>>
  BY <1>1 DEF Crash, Lost
<1>4. Len(recs) \in Nat /\ \A i \in 1..k : i \in 1..Len(recs)
  BY LenProperties DEF TypeOK
<1>5. TypeOK'
  BY <1>2, <1>3 DEF TypeOK, Idle
<1>6. GroupInv'
  <2>1. \A i \in 1..Len(recs') : recs'[i].seg \in 1..last' /\ (recs'[i].seg < last' => recs'[i].synced)
    BY <1>2, <1>3, <1>4 DEF GroupInv
  <2>2. \A i, j \in 1..Len(recs') : i <= j => recs'[i].seg <= recs'[j].seg
    BY <1>2, <1>4 DEF GroupInv
  <2>3. last' \in Nat /\ flush'.seg = 0 /\ flush'.pc = "idle" /\ flush'.for = {}
    BY <1>3 DEF TypeOK, Idle
  <2> QED BY <1>3, <2>1, <2>2, <2>3 DEF GroupInv
<1>7. PromisedDurable'
  BY <1>2, <1>3, <1>4 DEF PromisedDurable, TypeOK
<1> QED BY <1>5, <1>6, <1>7

LEMMA CrashInRotationKeeps ==
    ASSUME Inv, CrashInRotation
    PROVE  Inv'
<1> USE DEF Inv
<1>1. /\ phase' = "down" /\ waiting' = {} /\ flush' = Idle
      /\ recs' = Synced(last) /\ last' = last + 1
      /\ UNCHANGED <<promised, appended, opens>>
  BY DEF CrashInRotation
<1>2. last \in Nat /\ Len(recs) \in Nat /\ headed' \in SUBSET Nat
  BY LenProperties DEF TypeOK, CrashInRotation
<1>3. /\ recs' \in Seq(LogRecords)
      /\ Len(recs') = Len(recs)
      /\ \A k \in 1..Len(recs) :
            /\ recs'[k].seg = recs[k].seg /\ recs[k].seg \in 1..last
            /\ recs'[k].synced
  <2>1. \A k \in 1..Len(recs) : recs[k].seg \in 1..last /\ (recs[k].seg < last => recs[k].synced)
    BY DEF GroupInv
  <2>2. /\ recs' \in Seq(LogRecords) /\ Len(recs') = Len(recs)
        /\ \A k \in 1..Len(recs) :
              /\ recs'[k].seg = recs[k].seg
              /\ recs[k].seg = last => recs'[k].synced
              /\ recs[k].synced => recs'[k].synced
    BY <1>1, <1>2, SyncMarks DEF TypeOK
  <2> QED BY <2>1, <2>2, <1>2
<1>4. TypeOK'
  BY <1>1, <1>2, <1>3 DEF TypeOK, Idle
<1>5. GroupInv'
  BY <1>1, <1>2, <1>3 DEF GroupInv, Idle
<1>6. PromisedDurable'
  BY <1>1, <1>2, <1>3 DEF PromisedDurable, TypeOK
<1> QED BY <1>4, <1>5, <1>6

LEMMA ReplyKeeps ==
    ASSUME Inv, NEW x \in flush.for, Reply(x)
    PROVE  Inv'
<1> USE DEF Inv
<1>1. /\ x.pos \in Nat /\ promised \in Nat /\ Len(recs) \in Nat
      /\ x.pos <= Len(recs) /\ promised <= Len(recs)
      /\ \A k \in 1..promised : recs[k].synced
      /\ flush.ok => \A k \in 1..x.pos : recs[k].synced
  BY LenProperties DEF TypeOK, Waiters, GroupInv, PromisedDurable, Reply
<1>2. /\ promised' = IF flush.ok THEN MaxOf(promised, x.pos) ELSE promised
      /\ flush' = IF flush.for = {x} THEN Idle ELSE [flush EXCEPT !.for = @ \ {x}]
      /\ UNCHANGED <<phase, recs, last, headed, waiting, appended, opens>>
  BY DEF Reply, SafeUpTo
<1>3. promised' \in Nat /\ promised' <= Len(recs) /\ \A k \in 1..promised' : recs[k].synced
  BY <1>1, <1>2 DEF MaxOf
<1>4. \/ flush' = Idle
      \/ /\ flush'.pc = flush.pc /\ flush'.seg = flush.seg /\ flush'.ok = flush.ok
         /\ flush'.for \subseteq flush.for /\ flush'.for # {}
         /\ flush' \in [pc : {"idle", "syncing", "replying"}, seg : Nat,
                        for : SUBSET Waiters, ok : BOOLEAN]
  BY <1>2 DEF TypeOK
<1>5. TypeOK'
  BY <1>2, <1>3, <1>4 DEF TypeOK, Idle
<1>6. GroupInv'
  <2>1. CASE flush' = Idle
    BY <1>2, <2>1 DEF GroupInv, Idle, TypeOK
  <2>2. CASE /\ flush'.pc = flush.pc /\ flush'.seg = flush.seg /\ flush'.ok = flush.ok
             /\ flush'.for \subseteq flush.for /\ flush'.for # {}
    BY <1>2, <2>2 DEF GroupInv
  <2> QED BY <1>4, <2>1, <2>2
<1>7. PromisedDurable'
  BY <1>2, <1>3 DEF PromisedDurable
<1> QED BY <1>5, <1>6, <1>7

\* Sync and Capture move waiters and leave the records alone; Open changes neither.
LEMMA OthersKeep ==
    ASSUME Inv, Open \/ (\E w \in Writers : Sync(w)) \/ Capture
    PROVE  Inv'
<1> USE DEF Inv
<1>1. UNCHANGED <<recs, promised, appended>>
  BY DEF Open, Sync, Capture
<1>2. PromisedDurable'
  BY <1>1 DEF PromisedDurable
<1>3. Len(recs) \in Nat /\ last \in Nat
  BY LenProperties DEF TypeOK
<1>4. CASE Open
  <2>1. last' \in Nat \ {0} /\ last' >= last
    BY <1>3, <1>4 DEF Open
  <2>2. \A k \in 1..Len(recs) : last' = last /\ recs[k].seg \in 1..last
    BY <1>3, <1>4 DEF Open, GroupInv
  <2>3. TypeOK'
    BY <1>4, <2>1 DEF Open, TypeOK
  <2>4. GroupInv'
    BY <1>1, <1>3, <1>4, <2>1, <2>2 DEF Open, GroupInv, TypeOK
  <2> QED BY <1>2, <2>3, <2>4
<1>5. CASE \E w \in Writers : Sync(w)
  <2>1. PICK w \in Writers : Sync(w)
    BY <1>5
  <2>2. TypeOK'
    BY <1>3, <2>1 DEF Sync, TypeOK, Waiters
  <2>3. GroupInv'
    BY <1>3, <2>1 DEF Sync, GroupInv
  <2> QED BY <1>2, <2>2, <2>3
<1>6. CASE Capture
  <2>1. TypeOK'
    BY <1>6 DEF Capture, TypeOK
  <2>2. \A x \in waiting : x.pos \in Nat /\ 1..x.pos \subseteq 1..Len(recs)
    BY <1>3 DEF TypeOK, Waiters, GroupInv
  <2>3. /\ flush'.pc = "syncing" /\ flush'.seg = last /\ flush'.for = waiting
        /\ waiting' = {} /\ waiting # {} /\ UNCHANGED <<phase, last>>
    BY <1>6 DEF Capture
  <2>4. GroupInv'
    BY <1>1, <1>3, <2>2, <2>3 DEF GroupInv
  <2> QED BY <1>2, <2>1, <2>4
<1> QED BY <1>4, <1>5, <1>6

\* For any number of writers, records, rotations and crashes, what AppendSync has
\* reported safe is on disk: no crash loses it.
THEOREM PromisesKept == Spec => [](TypeOK /\ GroupInv /\ PromisedDurable)
<1>1. Init => Inv
  BY WalAssumption DEF Init, Inv, TypeOK, GroupInv, PromisedDurable, Idle
<1>2. Inv /\ [Next]_vars => Inv'
  <2> SUFFICES ASSUME Inv, [Next]_vars PROVE Inv'
    OBVIOUS
  <2>1. CASE Open
    BY <2>1, OthersKeep
  <2>2. ASSUME NEW w \in Writers, NEW wait \in BOOLEAN, AppendSync(w, wait)
        PROVE  Inv'
    BY <2>2, AppendKeeps
  <2>3. ASSUME NEW w \in Writers, Sync(w)
        PROVE  Inv'
    BY <2>3, OthersKeep
  <2>4. CASE Capture
    BY <2>4, OthersKeep
  <2>5. CASE FlushSync
    BY <2>5, FlushSyncKeeps
  <2>6. ASSUME NEW x \in flush.for, Reply(x)
        PROVE  Inv'
    BY <2>6, ReplyKeeps
  <2>7. CASE Close
    <3>1. last \in Nat
      BY DEF Inv, TypeOK
    <3> QED BY <2>7, <3>1, SyncKeeps DEF Close
  <2>8. CASE Crash
    BY <2>8, CrashKeeps
  <2>9. CASE CrashInRotation
    BY <2>9, CrashInRotationKeeps
  <2>10. CASE UNCHANGED vars
    BY <2>10 DEF vars, Inv, TypeOK, GroupInv, PromisedDurable
  <2> QED BY <2>1, <2>2, <2>3, <2>4, <2>5, <2>6, <2>7, <2>8, <2>9, <2>10 DEF Next
<1>3. Inv => TypeOK /\ GroupInv /\ PromisedDurable
  BY DEF Inv
<1> QED BY <1>1, <1>2, <1>3, PTL DEF Spec

\* A rotation syncs the segment it closes and a flush covers its waiters, so only
\* the newest segment has records a crash may take (rotateLocked, flushLocked).
THEOREM OnlyNewestUnsynced == Spec => []GroupInv
<1>1. TypeOK /\ GroupInv /\ PromisedDurable => GroupInv
  OBVIOUS
<1> QED BY <1>1, PromisesKept, PTL

\* The log of DurableLog that the records stand for.
Numbers == [k \in 1..Len(recs) |-> recs[k].n]

\* An append extends the abstract log, whatever the rotation before it did.
LEMMA AppendExtends ==
    ASSUME Inv, NEW w \in Writers, NEW wait \in BOOLEAN, AppendSync(w, wait)
    PROVE  /\ appended + 1 \in 1..MaxRecords
           /\ Numbers' = Append(Numbers, appended + 1)
           /\ promised' = promised
<1> DEFINE old == Rotated(Full)
           seg == IF Full THEN last + 1 ELSE last
           rec == [n |-> appended + 1, seg |-> seg, synced |-> FALSE]
           len == Len(recs)
<1>1. /\ recs' = Append(old, rec) /\ promised' = promised
      /\ appended \in 0..MaxRecords /\ appended < MaxRecords /\ MaxRecords \in Nat
      /\ recs \in Seq(LogRecords) /\ last \in Nat \ {0} /\ len \in Nat /\ seg \in Nat \ {0}
      /\ Full \in BOOLEAN
  BY LenProperties, WalAssumption DEF AppendSync, Inv, TypeOK, GroupInv, Full
<1>2. old \in Seq(LogRecords) /\ Len(old) = len /\ \A k \in 1..len : old[k].n = recs[k].n
  <2>1. CASE Full
    BY <1>1, <2>1, SyncMarks DEF Rotated
  <2>2. CASE ~Full
    BY <1>1, <2>2 DEF Rotated
  <2> QED BY <1>1, <2>1, <2>2
<1>3. rec \in LogRecords /\ rec.n = appended + 1
  BY <1>1 DEF LogRecords
<1> HIDE DEF old, rec
<1>4. /\ Len(recs') = len + 1
      /\ \A k \in 1..len : recs'[k].n = recs[k].n
      /\ recs'[len + 1].n = appended + 1
  BY <1>1, <1>2, <1>3, AppendProperties
<1>5. Numbers \in Seq(1..MaxRecords) /\ Len(Numbers) = len
  <2>1. \A k \in 1..len : recs[k] \in LogRecords
    BY <1>1, ElementOfSeq
  <2>2. \A k \in 1..len : recs[k].n \in 1..MaxRecords
    BY <2>1 DEF LogRecords
  <2> QED BY <1>1, <2>2 DEF Numbers
<1>6. Numbers' = Append(Numbers, appended + 1)
  BY <1>1, <1>4, <1>5 DEF Numbers
<1>7. appended + 1 \in 1..MaxRecords
  BY <1>1
<1> QED BY <1>1, <1>6, <1>7

\* What AppendSync and the flusher do is appending to and promising a prefix of one
\* log, and what a crash does is to take away records nobody was promised.
THEOREM WalImplementsDurableLog == Spec => ImplementsDurableLog
<1>1. Init => Contract!Init
  BY DEF Init, Contract!Init
<1>2. Inv /\ [Next]_vars => [Contract!Next]_(Contract!vars)
  <2> SUFFICES ASSUME Inv, [Next]_vars PROVE [Contract!Next]_(Contract!vars)
    OBVIOUS
  <2>0. /\ recs \in Seq(LogRecords) /\ last \in Nat /\ flush.seg \in Nat
        /\ promised \in Nat /\ Len(recs) \in Nat
    BY LenProperties DEF Inv, TypeOK
  <2>1. ASSUME recs' = recs, promised' = promised
        PROVE  UNCHANGED Contract!vars
    BY <2>1 DEF Contract!vars
  <2>2. ASSUME NEW s \in Nat, recs' = Synced(s), promised' = promised
        PROVE  UNCHANGED Contract!vars
    <3>1. Numbers' = Numbers
      BY <2>0, <2>2, SyncMarks DEF Numbers
    <3> QED BY <2>2, <3>1 DEF Contract!vars, Numbers
  <2>3. ASSUME NEW w \in Writers, NEW wait \in BOOLEAN, AppendSync(w, wait)
        PROVE  Contract!Next
    <3>1. /\ appended + 1 \in 1..MaxRecords
          /\ Numbers' = Append(Numbers, appended + 1)
          /\ promised' = promised
      BY <2>3, AppendExtends
    <3> QED BY <3>1 DEF Contract!Next, Contract!Extend, Numbers
  <2>4. CASE FlushSync
    BY <2>0, <2>1, <2>2, <2>4 DEF FlushSync
  <2>5. ASSUME NEW x \in flush.for, Reply(x)
        PROVE  [Contract!Next]_(Contract!vars)
    <3>1. recs' = recs /\ promised' = IF flush.ok THEN MaxOf(promised, x.pos) ELSE promised
      BY <2>5 DEF Reply, SafeUpTo
    <3>2. x.pos \in Nat /\ x.pos <= Len(recs)
      BY DEF Inv, TypeOK, Waiters, GroupInv
    <3>3. promised' = promised \/ promised' \in promised + 1 .. Len(recs)
      BY <2>0, <3>1, <3>2 DEF MaxOf
    <3>4. Numbers' = Numbers /\ Len(Numbers) = Len(recs)
      BY <2>0, <3>1 DEF Numbers
    <3> QED BY <2>1, <3>1, <3>3, <3>4 DEF Contract!Next, Contract!Promise, Numbers
  <2>6. CASE Crash
    <3>1. PICK k \in 0..Len(recs) : Lost(k)
      BY <2>6 DEF Crash
    <3>2. /\ promised <= k
          /\ recs' \in Seq(LogRecords) /\ Len(recs') = k
          /\ \A i \in 1..k : recs'[i] = recs[i]
      BY <3>1, CrashLosesOnlyTheTail
    <3>3. k \in promised .. Len(Numbers) /\ Len(Numbers) = Len(recs)
      BY <2>0, <3>2 DEF Numbers
    <3>4. Numbers' = SubSeq(Numbers, 1, k)
      BY <2>0, <3>2, <3>3 DEF Numbers
    <3> QED BY <3>1, <3>3, <3>4 DEF Contract!Next, Contract!Lose, Lost, Numbers
  <2> QED BY <2>0, <2>1, <2>2, <2>3, <2>4, <2>5, <2>6
       DEF Next, vars, Open, Sync, Capture, Close, CrashInRotation
<1>3. Spec => []Inv
  BY PromisesKept, PTL DEF Inv
<1> QED BY <1>1, <1>2, <1>3, PTL DEF Spec, ImplementsDurableLog, Contract!Spec
=============================================================================
