-------------------------------- MODULE WAL --------------------------------
(***************************************************************************)
(* The write-ahead log, backend/internal/wal: appending under the mutex,   *)
(* rotation, the flusher that syncs for a group of writers, crashes, and   *)
(* recovery.                                                               *)
(*                                                                         *)
(* The segment files are one sequence of records in file order; each       *)
(* record knows its segment.  The flusher syncs without the mutex, so its  *)
(* turn is three steps and appends, rotations and crashes fall between     *)
(* them.  The dirty channel only makes it run before its ticker does and   *)
(* is left out.                                                            *)
(***************************************************************************)
EXTENDS Integers, Sequences, FiniteSets

CONSTANTS
    Writers,        \* the goroutines that append
    SegmentLimit,   \* records after which a segment is full (maxSeg, in bytes)
    TornHeaders,    \* TRUE: a crash may fall between creating a segment file
                    \* and syncing its header
    MaxRecords,     \* bound on the records ever appended
    MaxOpens        \* bound on the calls of Open

ASSUME WalAssumption ==
    /\ SegmentLimit \in Nat \ {0}
    /\ TornHeaders \in BOOLEAN
    /\ MaxRecords \in Nat /\ MaxOpens \in Nat

VARIABLES
    phase,      \* "down", "open", or "broken": Open has failed
    recs,       \* the records in the segment files: [n, seg, synced]
    last,       \* id of the newest segment, the active one when open (0: none)
    headed,     \* ids of the segments whose file begins with the header
    waiting,    \* w.waiters: [writer, pos], pos the length of recs to be synced
    flush,      \* the flusher
    promised,   \* history: the length of recs that was reported safe
    appended,   \* records appended so far
    opens       \* calls of Open so far

vars == <<phase, recs, last, headed, waiting, flush, promised, appended, opens>>

MaxOf(a, b) == IF a >= b THEN a ELSE b

Idle == [pc |-> "idle", seg |-> 0, for |-> {}, ok |-> FALSE]

Init ==
    /\ phase    = "down"
    /\ recs     = <<>>
    /\ last     = 0
    /\ headed   = {}
    /\ waiting  = {}
    /\ flush    = Idle
    /\ promised = 0
    /\ appended = 0
    /\ opens    = 0

\* A writer inside AppendSync or Sync.
Busy(w) == \E x \in waiting \cup flush.for : x.writer = w

\* segment.sync: what was written to segment s is on disk.
Synced(s) ==
    [k \in 1..Len(recs) |-> IF recs[k].seg = s THEN [recs[k] EXCEPT !.synced = TRUE] ELSE recs[k]]

-----------------------------------------------------------------------------
\* Open: recoverDir replays the segments and fails on records without a header.
\* The newest segment is opened as it is, without one if it has none.
Unreadable == \E k \in 1..Len(recs) : recs[k].seg \notin headed

Open ==
    /\ phase = "down" /\ opens < MaxOpens
    /\ opens' = opens + 1
    /\ phase' = IF Unreadable THEN "broken" ELSE "open"
    /\ last'   = IF last = 0 THEN 1 ELSE last
    /\ headed' = IF last = 0 THEN {1} ELSE headed
    /\ UNCHANGED <<recs, waiting, flush, promised, appended>>

Full == Cardinality({k \in 1..Len(recs) : recs[k].seg = last}) >= SegmentLimit

\* Mutant: the full segment is closed without a sync.
RotatedUnsynced(full) == recs

\* The records after rotateLocked: the full segment is synced and closed.
Rotated(full) == IF full THEN Synced(last) ELSE recs

\* AppendSync of the next record, up to the release of the mutex.
AppendSync(w, wait) ==
    LET full == Full
        seg  == IF full THEN last + 1 ELSE last
    IN  /\ phase = "open" /\ ~Busy(w)
        /\ appended < MaxRecords
        /\ appended' = appended + 1
        /\ recs'     = Append(Rotated(full), [n |-> appended + 1, seg |-> seg, synced |-> FALSE])
        /\ last'     = seg
        /\ headed'   = IF full THEN headed \cup {seg} ELSE headed
        /\ waiting'  = IF wait THEN waiting \cup {[writer |-> w, pos |-> Len(recs) + 1]}
                       ELSE waiting
        /\ UNCHANGED <<phase, flush, promised, opens>>

Sync(w) ==
    /\ phase = "open" /\ ~Busy(w)
    /\ waiting' = waiting \cup {[writer |-> w, pos |-> Len(recs)]}
    /\ UNCHANGED <<phase, recs, last, headed, flush, promised, appended, opens>>

-----------------------------------------------------------------------------
(***************************************************************************)
(* flushLocked: take the waiters under the mutex, sync without it, answer. *)
(***************************************************************************)
\* Mutant: a flush waits for a second writer.
CaptureGroup ==
    /\ phase = "open" /\ flush.pc = "idle" /\ Cardinality(waiting) > 1
    /\ flush'   = [pc |-> "syncing", seg |-> last, for |-> waiting, ok |-> FALSE]
    /\ waiting' = {}
    /\ UNCHANGED <<phase, recs, last, headed, promised, appended, opens>>

Capture ==
    /\ phase = "open" /\ flush.pc = "idle" /\ waiting # {}
    /\ flush'   = [pc |-> "syncing", seg |-> last, for |-> waiting, ok |-> FALSE]
    /\ waiting' = {}
    /\ UNCHANGED <<phase, recs, last, headed, promised, appended, opens>>

\* A segment that was rotated meanwhile is closed: its sync fails.
FlushSync ==
    LET ok == flush.seg = last
    IN  /\ flush.pc = "syncing"
        /\ flush' = [flush EXCEPT !.pc = "replying", !.ok = ok]
        /\ recs'  = IF ok THEN Synced(flush.seg) ELSE recs
        /\ UNCHANGED <<phase, last, headed, waiting, promised, appended, opens>>

\* Mutant: success is reported for all that is written by now.
SafeUpToEnd(x) == Len(recs)

\* The length of recs that waiter x asked to be safe.
SafeUpTo(x) == x.pos

\* One turn of the loop that answers the waiters.
Reply(x) ==
    /\ flush.pc = "replying" /\ x \in flush.for
    /\ promised' = IF flush.ok THEN MaxOf(promised, SafeUpTo(x)) ELSE promised
    /\ flush'    = IF flush.for = {x} THEN Idle ELSE [flush EXCEPT !.for = @ \ {x}]
    /\ UNCHANGED <<phase, recs, last, headed, waiting, appended, opens>>

-----------------------------------------------------------------------------
\* Close: Node.Stop calls it when the loop, and so every append, has ended.
Close ==
    /\ phase = "open" /\ \A w \in Writers : ~Busy(w)
    /\ phase' = "down"
    /\ recs'  = Synced(last)
    /\ UNCHANGED <<last, headed, waiting, flush, promised, appended, opens>>

\* The process is killed, or the machine fails: of what was not synced any tail
\* is lost; a torn record is cut off by the next replay.
Lost(k) ==
    /\ k < Len(recs) => ~recs[k + 1].synced
    /\ recs'  = SubSeq(recs, 1, k)
    /\ phase' = "down"
    /\ waiting' = {} /\ flush' = Idle
    /\ UNCHANGED <<promised, appended, opens>>

Crash ==
    /\ phase \in {"open", "down"}
    /\ \E k \in 0..Len(recs) : Lost(k)
    /\ UNCHANGED <<last, headed>>

\* The crash falls into openSegment, after the file of a new segment was created,
\* before or after its header was synced.
CrashInRotation ==
    /\ IF phase = "down" THEN last = 0 ELSE phase = "open" /\ Full
    /\ last' = last + 1
    /\ headed' \in {headed \cup {last + 1}} \cup (IF TornHeaders THEN {headed} ELSE {})
    /\ recs' = Synced(last)
    /\ phase' = "down"
    /\ waiting' = {} /\ flush' = Idle
    /\ UNCHANGED <<promised, appended, opens>>

-----------------------------------------------------------------------------
Next ==
    \/ Open
    \/ \E w \in Writers : (\E wait \in BOOLEAN : AppendSync(w, wait)) \/ Sync(w)
    \/ Capture
    \/ FlushSync
    \/ \E x \in flush.for : Reply(x)
    \/ Close
    \/ Crash
    \/ CrashInRotation

\* The flusher runs again at every tick of its ticker.
Fairness == WF_vars(Capture) /\ WF_vars(FlushSync) /\ WF_vars(\E x \in flush.for : Reply(x))

Spec == Init /\ [][Next]_vars /\ Fairness
=============================================================================
