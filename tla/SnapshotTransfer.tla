-------------------------- MODULE SnapshotTransfer --------------------------
(***************************************************************************)
(* How a leader hands its snapshot, chunk by chunk, to a follower that is  *)
(* behind its log: sendSnapshot and handleInstallSnapshot (raft/           *)
(* snapshot.go) with the Incoming and the Store of package snapshot.       *)
(*                                                                         *)
(* Module Raft takes a transfer for one call.  Here are the calls it is    *)
(* made of.  Every heartbeat may start a further transfer, a call may time *)
(* out and be delivered later, and the follower keeps ONE Incoming, which  *)
(* takes the next chunk from whatever transfer it comes.  A chunk that     *)
(* does not fit is answered like one that does.                            *)
(*                                                                         *)
(* One leader stays leader of its term, and its log ends where its newest  *)
(* snapshot does.  Snapshots are numbered by their LastIncludedIndex.      *)
(***************************************************************************)
EXTENDS Integers, Sequences

CONSTANTS
    None,           \* a nil Incoming, and a goroutine that has ended
    MaxSnapshots,   \* bound: the snapshots the leader takes
    Chunks,         \* Chunks[s]: the chunks snapshot s is split into
    Slots,          \* bound: the transfers under way at once
    MaxFaults       \* bound: timeouts, overlapping transfers and restarts

Snapshots == 1..MaxSnapshots

ASSUME TransferAssumption ==
    /\ MaxSnapshots \in Nat /\ MaxFaults \in Nat
    /\ Chunks \in [Snapshots -> Nat \ {0}]

VARIABLES
    latest,     \* leader: its newest snapshot, where its log starts
    sending,    \* leader: Progress.Snapshot
    next,       \* leader: Progress.NextIndex
    match,      \* leader: Progress.MatchIndex
    transfer,   \* the goroutines of sendSnapshot, each with the call it waits for
    late,       \* the chunks whose caller has given up
    probe,      \* the AppendEntries call under way: its PrevLogIndex, or None
    incoming,   \* follower: n.incoming
    stored,     \* follower: the newest file of its snapshot store
    machine,    \* follower: what its state machine was restored from
    applied,    \* follower: lastApplied, and the end of its log
    faults

leaderVars   == <<latest, sending, next, match, transfer, probe>>
followerVars == <<incoming, stored, machine, applied>>
vars         == <<leaderVars, followerVars, late, faults>>

NoFile == [snap |-> 0, data |-> <<>>]

\* Split: the last chunk says so, and so does that of an empty snapshot.
Done(snap, chunk) == chunk = Chunks[snap]

Init ==
    /\ latest = 0 /\ sending = FALSE /\ next = 1 /\ match = 0
    /\ transfer = [t \in Slots |-> None]
    /\ late = {} /\ probe = None
    /\ incoming = None /\ stored = NoFile /\ machine = <<>> /\ applied = 0
    /\ faults = 0

-----------------------------------------------------------------------------
(***************************************************************************)
(* The leader.                                                             *)
(***************************************************************************)
Busy == {t \in Slots : transfer[t] # None}

\* sendAppend to a follower with NextIndex n and flag Snapshot f: the newest
\* snapshot, in slot t, or an AppendEntries call, which replaces the one (call) that
\* may still be under way.
SendAppend(n, f, t, call) ==
    \/ /\ f \/ n - 1 < latest
       /\ sending'  = TRUE
       /\ transfer' = [transfer EXCEPT ![t] = [snap |-> latest, chunk |-> 1, answered |-> FALSE]]
       /\ probe'    = call
    \/ /\ ~f /\ n - 1 >= latest
       /\ sending'  = FALSE
       /\ transfer' = [transfer EXCEPT ![t] = None]
       /\ probe'    = n - 1

Heartbeat ==
    \E t \in Slots \ Busy :
        /\ \/ Busy = {} /\ UNCHANGED faults
           \/ Busy # {} /\ faults < MaxFaults /\ faults' = faults + 1
        /\ SendAppend(next, sending, t, probe)
        /\ UNCHANGED <<latest, next, match, late, followerVars>>

\* maybeSnapshot
TakeSnapshot ==
    /\ latest < MaxSnapshots
    /\ latest' = latest + 1
    /\ UNCHANGED <<sending, next, match, transfer, probe, late, followerVars, faults>>

\* The answer to a chunk: the next chunk, or the final callback.
Continue(t) ==
    LET x == transfer[t]
    IN  /\ x # None /\ x.answered
        /\ \/ /\ ~Done(x.snap, x.chunk)
              /\ transfer' = [transfer EXCEPT
                    ![t] = [snap |-> x.snap, chunk |-> x.chunk + 1, answered |-> FALSE]]
              /\ UNCHANGED <<sending, next, match, probe>>
           \/ /\ Done(x.snap, x.chunk)
              /\ match' = x.snap
              /\ next'  = x.snap + 1
              /\ SendAppend(x.snap + 1, FALSE, t, probe)
        /\ UNCHANGED <<latest, late, faults, followerVars>>

\* The call of a transfer times out, and its chunk may still be delivered.
TimeOut(t) ==
    LET x == transfer[t]
    IN  /\ x # None /\ faults < MaxFaults
        /\ faults'   = faults + 1
        /\ sending'  = FALSE
        /\ transfer' = [transfer EXCEPT ![t] = None]
        /\ late'     = IF x.answered THEN late ELSE late \cup {[snap |-> x.snap, chunk |-> x.chunk]}
        /\ UNCHANGED <<latest, next, match, probe, followerVars>>

-----------------------------------------------------------------------------
(***************************************************************************)
(* The follower.                                                           *)
(***************************************************************************)
\* Mutant: Assembler.Add takes a chunk at any offset.
FitsAnywhere(in, chunk) == TRUE

\* Assembler.Add: the chunk starts where the ones before end.
Fits(in, chunk) == Len(in.got) = chunk - 1

\* BeginInstall, unless a transfer is being received.
Receiving(snap) == IF incoming = None THEN [snap |-> snap, got |-> <<>>] ELSE incoming

\* Store.Save then Latest: the newest snapshot is the one of the largest index.
Saved(old, new) == IF new.snap >= old.snap THEN new ELSE old

\* handleInstallSnapshot.  A transfer that completes is saved under the number of
\* the chunk that began it; the log and lastApplied get that of the one that ends
\* it; the machine is restored from the newest file.
Receive(snap, chunk) ==
    LET in   == Receiving(snap)
        got  == Append(in.got, <<snap, chunk>>)
        file == Saved(stored, [snap |-> in.snap, data |-> got])
    IN  \/ /\ ~Fits(in, chunk)
           /\ incoming' = None
           /\ UNCHANGED <<stored, machine, applied>>
        \/ /\ Fits(in, chunk) /\ ~Done(snap, chunk)
           /\ incoming' = [in EXCEPT !.got = got]
           /\ UNCHANGED <<stored, machine, applied>>
        \/ /\ Fits(in, chunk) /\ Done(snap, chunk)
           /\ incoming' = None
           /\ stored'   = file
           /\ machine'  = file.data
           /\ applied'  = snap

Deliver(t) ==
    LET x == transfer[t]
    IN  /\ x # None /\ ~x.answered
        /\ Receive(x.snap, x.chunk)
        /\ transfer' = [transfer EXCEPT ![t].answered = TRUE]
        /\ UNCHANGED <<latest, sending, next, match, probe, late, faults>>

DeliverLate(c) ==
    /\ Receive(c.snap, c.chunk)
    /\ late' = late \ {c}
    /\ UNCHANGED <<leaderVars, faults>>

\* New: the Incoming is lost, the newest file is what the machine starts from.
Restart ==
    /\ faults < MaxFaults
    /\ faults'   = faults + 1
    /\ incoming' = None
    /\ machine'  = stored.data
    /\ applied'  = stored.snap
    /\ UNCHANGED <<leaderVars, late, stored>>

\* Mutant: a rejection does not take NextIndex back below MatchIndex.
BackToMatch == match + 1

\* The NextIndex that a rejection leads to: the ConflictIndex of the follower.
BackUp == applied + 1

\* The AppendEntries call is handled and answered (handleAppendEntries,
\* onAppendReply): the follower has the entry before it, or reports where its log
\* ends.
Probe ==
    /\ probe # None
    /\ \/ /\ probe \in {0, applied}
          /\ match' = CASE applied > match                    -> applied
                       [] applied <= match /\ probe > match -> probe
                       [] OTHER                             -> match
          /\ next'  = match' + 1
       \/ /\ probe \notin {0, applied}
          /\ next' = BackUp
          /\ UNCHANGED match
    /\ \/ /\ probe \in {0, applied} /\ next' > latest
          /\ probe' = None
          /\ UNCHANGED <<sending, transfer>>
       \/ /\ probe \notin {0, applied} \/ next' <= latest
          /\ \E t \in Slots \ Busy : SendAppend(next', sending, t, None)
    /\ UNCHANGED <<latest, late, faults, followerVars>>

-----------------------------------------------------------------------------
Next ==
    \/ Heartbeat \/ TakeSnapshot \/ Probe \/ Restart
    \/ \E t \in Slots : Continue(t) \/ TimeOut(t) \/ Deliver(t)
    \/ \E c \in late : DeliverLate(c)

\* The leader's ticker never stops, and a call that does not time out is handled and
\* answered.  (A late chunk may never arrive, a snapshot may never be taken.)
Fairness ==
    /\ WF_vars(Heartbeat) /\ WF_vars(Probe)
    /\ \A t \in Slots : WF_vars(Continue(t)) /\ WF_vars(Deliver(t))

Spec == Init /\ [][Next]_vars /\ Fairness
=============================================================================
