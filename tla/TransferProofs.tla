--------------------------- MODULE TransferProofs ---------------------------
(***************************************************************************)
(* Transfers that overlap, time out and are cut by restarts never put the  *)
(* chunks together wrongly when at most one of the snapshots is split at   *)
(* all: what the follower installs is a whole snapshot.  (With two split   *)
(* snapshots it need not be: see the run mixed_chunks.)                    *)
(***************************************************************************)
EXTENDS TransferProperties, SequenceTheorems, TLAPS

\* At most one snapshot needs more than one chunk.
OneSplit == \A s, u \in Snapshots : Chunks[s] > 1 /\ Chunks[u] > 1 => s = u

\* A chunk of a snapshot the leader has taken.
Genuine(x) == x.snap \in 1..latest /\ x.chunk \in 1..Chunks[x.snap]

\* What the leader and its calls may hold.
LeaderInv ==
    /\ latest \in 0..MaxSnapshots
    /\ next \in Nat \ {0} /\ match \in Nat
    /\ sending => latest > 0
    /\ probe # None => probe \in Nat
    /\ transfer \in [Slots -> [snap : Nat, chunk : Nat, answered : BOOLEAN] \cup {None}]
    /\ \A t \in Slots : transfer[t] # None => Genuine(transfer[t])
    /\ \A c \in late : Genuine(c)

\* The Incoming holds the first chunks of its snapshot, in order, and lacks some.
IncomingBegins ==
    incoming # None =>
        /\ incoming \in [snap : 1..latest, got : Seq(Snapshots \X Nat)]
        /\ Len(incoming.got) \in 1..(Chunks[incoming.snap] - 1)
        /\ \A k \in 1..Len(incoming.got) : incoming.got[k] = <<incoming.snap, k>>

\* The machine is that of the newest file, which is whole and reaches lastApplied.
StoredWhole ==
    /\ stored.snap \in 0..latest
    /\ stored.snap > 0 => stored.data = Whole(stored.snap)
    /\ machine = stored.data
    /\ applied \in 0..stored.snap

TransferInv == LeaderInv /\ IncomingBegins /\ StoredWhole

-----------------------------------------------------------------------------
\* handleInstallSnapshot keeps the follower's part of the invariant for any chunk of
\* any snapshot the leader has taken.
LEMMA ReceiveKeeps ==
    ASSUME OneSplit, TransferInv, latest' = latest,
           NEW s, NEW c, s \in 1..latest, c \in 1..Chunks[s], Receive(s, c)
    PROVE  IncomingBegins' /\ StoredWhole'
  <1> DEFINE in == Receiving(s)
             got == Append(in.got, <<s, c>>)
             new == [snap |-> in.snap, data |-> got]
             file == Saved(stored, new)
  <1>1. s \in Snapshots /\ latest \in Nat /\ Chunks[s] \in Nat /\ c \in Nat
    BY TransferAssumption DEF TransferInv, LeaderInv, Snapshots
  <1>2. /\ in \in [snap : 1..latest, got : Seq(Snapshots \X Nat)]
        /\ Len(in.got) \in 0..(Chunks[in.snap] - 1)
        /\ \A k \in 1..Len(in.got) : in.got[k] = <<in.snap, k>>
        /\ in.snap \in Snapshots /\ Chunks[in.snap] \in Nat
    <2>1. CASE incoming = None
      <3>1. in = [snap |-> s, got |-> <<>>]
        BY <2>1 DEF Receiving
      <3> HIDE DEF in
      <3>2. in.snap = s /\ in.got = <<>> /\ Len(in.got) = 0 /\ s \in 1..latest
        BY <3>1
      <3>3. in \in [snap : 1..latest, got : Seq(Snapshots \X Nat)]
        BY <3>1
      <3> QED  BY <3>2, <3>3, <1>1
    <2>2. CASE incoming # None
      <3>1. in = incoming
        BY <2>2 DEF Receiving
      <3>2. in.snap \in Snapshots /\ Chunks[in.snap] \in Nat
        BY <3>1, <2>2, <1>1, TransferAssumption DEF TransferInv, LeaderInv, IncomingBegins, Snapshots
      <3> HIDE DEF in
      <3> QED  BY <3>1, <3>2, <2>2 DEF TransferInv, IncomingBegins
    <2> QED  BY <2>1, <2>2
  <1>3. ASSUME Fits(in, c)
        PROVE  /\ in.snap = s /\ got \in Seq(Snapshots \X Nat) /\ Len(got) = c
               /\ \A k \in 1..Len(got) : got[k] = <<s, k>>
    <2>1. in.snap = s
      <3>1. CASE incoming = None
        BY <3>1 DEF Receiving
      <3>2. CASE incoming # None
        <4>1. Len(in.got) >= 1 /\ Len(in.got) = c - 1
          BY <3>2, <1>3 DEF Fits, Receiving, TransferInv, IncomingBegins
        <4>2. Chunks[s] > 1 /\ Chunks[in.snap] > 1
          BY <4>1, <1>1, <1>2
        <4> QED  BY <4>2, <1>1, <1>2 DEF OneSplit
      <3> QED  BY <3>1, <3>2
    <2>2. got \in Seq(Snapshots \X Nat) /\ Len(got) = Len(in.got) + 1
      BY <1>1, <1>2
    <2>3. \A k \in 1..Len(got) : got[k] = <<s, k>>
      <3> TAKE k \in 1..Len(got)
      <3>1. Len(in.got) = c - 1 /\ Len(in.got) \in Nat
        BY <1>1, <1>2, <1>3 DEF Fits
      <3>2. CASE k \in 1..Len(in.got)
        BY <3>1, <3>2, <1>1, <1>2, <2>1
      <3>3. CASE k = Len(in.got) + 1
        BY <3>1, <3>3, <1>1, <1>2
      <3> QED  BY <3>2, <3>3, <3>1, <2>2
    <2> QED  BY <2>1, <2>2, <2>3, <1>1, <1>3 DEF Fits
  <1>4. CASE /\ ~Fits(in, c)
             /\ incoming' = None
             /\ UNCHANGED <<stored, machine, applied>>
    BY <1>4 DEF TransferInv, IncomingBegins, StoredWhole, Whole
  <1>5. CASE /\ Fits(in, c) /\ ~Done(s, c)
             /\ incoming' = [in EXCEPT !.got = got]
             /\ UNCHANGED <<stored, machine, applied>>
    <2>1. StoredWhole'
      BY <1>5 DEF TransferInv, StoredWhole, Whole
    <2>2. incoming'.snap = s /\ incoming'.got = got
      BY <1>2, <1>3, <1>5
    <2>3. incoming' \in [snap : 1..latest, got : Seq(Snapshots \X Nat)]
      BY <1>2, <1>3, <1>5
    <2>4. Len(incoming'.got) \in 1..(Chunks[incoming'.snap] - 1)
      BY <2>2, <1>1, <1>3, <1>5 DEF Done
    <2>5. \A k \in 1..Len(incoming'.got) : incoming'.got[k] = <<incoming'.snap, k>>
      BY <2>2, <1>3, <1>5
    <2>6. IncomingBegins'
      <3> HIDE DEF in, got
      <3> QED  BY <2>3, <2>4, <2>5 DEF IncomingBegins
    <2> QED  BY <2>1, <2>6
  <1>6. CASE /\ Fits(in, c) /\ Done(s, c)
             /\ incoming' = None
             /\ stored'   = file
             /\ machine'  = file.data
             /\ applied'  = s
    <2>1. new.snap = s /\ new.data = got
      BY <1>3, <1>6
    <2>2. got = Whole(s)
      <3>1. got = [k \in 1..Len(got) |-> got[k]]
        BY <1>3, <1>6
      <3> QED  BY <3>1, <1>3, <1>6 DEF Whole, Done
    <2>3. /\ file.snap \in s..latest
          /\ file.data = Whole(file.snap)
      <3>1. CASE new.snap >= stored.snap
        BY <3>1, <2>1, <2>2, <1>1 DEF Saved
      <3>2. CASE ~(new.snap >= stored.snap)
        BY <3>2, <2>1, <1>1 DEF Saved, TransferInv, StoredWhole
      <3> QED  BY <3>1, <3>2
    <2>4. StoredWhole'
      BY <2>3, <1>1, <1>6 DEF StoredWhole, Whole
    <2> QED  BY <2>4, <1>6 DEF IncomingBegins
  <1> QED  BY <1>4, <1>5, <1>6 DEF Receive

\* sendAppend starts a transfer of a snapshot the leader has.
LEMMA SendAppendKeeps ==
    ASSUME LeaderInv, UNCHANGED <<latest, late>>,
           NEW n \in Nat \ {0}, NEW f, f => latest > 0,
           NEW t \in Slots, NEW call, call # None => call \in Nat,
           next' \in Nat \ {0}, match' \in Nat, SendAppend(n, f, t, call)
    PROVE  LeaderInv'
  <1>1. latest \in Nat /\ MaxSnapshots \in Nat
    BY TransferAssumption DEF LeaderInv
  <1>2. CASE /\ f \/ n - 1 < latest
             /\ sending'  = TRUE
             /\ transfer' = [transfer EXCEPT ![t] = [snap |-> latest, chunk |-> 1, answered |-> FALSE]]
             /\ probe'    = call
    <2>1. latest > 0 /\ latest \in Snapshots /\ Chunks[latest] \in Nat \ {0}
      BY <1>1, <1>2, TransferAssumption DEF LeaderInv, Snapshots
    <2>2. (\A u \in Slots : transfer[u] # None => Genuine(transfer[u]))'
      BY <1>1, <1>2, <2>1 DEF LeaderInv, Genuine
    <2> QED  BY <1>1, <1>2, <2>1, <2>2 DEF LeaderInv, Genuine
  <1>3. CASE /\ ~f /\ n - 1 >= latest
             /\ sending'  = FALSE
             /\ transfer' = [transfer EXCEPT ![t] = None]
             /\ probe'    = n - 1
    <2>1. (\A u \in Slots : transfer[u] # None => Genuine(transfer[u]))'
      BY <1>3 DEF LeaderInv, Genuine
    <2> QED  BY <1>1, <1>3, <2>1 DEF LeaderInv, Genuine
  <1> QED  BY <1>2, <1>3 DEF SendAppend

-----------------------------------------------------------------------------
\* The first state has nothing under way and nothing installed.
LEMMA TransferInit == Init => TransferInv
  BY TransferAssumption
  DEF Init, TransferInv, LeaderInv, IncomingBegins, StoredWhole, NoFile, Genuine

\* No step breaks the invariant.
LEMMA TransferStep == OneSplit /\ TransferInv /\ [Next]_vars => TransferInv'
  <1> SUFFICES ASSUME OneSplit, TransferInv, [Next]_vars PROVE TransferInv'
    OBVIOUS
  <1>0. /\ latest \in Nat /\ MaxSnapshots \in Nat /\ applied \in Nat /\ match \in Nat
        /\ sending => latest > 0
    BY TransferAssumption DEF TransferInv, LeaderInv, StoredWhole
  <1>f. ASSUME UNCHANGED <<latest, followerVars>> PROVE IncomingBegins' /\ StoredWhole'
    BY <1>f DEF TransferInv, IncomingBegins, StoredWhole, Whole, followerVars
  <1>1. CASE Heartbeat
    <2>1. LeaderInv'
      <3> PICK t \in Slots \ Busy : /\ SendAppend(next, sending, t, probe)
                                     /\ UNCHANGED <<latest, next, match, late, followerVars>>
        BY <1>1 DEF Heartbeat
      <3> QED
        BY SendAppendKeeps DEF TransferInv, LeaderInv
    <2> QED  BY <1>1, <1>f, <2>1 DEF Heartbeat, TransferInv
  <1>2. CASE TakeSnapshot
    <2>1. LeaderInv'
      BY <1>2, <1>0 DEF TakeSnapshot, TransferInv, LeaderInv, Genuine
    <2>2. IncomingBegins' /\ StoredWhole'
      BY <1>2, <1>0 DEF TakeSnapshot, TransferInv, IncomingBegins, StoredWhole, Whole, followerVars
    <2> QED  BY <2>1, <2>2 DEF TransferInv
  <1>3. CASE Probe
    <2>1. UNCHANGED <<latest, late, faults, followerVars>> /\ probe \in Nat
      BY <1>3 DEF Probe, TransferInv, LeaderInv
    <2>2. next' \in Nat \ {0} /\ match' \in Nat
      BY <1>3, <2>1, <1>0 DEF Probe, BackUp
    <2>3. LeaderInv'
      <3>1. CASE probe' = None /\ UNCHANGED <<sending, transfer>>
        BY <3>1, <2>1, <2>2 DEF TransferInv, LeaderInv, Genuine
      <3>2. CASE \E t \in Slots \ Busy : SendAppend(next', sending, t, None)
        BY <3>2, <2>1, <2>2, SendAppendKeeps DEF TransferInv, LeaderInv
      <3> QED  BY <1>3, <3>1, <3>2 DEF Probe
    <2> QED  BY <2>1, <2>3, <1>f DEF TransferInv
  <1>4. CASE Restart
    <2>1. LeaderInv'
      BY <1>4 DEF Restart, TransferInv, LeaderInv, Genuine, leaderVars
    <2>2. IncomingBegins' /\ StoredWhole'
      BY <1>4, <1>0 DEF Restart, TransferInv, LeaderInv, IncomingBegins, StoredWhole, Whole, leaderVars
    <2> QED  BY <2>1, <2>2 DEF TransferInv
  <1>5. ASSUME NEW t \in Slots, Continue(t) PROVE TransferInv'
    <2> DEFINE x == transfer[t]
    <2>1. x # None /\ Genuine(x) /\ UNCHANGED <<latest, late, faults, followerVars>>
      BY <1>5 DEF Continue, TransferInv, LeaderInv
    <2>2. x \in [snap : Nat, chunk : Nat, answered : BOOLEAN] /\ Chunks[x.snap] \in Nat
      BY <2>1, TransferAssumption DEF TransferInv, LeaderInv, Genuine, Snapshots
    <2>3. CASE /\ ~Done(x.snap, x.chunk)
               /\ transfer' = [transfer EXCEPT ![t] = [snap |-> x.snap, chunk |-> x.chunk + 1, answered |-> FALSE]]
               /\ UNCHANGED <<sending, next, match, probe>>
      <3> DEFINE y == [snap |-> x.snap, chunk |-> x.chunk + 1, answered |-> FALSE]
      <3>1. /\ y \in [snap : Nat, chunk : Nat, answered : BOOLEAN]
            /\ y.snap = x.snap /\ y.chunk = x.chunk + 1
        BY <2>2
      <3>2. Genuine(y)
        BY <2>1, <2>2, <2>3, <3>1 DEF Genuine, Done
      <3> HIDE DEF x, y
      <3>3. (\A u \in Slots : transfer[u] # None => Genuine(transfer[u]))'
        BY <2>1, <2>3, <3>2 DEF TransferInv, LeaderInv, Genuine, y
      <3>4. LeaderInv'
        BY <2>1, <2>3, <3>1, <3>3 DEF TransferInv, LeaderInv, Genuine, y
      <3> QED  BY <2>1, <3>4, <1>f DEF TransferInv
    <2>4. CASE /\ Done(x.snap, x.chunk)
               /\ match' = x.snap
               /\ next'  = x.snap + 1
               /\ SendAppend(x.snap + 1, FALSE, t, probe)
      <3>1. LeaderInv'
        <4> DEFINE n == x.snap + 1
        <4>1. n \in Nat \ {0} /\ next' \in Nat \ {0} /\ match' \in Nat
          BY <2>1, <2>2, <2>4
        <4>2. SendAppend(n, FALSE, t, probe) /\ UNCHANGED <<latest, late>>
          BY <2>1, <2>4
        <4>3. LeaderInv /\ (probe # None => probe \in Nat)
          BY DEF TransferInv, LeaderInv
        <4> HIDE DEF n
        <4> QED  BY <4>1, <4>2, <4>3, SendAppendKeeps
      <3> QED  BY <2>1, <3>1, <1>f DEF TransferInv
    <2> QED  BY <1>5, <2>3, <2>4 DEF Continue
  <1>6. ASSUME NEW t \in Slots, TimeOut(t) PROVE TransferInv'
    <2> DEFINE x == transfer[t]
    <2>1. x # None /\ Genuine(x) /\ UNCHANGED <<latest, next, match, probe, followerVars>>
      BY <1>6 DEF TimeOut, TransferInv, LeaderInv
    <2>2. (\A c \in late : Genuine(c))'
      BY <1>6, <2>1 DEF TimeOut, TransferInv, LeaderInv, Genuine
    <2>3. LeaderInv'
      BY <1>6, <2>1, <2>2 DEF TimeOut, TransferInv, LeaderInv, Genuine
    <2> QED  BY <2>1, <2>3, <1>f DEF TransferInv
  <1>7. ASSUME NEW t \in Slots, Deliver(t) PROVE TransferInv'
    <2> DEFINE x == transfer[t]
    <2>1. /\ x # None /\ Genuine(x) /\ Receive(x.snap, x.chunk)
          /\ x \in [snap : Nat, chunk : Nat, answered : BOOLEAN]
          /\ transfer' = [transfer EXCEPT ![t].answered = TRUE]
          /\ UNCHANGED <<latest, sending, next, match, probe, late, faults>>
      BY <1>7 DEF Deliver, TransferInv, LeaderInv
    <2>2. (\A u \in Slots : transfer[u] # None => Genuine(transfer[u]))'
      BY <2>1 DEF TransferInv, LeaderInv, Genuine
    <2>3. LeaderInv'
      BY <2>1, <2>2 DEF TransferInv, LeaderInv, Genuine
    <2>4. IncomingBegins' /\ StoredWhole'
      BY <2>1, ReceiveKeeps DEF Genuine
    <2> QED  BY <2>3, <2>4 DEF TransferInv
  <1>8. ASSUME NEW c \in late, DeliverLate(c) PROVE TransferInv'
    <2>1. /\ Genuine(c) /\ Receive(c.snap, c.chunk) /\ late' = late \ {c}
          /\ UNCHANGED leaderVars
      BY <1>8 DEF DeliverLate, TransferInv, LeaderInv
    <2>2. LeaderInv'
      BY <2>1 DEF TransferInv, LeaderInv, Genuine, leaderVars
    <2>3. IncomingBegins' /\ StoredWhole'
      BY <2>1, ReceiveKeeps DEF Genuine, leaderVars
    <2> QED  BY <2>2, <2>3 DEF TransferInv
  <1>9. CASE UNCHANGED vars
    BY <1>9, <1>f DEF vars, leaderVars, TransferInv, LeaderInv, Genuine
  <1> QED
    BY <1>1, <1>2, <1>3, <1>4, <1>5, <1>6, <1>7, <1>8, <1>9 DEF Next

\* What is installed is a whole snapshot, each chunk once and in order, whatever
\* transfers overlap, time out, arrive late or are cut by a restart, as long as at most
\* one snapshot is larger than SnapshotChunkSize (handleInstallSnapshot).
THEOREM InstalledWholeHolds == ASSUME OneSplit PROVE Spec => []InstalledWhole
  <1>1. TransferInv => InstalledWhole
    BY TransferAssumption DEF TransferInv, LeaderInv, StoredWhole, InstalledWhole
  <1> QED  BY <1>1, TransferInit, TransferStep, PTL DEF Spec
=============================================================================
