------------------------- MODULE TransferProperties -------------------------
(***************************************************************************)
(* What a transfer of module SnapshotTransfer owes the two nodes.          *)
(***************************************************************************)
EXTENDS SnapshotTransfer

\* The chunks snapshot s is made of.
Whole(s) == [k \in 1..Chunks[s] |-> <<s, k>>]

\* A follower's state machine holds a whole snapshot, each chunk once and in order, and
\* one that reaches its lastApplied, however transfers overlap, time out and are begun
\* again (handleInstallSnapshot, Assembler.Add, New).
InstalledWhole == applied > 0 => \E s \in applied..latest : machine = Whole(s)

\* The follower gets the newest snapshot, and the leader knows it: timeouts,
\* restarts and overlapping heartbeats end, calls are answered.
CaughtUp == applied = latest /\ match = latest

EventuallyInstalled == <>[]CaughtUp

\* It does if at some time only one transfer is left: a transfer that ends without
\* having installed anything is found out and begun again (the AppendEntries call
\* of the final callback, its rejection, sendAppend).
InstalledWhenAlone ==
    <>[](\A t, u \in Busy : t = u) => EventuallyInstalled
=============================================================================
