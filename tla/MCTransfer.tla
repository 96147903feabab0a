----------------------------- MODULE MCTransfer -----------------------------
(* Instances of SnapshotTransfer for TLC. *)
EXTENDS TransferProperties

CONSTANTS First, Size   \* the chunks of the first snapshot, and of the others

ChunksOf == [s \in Snapshots |-> IF s = 1 THEN First ELSE Size]
=============================================================================
