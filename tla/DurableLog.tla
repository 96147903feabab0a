---------------------------- MODULE DurableLog ----------------------------
(***************************************************************************)
(* What the write-ahead log promises to the raft node: a sequence of       *)
(* records that only grows at its end, of which a crash takes away at most *)
(* the records nobody was told are safe.                                   *)
(***************************************************************************)
EXTENDS Integers, Sequences

CONSTANT Records    \* what can be logged

VARIABLES
    log,        \* the records a recovery would return
    promised    \* the length of the log that was reported safe

vars == <<log, promised>>

Init == log = <<>> /\ promised = 0

Extend(r) == log' = Append(log, r) /\ UNCHANGED promised

Promise(k) == promised' = k /\ UNCHANGED log

Lose(k) == log' = SubSeq(log, 1, k) /\ UNCHANGED promised

Next ==
    \/ \E r \in Records : Extend(r)
    \/ \E k \in promised + 1 .. Len(log) : Promise(k)
    \/ \E k \in promised .. Len(log) : Lose(k)

Spec == Init /\ [][Next]_vars
=============================================================================
