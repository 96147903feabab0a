------------------------------ MODULE RaftLog ------------------------------
(***************************************************************************)
(* The in-memory log of a node, backend/internal/raft/log.go.  A log is    *)
(*   [snapIndex, snapTerm, ents]                                           *)
(* where the entries up to snapIndex have been replaced by a snapshot and  *)
(* ents is the slice of the later ones.  The slice is addressed BY         *)
(* POSITION (offset index - snapIndex - 1), while LastIndex reads the      *)
(* index STORED in the last entry: the two agree only on an aligned log,   *)
(* and nothing in log.go keeps a log aligned.                              *)
(***************************************************************************)
EXTENDS Integers, Sequences

MinOf(a, b) == IF a <= b THEN a ELSE b
MaxOf(a, b) == IF a >= b THEN a ELSE b

EmptyLog == [snapIndex |-> 0, snapTerm |-> 0, ents |-> <<>>]

LastIndex(log) ==
    IF log.ents = <<>> THEN log.snapIndex ELSE log.ents[Len(log.ents)].index

LastTerm(log) ==
    IF log.ents = <<>> THEN log.snapTerm ELSE log.ents[Len(log.ents)].term

\* The ok result of At, and the entry it returns.
Has(log, i) == i > log.snapIndex /\ i - log.snapIndex <= Len(log.ents)
At(log, i)  == log.ents[i - log.snapIndex]

\* The ok result of Term, and the term it returns (0 when it is not ok).
KnowsTerm(log, i) == i = 0 \/ i = log.snapIndex \/ Has(log, i)
Term(log, i) ==
    IF Has(log, i) THEN At(log, i).term
    ELSE IF i # 0 /\ i = log.snapIndex THEN log.snapTerm
    ELSE 0

\* Mutant: the slice starts one entry late.
SliceLate(log, lo, hi) == SubSeq(log.ents, lo + 1 - log.snapIndex, Len(log.ents))

\* Slice(lo, hi): hi is cut to the STORED last index, the loop then stops at
\* the first position that is not there.
Slice(log, lo, hi) ==
    LET from == MaxOf(lo, log.snapIndex + 1)
        to   == MinOf(MinOf(hi, LastIndex(log)), log.snapIndex + Len(log.ents))
    IN  IF from > to THEN <<>>
        ELSE SubSeq(log.ents, from - log.snapIndex, to - log.snapIndex)

AppendTo(log, es) == [log EXCEPT !.ents = @ \o es]

TruncateFrom(log, i) ==
    LET keep == i - log.snapIndex - 1
    IN  IF keep <= 0 THEN [log EXCEPT !.ents = <<>>]
        ELSE IF keep >= Len(log.ents) THEN log
        ELSE [log EXCEPT !.ents = SubSeq(@, 1, keep)]

\* Mutant: the compacted log keeps the last entry of the snapshot.
CompactKeepsOne(log, i, t) ==
    IF i < log.snapIndex THEN log
    ELSE [snapIndex |-> i, snapTerm |-> t,
          ents |-> SubSeq(log.ents, MaxOf(i - log.snapIndex, 1), Len(log.ents))]

Compact(log, i, t) ==
    LET off == i - log.snapIndex
        n   == Len(log.ents)
    IN  IF i < log.snapIndex THEN log
        ELSE [snapIndex |-> i,
              snapTerm  |-> t,
              ents      |-> IF off > 0 /\ off <= n THEN SubSeq(log.ents, off + 1, n)
                            ELSE IF i >= LastIndex(log) THEN <<>>
                            ELSE log.ents]

Restore(i, t) == [snapIndex |-> i, snapTerm |-> t, ents |-> <<>>]

(***************************************************************************)
(* The loop of handleAppendEntries over args.Entries, in closed form: drop *)
(* the log from the first entry of another term, append every entry that   *)
(* is not there.  es are consecutive entries.  An entry the snapshot       *)
(* already covers is reported absent by At, so the loop appends it at the  *)
(* END of the log.                                                         *)
(***************************************************************************)
Covered(log, es) ==
    IF es = <<>> THEN 0 ELSE MinOf(Len(es), MaxOf(0, log.snapIndex + 1 - es[1].index))

Stale(log, es) == SubSeq(es, 1, Covered(log, es))

\* The part of es after the covered ones that the loop appends.
Fresh(log, es) ==
    LET base  == AppendTo(log, Stale(log, es))
        News  == {k \in Covered(log, es) + 1 .. Len(es) :
                     Has(base, es[k].index) => At(base, es[k].index).term # es[k].term}
    IN  IF News = {} THEN <<>>
        ELSE SubSeq(es, CHOOSE k \in News : \A j \in News : k <= j, Len(es))

Appended(log, es) == Stale(log, es) \o Fresh(log, es)

\* Mutant: a conflicting entry is left in place, only the rest is appended.
MergeKeepsConflicts(log, es) ==
    AppendTo(log, SelectSeq(es, LAMBDA e : e.index > LastIndex(log)))

Merge(log, es) ==
    LET base  == AppendTo(log, Stale(log, es))
        fresh == Fresh(log, es)
    IN  IF fresh = <<>> THEN base
        ELSE AppendTo(TruncateFrom(base, fresh[1].index), fresh)

(***************************************************************************)
(* The entries restoreLog rebuilds from the write-ahead log: an entry      *)
(* whose index is not past the last one truncates first.  run is a list of *)
(* consecutive entries that one handler persisted.                         *)
(***************************************************************************)
\* Mutant: replaying the WAL never truncates.
ReplayAppends(wal, run) == AppendTo(wal, run)

Replay(wal, run) ==
    IF run = <<>> THEN wal
    ELSE IF run[1].index <= LastIndex(wal)
         THEN AppendTo(TruncateFrom(wal, run[1].index), run)
         ELSE AppendTo(wal, run)
=============================================================================
