---------------------------- MODULE CommitProofs ----------------------------
(***************************************************************************)
(* What is committed stays: as long as the voters stay the same, no node   *)
(* has taken a snapshot, and no node is stopped while it serves an         *)
(* AppendEntries call, later leaders have it, all nodes apply the same     *)
(* entries, and a quorum holds what a proposer was told.                   *)
(***************************************************************************)
EXTENDS MatchProofs

-----------------------------------------------------------------------------
(***************************************************************************)
(* Beginnings of logs, and what a call makes of a log that has one.        *)
(***************************************************************************)

\* The first n entries of a and b are the same.
Share(a, b, n) ==
    /\ n <= Len(a.ents) /\ n <= Len(b.ents)
    /\ \A x \in 1..n : a.ents[x] = b.ents[x]

LEMMA UptoBegins ==
    ASSUME NEW log \in Logs, Aligned(log), NEW x \in 1..Len(log.ents)
    PROVE  LET p == Upto(log, x)
           IN  /\ p \in Logs /\ Aligned(p) /\ Len(p.ents) = x /\ Begins(p, log)
               /\ LastTerm(p) = log.ents[x].term /\ p.ents = SubSeq(log.ents, 1, x)
<1> DEFINE p == Upto(log, x)
<1>1. log.ents \in Seq(Entries) /\ Len(log.ents) \in Nat
  BY DEF Logs
<1>2. p.snapIndex = 0 /\ p.snapTerm = 0 /\ p.ents = SubSeq(log.ents, 1, x)
  BY DEF Upto
<1>3. SubSeq(log.ents, 1, x) \in Seq(Entries) /\ Len(SubSeq(log.ents, 1, x)) = x
  BY <1>1
<1>4. \A y \in 1..x : SubSeq(log.ents, 1, x)[y] = log.ents[y]
  BY <1>1
<1>5. p = [snapIndex |-> 0, snapTerm |-> 0, ents |-> SubSeq(log.ents, 1, x)]
  BY DEF Upto
<1>6. p \in Logs
  BY <1>3, <1>5 DEF Logs
<1> HIDE DEF p
<1>7. x <= Len(log.ents) /\ x \in 1..x /\ x # 0
  BY <1>1
<1>8. p.ents # <<>>
  BY <1>2, <1>3, <1>7
<1>9. \A y \in 1..x : y \in 1..Len(log.ents)
  BY <1>1
<1> QED BY <1>2, <1>3, <1>4, <1>6, <1>7, <1>8, <1>9 DEF p, Aligned, Begins, LastTerm

\* Logs that are the same up to x have the same beginning.
LEMMA UptoSame ==
    ASSUME NEW a \in Logs, NEW b \in Logs, NEW x \in 1..Len(a.ents), Share(a, b, x)
    PROVE  Upto(a, x) = Upto(b, x)
<1>1. a.ents \in Seq(Entries) /\ b.ents \in Seq(Entries) /\ Len(a.ents) \in Nat /\ Len(b.ents) \in Nat
  BY DEF Logs
<1>2. x <= Len(b.ents) /\ \A y \in 1..x : a.ents[y] = b.ents[y]
  BY DEF Share
<1>3. SubSeq(a.ents, 1, x) = SubSeq(b.ents, 1, x)
  BY <1>1, <1>2
<1> QED BY <1>3 DEF Upto

LEMMA BeginsShares ==
    ASSUME NEW p \in Logs, NEW log \in Logs
    PROVE  Begins(p, log) <=> Share(log, p, Len(p.ents))
<1>1. Len(p.ents) \in Nat /\ Len(log.ents) \in Nat
  BY DEF Logs
<1> QED BY <1>1 DEF Begins, Share

\* The last entry of a beginning with entries.
LEMMA LastOf ==
    ASSUME NEW p \in Logs, Len(p.ents) > 0
    PROVE  /\ Len(p.ents) \in Nat /\ Len(p.ents) \in 1..Len(p.ents) /\ p.ents # <<>>
           /\ LastTerm(p) = p.ents[Len(p.ents)].term /\ LastTerm(p) \in Nat
           /\ \A x \in 1..Len(p.ents) : p.ents[x].term \in Nat
<1>1. p.ents \in Seq(Entries) /\ Len(p.ents) \in Nat
  BY DEF Logs
<1>2. \A x \in 1..Len(p.ents) : p.ents[x].term \in Nat
  BY <1>1 DEF Entries
<1>3. p.ents # <<>> /\ Len(p.ents) \in 1..Len(p.ents)
  BY <1>1
<1> QED BY <1>1, <1>2, <1>3 DEF LastTerm

\* A splice that brings nothing else keeps what a log and p have in common.
LEMMA SpliceKeeps ==
    ASSUME NEW log \in Logs, NEW p \in Logs, NEW n \in Nat, Share(log, p, n),
           NEW prev \in Nat, NEW es \in Seq(Entries),
           \A k \in 1..Len(es) : prev + k <= n => es[k] = p.ents[prev + k],
           NEW new, Spliced(log, prev, es, new)
    PROVE  Share(new, p, n)
<1>1. /\ Len(log.ents) \in Nat /\ Len(p.ents) \in Nat /\ Len(es) \in Nat
      /\ new \in Logs /\ Len(new.ents) \in Nat
  BY DEF Logs, Spliced
<1>2. n <= Len(log.ents) /\ n <= Len(p.ents) /\ \A x \in 1..n : log.ents[x] = p.ents[x]
  BY DEF Share
<1>3. ASSUME NEW f \in 1..Len(es), Overwritten(log, prev, es, new, f) PROVE Share(new, p, n)
  <2>1. /\ prev + f <= Len(log.ents) => log.ents[prev + f].term # es[f].term
        /\ Len(new.ents) = prev + Len(es)
        /\ \A x \in 1..(prev + f) - 1 : new.ents[x] = log.ents[x]
    BY <1>3 DEF Overwritten
  <2>2. f \in Nat /\ f >= 1 /\ f <= Len(es)
    BY <1>1
  <2>3. ~(prev + f <= n)
    <3>1. ASSUME prev + f <= n PROVE FALSE
      <4>1. prev + f <= Len(log.ents) /\ prev + f \in 1..n
        BY <1>1, <1>2, <2>2, <3>1
      <4>2. es[f] = p.ents[prev + f] /\ log.ents[prev + f] = p.ents[prev + f]
        BY <1>2, <3>1, <4>1
      <4> QED BY <2>1, <4>1, <4>2
    <3> QED BY <3>1
  <2>4. n <= Len(new.ents) /\ \A x \in 1..n : x \in 1..(prev + f) - 1
    BY <1>1, <2>1, <2>2, <2>3
  <2> QED BY <1>2, <2>1, <2>4 DEF Share
<1> QED BY <1>3 DEF Spliced

\* A copy of a log that has p fits p.
LEMMA FitsCopy ==
    ASSUME NEW log \in Logs, Aligned(log), Sorted(log), NEW p \in Logs, Len(p.ents) > 0,
           Begins(p, log), NEW m, CopyOf(m, log), m.prevIndex \in Nat, Len(m.ents) \in Nat
    PROVE  Fits(m, p)
<1> DEFINE prev == m.prevIndex
           len  == Len(log.ents)
           n    == Len(p.ents)
<1>1. /\ len \in Nat /\ n \in Nat /\ n \in 1..n /\ n <= len
      /\ \A x \in 1..n : p.ents[x] = log.ents[x]
  BY LastOf DEF Logs, Begins
<1>2. /\ prev \in 0..len /\ m.prevTerm = Term(log, prev) /\ prev + Len(m.ents) <= len
      /\ \A k \in 1..Len(m.ents) : m.ents[k] = log.ents[prev + k]
  BY DEF CopyOf
<1>3. Term(log, prev) = IF prev \in 1..len THEN log.ents[prev].term ELSE 0
  <2>1. prev \in Int
    BY <1>1, <1>2
  <2> QED BY <2>1, AlignedReads
<1>4. LastTerm(p) = log.ents[n].term
  BY <1>1, LastOf
<1> HIDE DEF prev, len, n
<1>5. ASSUME NEW k \in 1..Len(m.ents), prev + k <= n PROVE m.ents[k] = p.ents[prev + k]
  <2>1. prev + k \in 1..n
    BY <1>1, <1>2, <1>5 DEF prev
  <2> QED BY <1>1, <1>2, <2>1
<1>6. prev \in 1..n => m.prevTerm = p.ents[prev].term
  <2>1. prev \in 1..n => prev \in 1..len
    BY <1>1
  <2> QED BY <1>1, <1>2, <1>3, <2>1
<1>7. prev > n => m.prevTerm >= LastTerm(p)
  <2>1. prev > n => prev \in 1..len /\ n \in 1..len /\ n <= prev
    BY <1>1, <1>2
  <2> QED BY <1>2, <1>3, <1>4, <2>1 DEF Sorted, len
<1> QED BY <1>5, <1>6, <1>7 DEF Fits, prev, n


\* Where an overwrite starts in p, the new log agrees with p.
LEMMA OverwriteMeets ==
    ASSUME NEW log \in Logs, Aligned(log), NEW p \in Logs, Len(p.ents) > 0, Agree(log, p),
           NEW m, m.prevIndex \in Nat, m.ents \in Seq(Entries), ~Conflicts(log, m), Fits(m, p),
           NEW es \in Seq(Entries), Len(es) <= Len(m.ents), \A k \in 1..Len(es) : es[k] = m.ents[k],
           NEW new \in Logs, NEW f \in 1..Len(es), Overwritten(log, m.prevIndex, es, new, f),
           m.prevIndex + f <= Len(p.ents)
    PROVE  \A x \in 1..Len(p.ents) : x <= Len(new.ents) => new.ents[x] = p.ents[x]
<1> DEFINE prev == m.prevIndex
           len  == Len(log.ents)
           n    == Len(p.ents)
           z    == prev + f
<1>1. /\ len \in Nat /\ n \in Nat /\ Len(es) \in Nat /\ Len(m.ents) \in Nat /\ prev \in Nat
      /\ f \in Nat /\ f >= 1 /\ f <= Len(es) /\ z \in Nat /\ z <= n /\ Len(new.ents) \in Nat
  BY DEF Logs
<1>2. /\ z <= len + 1
      /\ \A k \in 1..f - 1 : log.ents[prev + k].term = es[k].term
      /\ Len(new.ents) = prev + Len(es)
      /\ \A x \in 1..z - 1 : new.ents[x] = log.ents[x]
      /\ \A k \in f..Len(es) : new.ents[prev + k] = es[k]
  BY DEF Overwritten
<1>3. /\ LastIndex(log) = len /\ Term(log, prev) = IF prev \in 1..len THEN log.ents[prev].term ELSE 0
  <2>1. prev \in Int
    BY <1>1
  <2> QED BY <2>1, AlignedReads
<1>4. prev > 0 => prev \in 1..len /\ log.ents[prev].term = m.prevTerm
  BY <1>1, <1>3 DEF Conflicts
<1> HIDE DEF len, n, z
<1>5. \A k \in 1..Len(es) : prev + k <= n => es[k] = p.ents[prev + k]
  <2>1. \A k \in 1..Len(es) : k \in 1..Len(m.ents)
    BY <1>1
  <2> QED BY <2>1 DEF Fits, n, prev
<1>6. z - 1 >= 1 => log.ents[z - 1].term = p.ents[z - 1].term
  <2>0. prev \in 1..n => m.prevTerm = p.ents[prev].term
    BY DEF Fits, n
  <2>1. CASE f = 1
    <3>1. z - 1 = prev /\ (z - 1 >= 1 => prev > 0 /\ prev \in 1..n)
      BY <1>1, <2>1 DEF z
    <3> HIDE DEF prev
    <3>2. prev > 0 /\ prev \in 1..n => log.ents[prev].term = p.ents[prev].term
      BY <1>4, <2>0
    <3> QED BY <3>1, <3>2
  <2>2. CASE f # 1
    <3>1. f - 1 \in 1..f - 1 /\ f - 1 \in 1..Len(es) /\ prev + (f - 1) = z - 1 /\ prev + (f - 1) <= n
      BY <1>1, <2>2 DEF z
    <3>2. log.ents[prev + (f - 1)].term = es[f - 1].term /\ es[f - 1] = p.ents[prev + (f - 1)]
      BY <1>2, <1>5, <3>1
    <3> QED BY <3>1, <3>2
  <2> QED BY <2>1, <2>2
<1>7. \A x \in 1..z - 1 : log.ents[x] = p.ents[x]
  <2>1. CASE z - 1 >= 1
    <3>1. z - 1 \in 1..len /\ z - 1 <= n
      BY <1>1, <1>2, <2>1
    <3> QED BY <1>6, <2>1, <3>1 DEF Agree, len, n
  <2>2. CASE ~(z - 1 >= 1)
    BY <1>1, <2>2
  <2> QED BY <2>1, <2>2
<1>8. ASSUME NEW x \in 1..n, x <= Len(new.ents) PROVE new.ents[x] = p.ents[x]
  <2>1. CASE x <= z - 1
    <3>1. x \in 1..z - 1
      BY <1>1, <2>1
    <3> QED BY <1>2, <1>7, <3>1
  <2>2. CASE ~(x <= z - 1)
    <3>1. x - prev \in f..Len(es) /\ x - prev \in 1..Len(es) /\ prev + (x - prev) = x
      BY <1>1, <1>2, <1>8, <2>2 DEF z
    <3> QED BY <1>2, <1>5, <1>8, <3>1
  <2> QED BY <2>1, <2>2
<1> QED BY <1>8 DEF n

\* Where it starts behind p, the log had reached p.
LEMMA OverwriteBehind ==
    ASSUME NEW log \in Logs, Aligned(log), NEW p \in Logs, Len(p.ents) > 0,
           NEW m, m.prevIndex \in Nat, m.prevTerm \in Nat, m.ents \in Seq(Entries),
           ~Conflicts(log, m), Fits(m, p),
           NEW es \in Seq(Entries), Len(es) <= Len(m.ents), \A k \in 1..Len(es) : es[k] = m.ents[k],
           NEW f \in Nat \ {0}, f <= Len(es) + 1,
           \A k \in 1..f - 1 : log.ents[m.prevIndex + k].term = es[k].term,
           m.prevIndex + f <= Len(log.ents) + 1,
           ~(m.prevIndex + f <= Len(p.ents))
    PROVE  Reaches(log, p)
<1> DEFINE prev == m.prevIndex
           len  == Len(log.ents)
           n    == Len(p.ents)
           z    == prev + f
<1>1. /\ len \in Nat /\ n \in Nat /\ n \in 1..n /\ Len(es) \in Nat /\ Len(m.ents) \in Nat
      /\ prev \in Nat /\ f >= 1 /\ z \in Nat /\ z > n /\ z <= len + 1
      /\ LastTerm(p) \in Nat /\ LastTerm(p) = p.ents[n].term
  BY LastOf DEF Logs
<1>2. /\ LastIndex(log) = len /\ Term(log, prev) = IF prev \in 1..len THEN log.ents[prev].term ELSE 0
  <2>1. prev \in Int
    BY <1>1
  <2> QED BY <2>1, AlignedReads
<1>3. prev > 0 => prev \in 1..len /\ log.ents[prev].term = m.prevTerm
  BY <1>1, <1>2 DEF Conflicts
<1> HIDE DEF len, n, z
<1>4. CASE prev >= n
  <2>1. prev \in 1..len /\ log.ents[prev].term = m.prevTerm
    BY <1>1, <1>3, <1>4
  <2>2. m.prevTerm >= LastTerm(p)
    <3>1. CASE prev > n
      BY <3>1 DEF Fits, n
    <3>2. CASE prev = n
      BY <1>1, <3>2 DEF Fits, n
    <3> QED BY <1>1, <1>4, <3>1, <3>2
  <2> HIDE DEF prev
  <2>3. log.ents[prev].term > LastTerm(p) \/ log.ents[prev].term = LastTerm(p)
    BY <1>1, <2>1, <2>2
  <2>4. prev \in 1..Len(log.ents) /\ prev >= Len(p.ents)
    BY <1>4, <2>1 DEF len, n
  <2> QED BY <2>3, <2>4 DEF Reaches
<1>5. CASE ~(prev >= n)
  <2> DEFINE le == Len(es)
             lm == Len(m.ents)
             k  == n - prev
  <2>1. k \in 1..f - 1 /\ prev + k = n /\ n \in 1..len /\ k \in 1..lm /\ k \in 1..le
    <3>1. le \in Nat /\ lm \in Nat /\ le <= lm /\ f <= le + 1 /\ f \in Nat
      BY <1>1
    <3> HIDE DEF le, lm, prev
    <3> QED BY <1>1, <1>5, <3>1 DEF z
  <2> HIDE DEF k
  <2>2. log.ents[n].term = es[k].term /\ es[k] = m.ents[k]
    BY <2>1
  <2>3. m.ents[k] = p.ents[n]
    <3>1. prev + k <= n
      BY <1>1, <2>1
    <3>2. m.ents[k] = p.ents[prev + k]
      BY <2>1, <3>1 DEF Fits, n
    <3> QED BY <2>1, <3>2
  <2>4. log.ents[n].term = LastTerm(p) /\ n \in 1..Len(log.ents) /\ n >= Len(p.ents)
    BY <1>1, <2>1, <2>2, <2>3 DEF n, len
  <2> QED BY <2>4 DEF Reaches
<1> QED BY <1>4, <1>5

\* Taking a call that fits p does not make a log reach p without having it.
LEMMA AcceptReaches ==
    ASSUME NEW log \in Logs, Aligned(log), NEW p \in Logs, Len(p.ents) > 0, Sorted(p), Agree(log, p),
           NEW m, m.prevIndex \in Nat, m.prevTerm \in Nat, m.ents \in Seq(Entries),
           ~Conflicts(log, m), Fits(m, p),
           NEW es \in Seq(Entries), Len(es) <= Len(m.ents), \A k \in 1..Len(es) : es[k] = m.ents[k],
           NEW new, Spliced(log, m.prevIndex, es, new),
           Reaches(log, p) => Begins(p, log), Reaches(new, p)
    PROVE  Begins(p, new)
<1> DEFINE prev == m.prevIndex
           n    == Len(p.ents)
<1>1. /\ Len(log.ents) \in Nat /\ n \in Nat /\ n \in 1..n /\ Len(es) \in Nat /\ Len(m.ents) \in Nat
      /\ prev \in Nat /\ LastTerm(p) \in Nat /\ LastTerm(p) = p.ents[n].term
      /\ new \in Logs /\ Len(new.ents) \in Nat
      /\ \A x \in 1..Len(new.ents) : new.ents[x].term \in Nat
      /\ \A x \in 1..n : p.ents[x].term \in Nat
  <2>1. new \in Logs
    BY DEF Spliced
  <2>2. \A b \in Logs : Len(b.ents) \in Nat /\ \A x \in 1..Len(b.ents) : b.ents[x].term \in Nat
    BY DEF Logs, Entries
  <2> QED BY <2>1, <2>2, LastOf
<1> HIDE DEF prev, n
<1>2. Reaches(log, p) => Begins(p, new)
  <2> SUFFICES ASSUME Reaches(log, p) PROVE Begins(p, new)
    OBVIOUS
  <2>1. Share(log, p, n)
    BY BeginsShares DEF n
  <2>2. \A k \in 1..Len(es) : prev + k <= n => es[k] = p.ents[prev + k]
    <3>1. \A k \in 1..Len(es) : k \in 1..Len(m.ents)
      BY <1>1
    <3> QED BY <3>1 DEF Fits, n, prev
  <2>3. Share(new, p, n)
    BY <1>1, <2>1, <2>2, SpliceKeeps DEF prev
  <2> QED BY <1>1, <2>3, BeginsShares DEF n
<1>3. CASE new = log
  BY <1>2, <1>3
<1>4. ASSUME NEW f \in 1..Len(es), Overwritten(log, prev, es, new, f) PROVE Begins(p, new)
  <2>1. /\ prev + f <= Len(log.ents) + 1
        /\ \A k \in 1..f - 1 : log.ents[prev + k].term = es[k].term
        /\ Len(new.ents) = prev + Len(es)
        /\ \A x \in 1..(prev + f) - 1 : new.ents[x] = log.ents[x]
    BY <1>4 DEF Overwritten
  <2>2. f \in Nat \ {0} /\ f <= Len(es) + 1 /\ f <= Len(es)
    BY <1>1
  <2>3. CASE ~(prev + f <= n)
    <3>1. Reaches(log, p)
      BY <2>1, <2>2, <2>3, OverwriteBehind DEF prev, n
    <3> QED BY <1>2, <3>1
  <2>4. CASE prev + f <= n
    <3>1. \A x \in 1..n : x <= Len(new.ents) => new.ents[x] = p.ents[x]
      BY <1>1, <1>4, <2>4, OverwriteMeets DEF prev, n
    <3>2. PICK y \in 1..Len(new.ents) : \/ new.ents[y].term > LastTerm(p)
                                        \/ new.ents[y].term = LastTerm(p) /\ y >= n
      BY DEF Reaches, n
    <3>3. CASE y >= n
      <4>1. n <= Len(new.ents)
        BY <1>1, <3>3
      <4> QED BY <1>1, <3>1, <4>1 DEF Begins, n
    <3>4. CASE ~(y >= n)
      <4>1. y \in 1..n /\ y <= Len(new.ents) /\ new.ents[y].term > LastTerm(p) /\ y <= n
        BY <1>1, <3>2, <3>4
      <4>2. p.ents[y].term > p.ents[n].term
        BY <1>1, <3>1, <4>1
      <4>3. p.ents[y].term <= p.ents[n].term
        BY <1>1, <4>1 DEF Sorted, n
      <4> QED BY <1>1, <4>1, <4>2, <4>3
    <3> QED BY <3>3, <3>4
  <2> QED BY <2>3, <2>4
<1> QED BY <1>3, <1>4 DEF Spliced, prev

\* A log of terms up to term that takes a call of term agrees with p, if it did
\* before or the call cuts it off at the fork.
LEMMA AcceptCompares ==
    ASSUME NEW log \in Logs, Aligned(log), Sorted(log),
           NEW p \in Logs, Len(p.ents) > 0, Sorted(p), Agree(log, p),
           NEW m, m.prevIndex \in Nat, m.prevTerm \in Nat, m.ents \in Seq(Entries), m.term \in Nat,
           \A x \in 1..Len(log.ents) : log.ents[x].term <= m.term,
           LastTerm(p) <= m.term, m.ents = <<>> => m.prevIndex > 0 /\ m.prevTerm = m.term,
           ~Conflicts(log, m), Fits(m, p),
           NEW es \in Seq(Entries), Len(es) <= Len(m.ents), \A k \in 1..Len(es) : es[k] = m.ents[k],
           es = <<>> => m.ents = <<>>,
           NEW new, Spliced(log, m.prevIndex, es, new),
           Reaches(log, p) => Begins(p, log),
           Begins(log, p) \/ Begins(p, log) \/ PastFork(p, log, m.prevIndex)
    PROVE  Begins(new, p) \/ Begins(p, new)
<1> DEFINE prev == m.prevIndex
           le   == Len(es)
           len  == Len(log.ents)
           n    == Len(p.ents)
<1>1. /\ len \in Nat /\ n \in Nat /\ n \in 1..n /\ le \in Nat /\ prev \in Nat /\ n > 0
      /\ LastTerm(p) \in Nat /\ LastTerm(p) = p.ents[n].term
      /\ new \in Logs /\ Len(new.ents) \in Nat
      /\ \A x \in 1..len : log.ents[x].term \in Nat
      /\ \A x \in 1..n : p.ents[x].term \in Nat
  <2>1. new \in Logs
    BY DEF Spliced
  <2>2. \A b \in Logs : Len(b.ents) \in Nat /\ \A x \in 1..Len(b.ents) : b.ents[x].term \in Nat
    BY DEF Logs, Entries
  <2> QED BY <2>1, <2>2, LastOf
<1>2. /\ LastIndex(log) = len /\ Term(log, prev) = IF prev \in 1..len THEN log.ents[prev].term ELSE 0
  <2>1. prev \in Int
    BY <1>1
  <2> QED BY <2>1, AlignedReads
<1>3. prev <= len /\ (prev > 0 => prev \in 1..len /\ log.ents[prev].term = m.prevTerm)
  BY <1>1, <1>2 DEF Conflicts
<1>4. /\ \A k \in 1..le : prev + k <= n => es[k] = p.ents[prev + k]
      /\ prev \in 1..n => m.prevTerm = p.ents[prev].term
      /\ prev > n => m.prevTerm >= LastTerm(p)
  <2>1. \A k \in 1..le : k \in 1..Len(m.ents)
    <3>1. Len(m.ents) \in Nat /\ le \in Nat
      OBVIOUS
    <3> QED BY <3>1
  <2> QED BY <2>1 DEF Fits
<1>5. \A b \in Logs : (\A x \in 1..n : x <= Len(b.ents) => b.ents[x] = p.ents[x])
                         => Begins(b, p) \/ Begins(p, b)
  <2>1. \A b \in Logs : Len(b.ents) \in Nat
    BY DEF Logs
  <2> QED BY <1>1, <2>1 DEF Begins
<1> HIDE DEF prev, le, len, n
<1>6. prev >= n => Reaches(log, p)
  <2> SUFFICES ASSUME prev >= n PROVE Reaches(log, p)
    OBVIOUS
  <2>1. prev > 0 /\ prev \in 1..len /\ log.ents[prev].term = m.prevTerm
    BY <1>1, <1>3
  <2>2. CASE prev > n
    BY <1>1, <1>4, <2>1, <2>2 DEF Reaches, len, n
  <2>3. CASE prev = n
    BY <1>1, <1>4, <2>1, <2>3 DEF Reaches, len, n
  <2> QED BY <1>1, <2>2, <2>3
<1>7. Reaches(log, p) => Begins(p, new)
  <2> SUFFICES ASSUME Reaches(log, p) PROVE Begins(p, new)
    OBVIOUS
  <2>1. Share(log, p, n)
    BY BeginsShares DEF n
  <2>2. Share(new, p, n)
    BY <1>1, <1>4, <2>1, SpliceKeeps DEF prev, le
  <2> QED BY <1>1, <2>2, BeginsShares DEF n
<1>8. CASE new = log /\ Kept(log, prev, es)
  <2> SUFFICES ASSUME PastFork(p, log, prev), ~Reaches(log, p)
               PROVE  Begins(new, p) \/ Begins(p, new)
    BY <1>7, <1>8 DEF prev
  <2>1. prev < n
    BY <1>1, <1>6
  <2>2. ~(prev + 1 \in 1..len /\ log.ents[prev + 1].term = p.ents[prev + 1].term)
    <3>1. prev + 1 \in 1..n /\ ~(prev + 1 <= prev)
      BY <1>1, <2>1
    <3>2. prev + 1 \in 1..len => prev + 1 <= len
      BY <1>1
    <3> QED BY <3>1, <3>2 DEF PastFork, n, len
  <2>3. le = 0
    <3> SUFFICES ASSUME le # 0 PROVE FALSE
      OBVIOUS
    <3>1. 1 \in 1..le /\ prev + 1 <= n /\ prev + le <= len /\ prev + 1 \in 1..len
      BY <1>1, <1>8, <2>1 DEF Kept, len, le
    <3>2. log.ents[prev + 1].term = es[1].term /\ es[1] = p.ents[prev + 1]
      BY <1>4, <1>8, <3>1 DEF Kept, le
    <3> QED BY <2>2, <3>1, <3>2
  <2>4. es = <<>>
    BY <2>3 DEF le
  <2>5. /\ prev > 0 /\ prev \in 1..len /\ prev \in 1..n
        /\ log.ents[prev].term = m.term /\ p.ents[prev].term = m.term
    <3>1. prev > 0 /\ m.prevTerm = m.term
      BY <2>4 DEF prev
    <3> QED BY <1>1, <1>3, <1>4, <2>1, <3>1
  <2>6. ~(prev + 1 <= len)
    <3> SUFFICES ASSUME prev + 1 <= len PROVE FALSE
      OBVIOUS
    <3>1. prev + 1 \in 1..len /\ prev + 1 \in 1..n /\ prev <= prev + 1 /\ prev + 1 <= n
      BY <1>1, <2>1
    <3>2. log.ents[prev].term <= log.ents[prev + 1].term /\ log.ents[prev + 1].term <= m.term
      BY <2>5, <3>1 DEF Sorted, len
    <3>3. p.ents[prev].term <= p.ents[prev + 1].term /\ p.ents[prev + 1].term <= p.ents[n].term
      BY <1>1, <2>5, <3>1 DEF Sorted, n
    <3>4. log.ents[prev + 1].term \in Nat /\ p.ents[prev + 1].term \in Nat
      BY <1>1, <3>1
    <3>5. log.ents[prev + 1].term = m.term
      BY <2>5, <3>2, <3>4
    <3>6. p.ents[prev + 1].term = m.term
      BY <1>1, <2>5, <3>3, <3>4
    <3> QED BY <2>2, <3>1, <3>5, <3>6
  <2>7. \A x \in 1..prev : log.ents[x] = p.ents[x]
    <3>1. prev <= n /\ log.ents[prev].term = p.ents[prev].term
      BY <1>1, <2>1, <2>5
    <3> QED BY <2>5, <3>1 DEF Agree, len, n
  <2>8. \A x \in 1..n : x <= Len(new.ents) => x \in 1..prev
    BY <1>1, <1>3, <1>8, <2>6 DEF len
  <2>9. \A x \in 1..n : x <= Len(new.ents) => new.ents[x] = p.ents[x]
    BY <1>8, <2>7, <2>8
  <2> QED BY <1>1, <1>5, <2>9
<1>9. ASSUME NEW f \in 1..le, Overwritten(log, prev, es, new, f)
      PROVE  Begins(new, p) \/ Begins(p, new)
  <2>1. /\ prev + f <= len + 1
        /\ \A k \in 1..f - 1 : log.ents[prev + k].term = es[k].term
    BY <1>9 DEF Overwritten, len
  <2>2. f \in Nat \ {0} /\ f <= le + 1 /\ f <= le /\ le <= le
    BY <1>1
  <2>3. CASE ~(prev + f <= n)
    <3>1. Reaches(log, p)
      BY <2>1, <2>2, <2>3, OverwriteBehind DEF prev, n, le, len
    <3> QED BY <1>7, <3>1
  <2>4. CASE prev + f <= n
    <3>1. \A x \in 1..n : x <= Len(new.ents) => new.ents[x] = p.ents[x]
      BY <1>1, <1>9, <2>2, <2>4, OverwriteMeets DEF prev, n, le
    <3> QED BY <1>1, <1>5, <3>1
  <2> QED BY <2>3, <2>4
<1> QED BY <1>8, <1>9 DEF Spliced, prev, le

\* A call whose entries are all of its term is not before the fork of p and a log of
\* older terms.
LEMMA FreshFork ==
    ASSUME NEW log \in Logs, NEW p \in Logs, Sorted(p),
           NEW m, m.prevIndex \in Nat, m.prevTerm \in Nat, m.ents \in Seq(Entries), m.term \in Nat,
           \A x \in 1..Len(log.ents) : log.ents[x].term < m.term,
           \A k \in 1..Len(m.ents) : m.ents[k].term = m.term,
           m.ents = <<>> => m.prevIndex > 0 /\ m.prevTerm = m.term, Fits(m, p)
    PROVE  PastFork(p, log, m.prevIndex)
<1> DEFINE prev == m.prevIndex
           es   == m.ents
           le   == Len(es)
           n    == Len(p.ents)
           T    == m.term
<1>1. /\ n \in Nat /\ le \in Nat /\ prev \in Nat /\ T \in Nat
      /\ \A x \in 1..n : p.ents[x].term \in Nat
      /\ \A x \in 1..Len(log.ents) : log.ents[x].term \in Nat
      /\ Len(log.ents) \in Nat
  BY DEF Logs, Entries
<1>2. /\ \A k \in 1..le : prev + k <= n => es[k] = p.ents[prev + k]
      /\ prev \in 1..n => m.prevTerm = p.ents[prev].term
  BY DEF Fits
<1> HIDE DEF prev, es, le, n, T
<1> SUFFICES ASSUME NEW x \in 1..n, x <= Len(log.ents), p.ents[x].term = log.ents[x].term, x > prev
             PROVE  FALSE
  BY <1>1 DEF PastFork, prev, n
<1>3. x \in 1..Len(log.ents) /\ p.ents[x].term \in Nat /\ p.ents[x].term < T
  <2>1. x \in 1..Len(log.ents)
    BY <1>1
  <2> QED BY <1>1, <2>1 DEF T
<1>4. CASE x <= prev + le
  <2>1. x - prev \in 1..le /\ prev + (x - prev) = x /\ prev + (x - prev) <= n
    BY <1>1, <1>4
  <2>2. es[x - prev] = p.ents[x] /\ es[x - prev].term = T
    BY <1>2, <2>1 DEF es, le, T
  <2> QED BY <1>1, <1>3, <2>2
<1>5. CASE ~(x <= prev + le) /\ le # 0
  <2>1. le \in 1..le /\ prev + le \in 1..n /\ prev + le <= x /\ prev + le <= n
    BY <1>1, <1>5
  <2>2. es[le] = p.ents[prev + le] /\ es[le].term = T
    BY <1>2, <2>1 DEF es, le, T
  <2>3. p.ents[prev + le].term <= p.ents[x].term
    BY <2>1 DEF Sorted, n
  <2> QED BY <1>1, <1>3, <2>2, <2>3
<1>6. CASE ~(x <= prev + le) /\ le = 0
  <2>1. es = <<>>
    BY <1>6 DEF es, le
  <2>2. prev > 0 /\ m.prevTerm = T
    BY <2>1 DEF prev, es, T
  <2>3. prev \in 1..n /\ prev <= x
    BY <1>1, <2>2
  <2>4. p.ents[prev].term = T /\ p.ents[prev].term <= p.ents[x].term
    BY <1>2, <2>2, <2>3 DEF Sorted, n
  <2> QED BY <1>1, <1>3, <2>4
<1> QED BY <1>4, <1>5, <1>6

\* The beginning of a sorted log is sorted, and agrees with what the log agrees with.
LEMMA BeginningLike ==
    ASSUME NEW p \in Logs, NEW b \in Logs, Begins(p, b), Sorted(b)
    PROVE  Sorted(p) /\ \A a \in Logs : Agree(a, b) => Agree(a, p)
<1>1. /\ Len(p.ents) \in Nat /\ Len(b.ents) \in Nat /\ Len(p.ents) <= Len(b.ents)
      /\ \A x \in 1..Len(p.ents) : p.ents[x] = b.ents[x] /\ x \in 1..Len(b.ents)
  BY DEF Logs, Begins
<1>2. Sorted(p)
  BY <1>1 DEF Sorted
<1>3. ASSUME NEW a \in Logs, Agree(a, b) PROVE Agree(a, p)
  <2> SUFFICES ASSUME NEW x \in 1..Len(a.ents), x <= Len(p.ents), a.ents[x].term = p.ents[x].term,
                      NEW y \in 1..x
               PROVE  a.ents[y] = p.ents[y]
    BY DEF Agree
  <2>1. x \in 1..Len(p.ents) /\ y \in 1..Len(p.ents) /\ x <= Len(b.ents)
    <3>1. Len(a.ents) \in Nat
      BY DEF Logs
    <3> QED BY <1>1, <3>1
  <2>2. a.ents[x].term = b.ents[x].term
    BY <1>1, <2>1
  <2>3. a.ents[y] = b.ents[y]
    BY <1>3, <2>1, <2>2 DEF Agree
  <2> QED BY <1>1, <2>1, <2>3
<1> QED BY <1>2, <1>3

\* Two beginnings of a log, and a beginning next to a fork.
LEMMA BeginningsMeet ==
    ASSUME NEW p \in Logs, NEW a \in Logs, NEW b \in Logs, Begins(p, b)
    PROVE  /\ Begins(a, b) => Begins(a, p) \/ Begins(p, a)
           /\ \A q \in Int : PastFork(a, b, q) => PastFork(p, a, q)
<1>1. /\ Len(p.ents) \in Nat /\ Len(b.ents) \in Nat /\ Len(a.ents) \in Nat
      /\ Len(p.ents) <= Len(b.ents) /\ \A x \in 1..Len(p.ents) : p.ents[x] = b.ents[x]
  BY DEF Logs, Begins
<1>2. Begins(a, b) => Begins(a, p) \/ Begins(p, a)
  <2> SUFFICES ASSUME Begins(a, b) PROVE Begins(a, p) \/ Begins(p, a)
    OBVIOUS
  <2>1. \A x \in 1..Len(a.ents) : a.ents[x] = b.ents[x]
    BY DEF Begins
  <2> QED BY <1>1, <2>1 DEF Begins
<1>3. ASSUME NEW q \in Int, PastFork(a, b, q) PROVE PastFork(p, a, q)
  <2> SUFFICES ASSUME NEW x \in 1..Len(p.ents), x <= Len(a.ents), p.ents[x].term = a.ents[x].term
               PROVE  x <= q
    BY DEF PastFork
  <2>1. x \in 1..Len(a.ents) /\ x <= Len(b.ents) /\ a.ents[x].term = b.ents[x].term
    BY <1>1
  <2> QED BY <1>3, <2>1 DEF PastFork
<1> QED BY <1>2, <1>3

-----------------------------------------------------------------------------
(***************************************************************************)
(* What a step of node s does, as far as votes are concerned.              *)
(***************************************************************************)
VoteStep(s) ==
    /\ \A g \in granted' :
          \/ g \in granted
          \/ /\ g.voter = s /\ g.term = hs'[s].term
             /\ \/ g.candidate = s
                \/ \E m \in msgs : /\ m.type = "RequestVote" /\ m.to = s /\ m.from = g.candidate
                                   /\ m.term = g.term
                                   /\ UpToDate(node[s].log, m.lastIndex, m.lastTerm)
    /\ role'[s] = "candidate" => node'[s].log = node[s].log
    /\ \A m \in msgs' : m.type = "RequestVote" =>
          \/ m \in msgs
          \/ /\ m.from = s /\ m.term = hs'[s].term
             /\ m.lastIndex = LastIndex(node'[s].log) /\ m.lastTerm = LastTerm(node'[s].log)

\* A step of node s between two states in which all that is known of elections, logs
\* and progress holds.
Stepping(s) ==
    /\ s \in Server /\ IsFiniteSet(Voters)
    /\ TypeOK /\ LogInv /\ ElectionInv /\ MatchInv
    /\ TypeOK' /\ LogInv' /\ ElectionInv' /\ ElectionSafety' /\ MatchInv'
    /\ MatchStep(s) /\ VoteStep(s)

LEMMA SteppingTypes ==
    ASSUME NEW s, Stepping(s), NEW i \in Server
    PROVE  /\ node[i] \in Nodes /\ node[i].log \in Logs /\ Aligned(node[i].log)
           /\ node'[i] \in Nodes /\ node'[i].log \in Logs /\ Aligned(node'[i].log)
           /\ Len(node[i].log.ents) \in Nat /\ Len(node'[i].log.ents) \in Nat
           /\ hs[i].term \in Nat /\ hs'[i].term \in Nat
           /\ \A x \in 1..Len(node[i].log.ents) : node[i].log.ents[x].term \in Nat
           /\ \A x \in 1..Len(node'[i].log.ents) : node'[i].log.ents[x].term \in Nat
BY StepTypes DEF Stepping

LEMMA SteppingOthers ==
    ASSUME NEW s, Stepping(s)
    PROVE  /\ \A j \in Server : j # s => hs'[j] = hs[j] /\ role'[j] = role[j] /\ node'[j] = node[j]
           /\ s \in Server /\ hs'[s].term >= hs[s].term
           /\ \A j \in Server : hs'[j].term >= hs[j].term
<1>1. /\ \A j \in Server : j # s => hs'[j] = hs[j] /\ role'[j] = role[j] /\ node'[j] = node[j]
      /\ s \in Server /\ hs'[s].term >= hs[s].term
  BY DEF Stepping, MatchStep, LogStep
<1>2. \A j \in Server : hs[j].term \in Nat
  BY SteppingTypes
<1>3. \A j \in Server : hs'[j].term >= hs[j].term
  BY <1>1, <1>2
<1> QED BY <1>1, <1>3

\* What p has in common with every log, when somebody has it.
LEMMA HeldLike ==
    ASSUME TypeOK, LogInv, MatchInv, NEW p \in Logs, NEW v \in Server, Begins(p, node[v].log)
    PROVE  Sorted(p) /\ \A j \in Server : Agree(node[j].log, p)
<1>1. TermsOrdered
  BY DEF MatchInv
<1>2. \A j \in Server : node[j].log \in Logs
  BY LogTypes
<1>3. Sorted(node[v].log)
  BY <1>1, LogsSorted
<1>4. \A j \in Server : Agree(node[j].log, node[v].log)
  BY LogsAgree
<1> QED BY <1>2, <1>3, <1>4, BeginningLike

\* What elections, logs and progress say together.
Known ==
    /\ \A i \in Server : Sorted(node[i].log) /\ \A j \in Server : Agree(node[j].log, node[i].log)
    /\ \A i \in Server : role[i] = "leader" =>
          /\ \A m \in AppendsUnderWay : m.term = hs[i].term => m.from = i /\ m.to # i
          /\ \A j \in Server : \A x \in 1..Len(node[j].log.ents) : node[j].log.ents[x].term = hs[i].term =>
                x <= Len(node[i].log.ents) /\ node[i].log.ents[x].term = hs[i].term

LEMMA KnownHolds ==
    TypeOK /\ LogInv /\ ElectionInv /\ MatchInv /\ IsFiniteSet(Voters) => Known
<1> SUFFICES ASSUME TypeOK, LogInv, ElectionInv, MatchInv, IsFiniteSet(Voters) PROVE Known
  OBVIOUS
<1>1. TermsOrdered /\ CallsElected /\ LeadersHold
  BY DEF MatchInv
<1>2. \A i \in Server : Sorted(node[i].log) /\ \A j \in Server : Agree(node[j].log, node[i].log)
  BY <1>1, LogsSorted, LogsAgree
<1>3. \A i \in Server : role[i] = "leader" =>
          \A m \in AppendsUnderWay : m.term = hs[i].term => m.from = i /\ m.to # i
  BY <1>1, CallOfLeader DEF CallsElected
<1>4. \A i, j \in Server : role[i] = "leader" =>
          \A x \in 1..Len(node[j].log.ents) : node[j].log.ents[x].term = hs[i].term =>
                x <= Len(node[i].log.ents) /\ node[i].log.ents[x].term = hs[i].term
  BY <1>1, LeaderHas
<1> QED BY <1>2, <1>3, <1>4 DEF Known

LEMMA SteppingKnown ==
    ASSUME NEW s, Stepping(s)
    PROVE  Known /\ Known'
<1>1. Known
  BY KnownHolds DEF Stepping
<1>2. TypeOK' /\ LogInv' /\ ElectionInv' /\ MatchInv' /\ IsFiniteSet(Voters)'
  BY DEF Stepping
<1>3. (TypeOK /\ LogInv /\ ElectionInv /\ MatchInv /\ IsFiniteSet(Voters))' => Known'
  BY KnownHolds, PTL
<1> QED BY <1>1, <1>2, <1>3

-----------------------------------------------------------------------------
(***************************************************************************)
(* What has been backed stays backed, or a majority goes on without it.    *)
(***************************************************************************)

\* A step keeps what the log of its node has in common with p, if calls fit p.
LEMMA StepShares ==
    ASSUME NEW s, Stepping(s), NEW p \in Logs, NEW n \in Nat, n <= Len(p.ents),
           Share(node[s].log, p, n), CallsFit(p), LastTerm(p) \in Nat, hs'[s].term >= LastTerm(p)
    PROVE  Share(node'[s].log, p, n)
<1> DEFINE a == node[s].log
           b == node'[s].log
<1>1. /\ s \in Server /\ a \in Logs /\ b \in Logs /\ Len(a.ents) \in Nat /\ Len(b.ents) \in Nat
      /\ Len(p.ents) \in Nat
  BY SteppingTypes, SteppingOthers DEF Logs
<1>2. n <= Len(a.ents) /\ n <= Len(p.ents) /\ \A x \in 1..n : a.ents[x] = p.ents[x]
  BY DEF Share
<1> HIDE DEF a, b
<1>3. CASE role'[s] = "leader"
  <2>1. Len(a.ents) <= Len(b.ents) /\ \A k \in 1..Len(a.ents) : b.ents[k] = a.ents[k]
    BY <1>3 DEF Stepping, MatchStep, LogStep, Continues, Longer, a, b
  <2>2. \A x \in 1..n : x \in 1..Len(a.ents)
    BY <1>1, <1>2
  <2> QED BY <1>1, <1>2, <2>1, <2>2 DEF Share, b
<1>4. CASE role'[s] # "leader"
  <2>1. Follows(s)
    BY <1>4 DEF Stepping, MatchStep
  <2>2. ASSUME NEW c, NEW es, Takes(s, c, es) PROVE Share(b, p, n)
    <3>1. /\ c \in AppendsUnderWay /\ c.term = hs'[s].term
          /\ es \in Seq(Entries) /\ Len(es) <= Len(c.ents)
          /\ \A k \in 1..Len(es) : es[k] = c.ents[k]
          /\ Spliced(a, c.prevIndex, es, b)
      BY <2>2 DEF Takes, a, b
    <3>2. c.prevIndex \in Nat /\ Len(c.ents) \in Nat
      BY <3>1, CallTypes DEF Stepping
    <3>3. Fits(c, p)
      BY <3>1 DEF CallsFit
    <3>4. \A k \in 1..Len(es) : c.prevIndex + k <= n => es[k] = p.ents[c.prevIndex + k]
      <4>1. \A k \in 1..Len(es) : k \in 1..Len(c.ents) /\ c.prevIndex + k \in Int
        <5>1. Len(es) \in Nat
          BY <3>1
        <5> QED BY <3>1, <3>2, <5>1
      <4>2. \A x \in Int : x <= n => x <= Len(p.ents)
        BY <1>1
      <4> QED BY <3>1, <3>3, <4>1, <4>2 DEF Fits
    <3> QED BY <1>1, <3>1, <3>2, <3>4, SpliceKeeps DEF a
  <2> QED BY <2>1, <2>2 DEF Follows, a, b
<1> QED BY <1>3, <1>4 DEF b

\* Node s has p after its step if it had it before.
LEMMA BeginsStays ==
    ASSUME NEW s, Stepping(s), NEW p \in Logs, Len(p.ents) > 0, Begins(p, node[s].log),
           CallsFit(p), hs'[s].term >= LastTerm(p)
    PROVE  Begins(p, node'[s].log)
<1>1. /\ node[s].log \in Logs /\ node'[s].log \in Logs
      /\ Len(p.ents) \in Nat /\ LastTerm(p) \in Nat /\ Len(p.ents) <= Len(p.ents)
  BY SteppingTypes, SteppingOthers, LastOf
<1>2. Share(node[s].log, p, Len(p.ents))
  BY <1>1, BeginsShares
<1>3. Share(node'[s].log, p, Len(p.ents))
  BY <1>1, <1>2, StepShares
<1> QED BY <1>1, <1>3, BeginsShares

LEMMA HeldStep ==
    ASSUME NEW s, Stepping(s), NEW p \in Logs, Len(p.ents) > 0, NEW A \in SUBSET Server,
           Held(A, p), CallsFit(p)
    PROVE  Held(A, p)'
<1>1. LastTerm(p) \in Nat /\ \A v \in Server : hs[v].term \in Nat /\ hs'[v].term \in Nat
  BY LastOf, SteppingTypes
<1> SUFFICES ASSUME NEW v \in A PROVE hs'[v].term >= LastTerm(p) /\ Begins(p, node'[v].log)
  BY DEF Held
<1>2. hs[v].term >= LastTerm(p) /\ Begins(p, node[v].log) /\ v \in Server
  BY DEF Held
<1>3. hs'[v].term >= LastTerm(p)
  BY <1>1, <1>2, SteppingOthers
<1>4. CASE v # s
  BY <1>2, <1>3, <1>4, SteppingOthers
<1>5. CASE v = s
  BY <1>2, <1>3, <1>5, BeginsStays
<1> QED BY <1>4, <1>5

\* A leader of a term not before p's last one reaches p.
LEMMA LeaderReaches ==
    ASSUME TypeOK, MatchInv, Known, NEW s \in Server, role[s] = "leader",
           NEW p \in Logs, Len(p.ents) > 0, hs[s].term >= LastTerm(p),
           NEW v \in Server, Begins(p, node[v].log)
    PROVE  Reaches(node[s].log, p)
<1> DEFINE log == node[s].log
           n   == Len(p.ents)
           T   == hs[s].term
<1>1. n \in Nat /\ n \in 1..n /\ LastTerm(p) = p.ents[n].term /\ LastTerm(p) \in Nat /\ T \in Nat
      /\ Len(log.ents) \in Nat /\ Len(node[v].log.ents) \in Nat
  BY LastOf, LogTypes
<1>2. Len(log.ents) > 0 /\ log.ents[Len(log.ents)].term = T
  BY DEF MatchInv, LeadersHold
<1>3. n \in 1..Len(node[v].log.ents) /\ node[v].log.ents[n] = p.ents[n]
  BY <1>1 DEF Begins
<1> HIDE DEF log, n, T
<1>4. CASE T > LastTerm(p)
  <2>1. Len(log.ents) \in 1..Len(log.ents)
    BY <1>1, <1>2
  <2> QED BY <1>2, <1>4, <2>1 DEF Reaches, log
<1>5. CASE T = LastTerm(p)
  <2>1. n <= Len(log.ents) /\ log.ents[n].term = T
    BY <1>1, <1>3, <1>5 DEF Known, log, T
  <2>2. n \in 1..Len(log.ents) /\ n >= Len(p.ents)
    BY <1>1, <2>1 DEF n
  <2> QED BY <1>5, <2>1, <2>2 DEF Reaches, log
<1> QED BY <1>1, <1>4, <1>5 DEF T

LeadersReach ==
    \A s, v \in Server : \A p \in Logs :
        /\ role[s] = "leader" /\ Len(p.ents) > 0 /\ hs[s].term >= LastTerm(p)
        /\ Begins(p, node[v].log)
        => Reaches(node[s].log, p)

LEMMA LeadersReachHolds == TypeOK /\ MatchInv /\ Known => LeadersReach
BY LeaderReaches DEF LeadersReach

LEMMA SteppingReach ==
    ASSUME NEW s, Stepping(s)
    PROVE  LeadersReach /\ LeadersReach'
<1>1. LeadersReach
  BY LeadersReachHolds, SteppingKnown DEF Stepping
<1>2. (TypeOK /\ MatchInv /\ Known)' => LeadersReach'
  BY LeadersReachHolds, PTL
<1> QED BY <1>1, <1>2, SteppingKnown DEF Stepping

\* A node that has just been elected in a later term has p, or a majority is in that
\* term and none of A among it.
LEMMA ElectedHas ==
    ASSUME NEW s, Stepping(s), VotesAsked, NEW p \in Logs, Len(p.ents) > 0, NEW A \in SUBSET Server,
           Held(A, p), Unelectable(A, p), CallsFit(p),
           role'[s] = "leader", ~(role[s] = "leader" /\ hs'[s].term = hs[s].term),
           hs'[s].term > LastTerm(p)
    PROVE  Begins(p, node[s].log) \/ Lost(A, LastTerm(p))'
<1> DEFINE T == hs'[s].term
           W == votes'[s]
<1>1. /\ s \in Server /\ T \in Nat /\ hs[s].term \in Nat /\ hs[s].term <= T /\ LastTerm(p) \in Nat
      /\ \A v \in Server : hs'[v].term \in Nat
  BY SteppingTypes, SteppingOthers, LastOf
<1>2. /\ Cardinality(W) > Cardinality(Voters) \div 2
      /\ \A v \in W : v \in Voters /\ Vote(v, T, s) \in granted'
      /\ \A v \in W : T <= hs'[v].term
  <2>1. Cardinality(W) > Cardinality(Voters) \div 2 /\ \A v \in W : v \in Voters /\ Vote(v, T, s) \in granted'
    BY <1>1 DEF Stepping, ElectionInv, VotesGenuine, LeadersElected
  <2>2. ASSUME NEW v \in W PROVE T <= hs'[v].term
    <3>1. Vote(v, T, s) \in granted' /\ VotesRecorded'
      BY <2>1 DEF Stepping, ElectionInv
    <3> HIDE DEF T
    <3> QED BY <3>1 DEF VotesRecorded, Vote
  <2> QED BY <2>1, <2>2
<1> HIDE DEF T, W
<1>3. CASE W \cap A = {}
  <2>1. W \in SUBSET Voters /\ Majority(W)
    BY <1>2 DEF Majority
  <2>2. \A v \in W : v \notin A /\ hs'[v].term > LastTerm(p)
    <3>1. \A v \in W : v \in Server
      <4>1. Voters \subseteq Server
        BY PeersAssumption DEF Voters
      <4> QED BY <1>2, <4>1
    <3> QED BY <1>1, <1>2, <1>3, <3>1 DEF T
  <2>3. Lost(A, LastTerm(p))'
    BY <2>1, <2>2 DEF Lost, Majority
  <2> QED BY <2>3
<1>4. ASSUME NEW v \in W, v \in A PROVE Begins(p, node[s].log)
  <2>1. CASE v = s
    BY <1>4, <2>1 DEF Held
  <2>2. CASE v # s
    <3>1. Vote(v, T, s) \in granted
      <4>1. Vote(v, T, s) \in granted' /\ Vote(v, T, s).voter # s
        BY <1>2, <1>4, <2>2 DEF Vote
      <4> QED BY <4>1 DEF Stepping, VoteStep
    <3>2. hs[s].term >= T
      BY <3>1 DEF VotesAsked, Vote
    <3>3. hs[s].term = T
      BY <1>1, <3>2
    <3>4. role[s] = "candidate"
      BY <1>1, <3>3 DEF Stepping, MatchStep, LogStep, RoleStep, T
    <3> QED BY <1>1, <1>4, <3>1, <3>3, <3>4 DEF Unelectable, T
  <2> QED BY <2>1, <2>2
<1> QED BY <1>3, <1>4

LEMMA NoneReachesStep ==
    ASSUME NEW s, Stepping(s), VotesAsked, NEW p \in Logs, Len(p.ents) > 0,
           NEW A \in SUBSET Server, A # {},
           Held(A, p), Unelectable(A, p), NoneReaches(p), CallsFit(p)
    PROVE  NoneReaches(p)' \/ Lost(A, LastTerm(p))'
<1> DEFINE a == node[s].log
           b == node'[s].log
           T == hs'[s].term
           n == Len(p.ents)
           c == LastTerm(p)
<1>1. /\ s \in Server /\ a \in Logs /\ b \in Logs /\ Aligned(a) /\ Aligned(b)
      /\ Len(a.ents) \in Nat /\ Len(b.ents) \in Nat /\ T \in Nat /\ hs[s].term \in Nat /\ hs[s].term <= T
      /\ \A x \in 1..Len(a.ents) : a.ents[x].term \in Nat
      /\ \A x \in 1..Len(b.ents) : b.ents[x].term \in Nat
      /\ n \in Nat /\ n \in 1..n /\ c \in Nat /\ c = p.ents[n].term
  BY SteppingTypes, SteppingOthers, LastOf
<1>2. PICK v \in A : v \in Server /\ Begins(p, node[v].log)
  BY DEF Held
<1>3. Sorted(p) /\ Agree(a, p)
  BY <1>1, <1>2, HeldLike DEF Stepping
<1>4. Reaches(a, p) => Begins(p, a)
  BY <1>1 DEF NoneReaches
<1>5. \A x \in 1..Len(b.ents) : b.ents[x].term <= T
  BY <1>1 DEF Stepping, MatchInv, TermsOrdered
<1>6. T >= c => (Begins(p, a) => Begins(p, b))
  BY BeginsStays
<1> HIDE DEF a, b, T, n, c
<1>7. T < c => ~Reaches(b, p)
  BY <1>1, <1>5 DEF Reaches, c
<1>8. ASSUME role'[s] # "leader", Reaches(b, p) PROVE Begins(p, b)
  <2>0. T >= c
    BY <1>1, <1>7, <1>8
  <2>1. Follows(s)
    BY <1>8 DEF Stepping, MatchStep
  <2>2. CASE b = a
    BY <1>4, <1>8, <2>2
  <2>3. ASSUME NEW m, NEW es, Takes(s, m, es) PROVE Begins(p, b)
    <3>1. /\ m \in AppendsUnderWay /\ m.term = T /\ ~Conflicts(a, m)
          /\ es \in Seq(Entries) /\ Len(es) <= Len(m.ents)
          /\ \A k \in 1..Len(es) : es[k] = m.ents[k]
          /\ Spliced(a, m.prevIndex, es, b)
      BY <2>3 DEF Takes, a, b, T
    <3>2. m.prevIndex \in Nat /\ m.prevTerm \in Nat /\ m.ents \in Seq(Entries)
      BY <3>1, CallTypes DEF Stepping
    <3>3. Fits(m, p)
      BY <2>0, <3>1 DEF CallsFit, c
    <3> QED BY <1>1, <1>3, <1>4, <1>8, <3>1, <3>2, <3>3, AcceptReaches
  <2> QED BY <2>1, <2>2, <2>3 DEF Follows, a, b
<1>9. ASSUME role'[s] = "leader", Reaches(b, p) PROVE Begins(p, b) \/ Lost(A, c)'
  <2>0. T >= c
    BY <1>1, <1>7, <1>9
  <2>1. CASE role[s] = "leader" /\ hs[s].term = T
    <3>1. Reaches(a, p)
      BY <1>1, <1>2, <2>0, <2>1, SteppingReach DEF LeadersReach, a, c
    <3> QED BY <1>4, <1>6, <2>0, <3>1
  <2>2. CASE ~(role[s] = "leader" /\ hs[s].term = T)
    <3>1. T # c
      <4> DEFINE l == LogLink(node[v].log, n)
      <4>1. n \in 1..Len(node[v].log.ents) /\ node[v].log.ents[n] = p.ents[n]
        <5>1. Len(node[v].log.ents) \in Nat
          BY <1>2, SteppingTypes
        <5> QED BY <1>1, <1>2, <5>1 DEF Begins, n
      <4>2. l \in Links /\ l.entry.term = c
        <5>1. l \in Links
          BY <1>2, <4>1, LogLinks
        <5> QED BY <1>1, <4>1, <5>1 DEF LogLink, LinkOf
      <4> HIDE DEF l
      <4>3. l.entry.term # T
        BY <1>1, <1>9, <2>2, <4>2, NewLeader DEF Stepping, MatchStep, T
      <4> QED BY <4>2, <4>3
    <3>2. T > c
      BY <1>1, <2>0, <3>1
    <3>3. Begins(p, a) \/ Lost(A, c)'
      BY <1>9, <2>2, <3>2, ElectedHas DEF a, c, T
    <3> QED BY <1>6, <2>0, <3>3
  <2> QED BY <2>1, <2>2
<1>10. (Reaches(b, p) => Begins(p, b)) => NoneReaches(p)'
  <2> SUFFICES ASSUME Reaches(b, p) => Begins(p, b), NEW j \in Server, Reaches(node'[j].log, p)
               PROVE  Begins(p, node'[j].log)
    BY DEF NoneReaches
  <2>1. CASE j = s
    BY <2>1 DEF b
  <2>2. CASE j # s
    BY <2>2, SteppingOthers DEF NoneReaches
  <2> QED BY <2>1, <2>2
<1> QED BY <1>8, <1>9, <1>10 DEF c

\* Who is as up to date as a log that has p reaches p.
LEMMA UpToDateReaches ==
    ASSUME NEW a \in Logs, NEW b \in Logs, Aligned(a), Aligned(b), Sorted(a),
           NEW p \in Logs, Len(p.ents) > 0, Begins(p, a),
           UpToDate(a, LastIndex(b), LastTerm(b))
    PROVE  Reaches(b, p)
<1> DEFINE la == Len(a.ents)
           lb == Len(b.ents)
           n  == Len(p.ents)
<1>1. /\ la \in Nat /\ lb \in Nat /\ n \in Nat /\ n \in 1..n /\ LastTerm(p) \in Nat
      /\ LastTerm(p) = p.ents[n].term
      /\ LastIndex(a) = la /\ LastIndex(b) = lb
      /\ \A x \in 1..la : a.ents[x].term \in Nat
      /\ \A x \in 1..lb : b.ents[x].term \in Nat
  <2>1. a.ents \in Seq(Entries) /\ b.ents \in Seq(Entries) /\ la \in Nat /\ lb \in Nat
        /\ LastIndex(a) = la /\ LastIndex(b) = lb
    BY AlignedReads
  <2>2. n \in Nat /\ n \in 1..n /\ LastTerm(p) \in Nat /\ LastTerm(p) = p.ents[n].term
    BY LastOf
  <2>3. \A e \in Entries : e.term \in Nat
    BY DEF Entries
  <2>4. /\ \A x \in 1..la : a.ents[x].term \in Nat
        /\ \A x \in 1..lb : b.ents[x].term \in Nat
    BY <2>1, <2>3
  <2> QED BY <2>1, <2>2, <2>4
<1>2. n <= la /\ p.ents[n] = a.ents[n]
  BY <1>1 DEF Begins
<1>3. /\ la > 0 => LastTerm(a) = a.ents[la].term
      /\ lb > 0 => LastTerm(b) = b.ents[lb].term
      /\ lb = 0 => LastTerm(b) = 0
  BY <1>1 DEF LastTerm, Aligned, Logs
<1> HIDE DEF la, lb, n
<1>4. la > 0 /\ n \in 1..la /\ la \in 1..la /\ n <= la
  BY <1>1, <1>2
<1>5. a.ents[n].term <= a.ents[la].term
  BY <1>4 DEF Sorted, la
<1>6. LastTerm(a) \in Nat /\ LastTerm(a) >= LastTerm(p)
  BY <1>1, <1>2, <1>3, <1>4, <1>5
<1>7. CASE lb = 0
  BY <1>1, <1>3, <1>4, <1>6, <1>7 DEF UpToDate
<1>8. CASE lb > 0 /\ LastTerm(b) > LastTerm(a)
  <2>1. lb \in 1..lb /\ b.ents[lb].term > LastTerm(p)
    BY <1>1, <1>3, <1>6, <1>8
  <2> QED BY <2>1 DEF Reaches, lb
<1>9. CASE lb > 0 /\ LastTerm(b) = LastTerm(a)
  <2>1. lb >= la
    BY <1>1, <1>9 DEF UpToDate
  <2>2. /\ lb \in 1..lb /\ lb >= n
        /\ b.ents[lb].term > LastTerm(p) \/ b.ents[lb].term = LastTerm(p)
    BY <1>1, <1>2, <1>3, <1>6, <1>9, <2>1
  <2> QED BY <2>2 DEF Reaches, lb, n
<1> QED BY <1>1, <1>7, <1>8, <1>9 DEF UpToDate

LEMMA UnelectableStep ==
    ASSUME NEW s, Stepping(s), VotesAsked, NEW p \in Logs, Len(p.ents) > 0, NEW A \in SUBSET Server,
           Held(A, p), Unelectable(A, p), NoneReaches(p)
    PROVE  Unelectable(A, p)'
<1> SUFFICES ASSUME NEW k \in Server, role'[k] = "candidate", hs'[k].term > LastTerm(p),
                    ~Begins(p, node'[k].log),
                    NEW v \in A, Vote(v, hs'[k].term, k) \in granted'
             PROVE  FALSE
  BY DEF Unelectable
<1> DEFINE T == hs'[k].term
           g == Vote(v, T, k)
<1>1. /\ s \in Server /\ T \in Nat /\ hs[k].term \in Nat /\ hs[k].term <= T
      /\ v \in Server
      /\ \A j \in Server : j # s => hs'[j] = hs[j] /\ role'[j] = role[j] /\ node'[j] = node[j]
  BY SteppingTypes, SteppingOthers
<1>2. g.voter = v /\ g.term = T /\ g.candidate = k /\ g \in granted'
  BY DEF Vote
<1> HIDE DEF T, g
<1>3. CASE k = s
  <2>1. node'[s].log = node[s].log
    BY <1>3 DEF Stepping, VoteStep
  <2>2. v # s
    BY <1>3, <2>1 DEF Held
  <2>3. g \in granted
    BY <1>2, <2>2 DEF Stepping, VoteStep
  <2>4. hs[s].term = T
    BY <1>1, <1>2, <1>3, <2>3 DEF VotesAsked
  <2>5. role[s] = "candidate"
    BY <1>1, <1>3, <2>4 DEF Stepping, MatchStep, LogStep, RoleStep, T
  <2> QED BY <1>1, <1>3, <2>1, <2>3, <2>4, <2>5 DEF Unelectable, T, g
<1>4. CASE k # s
  <2>1. role[k] = "candidate" /\ hs[k].term = T /\ ~Begins(p, node[k].log)
    BY <1>1, <1>4 DEF T
  <2>2. g \notin granted
    BY <2>1 DEF Unelectable, T, g
  <2>3. /\ v = s
        /\ \E m \in msgs : /\ m.type = "RequestVote" /\ m.from = k /\ m.term = T
                           /\ UpToDate(node[s].log, m.lastIndex, m.lastTerm)
    BY <1>2, <1>4, <2>2 DEF Stepping, VoteStep
  <2>4. UpToDate(node[s].log, LastIndex(node[k].log), LastTerm(node[k].log))
    BY <2>1, <2>3 DEF VotesAsked
  <2>5. Begins(p, node[s].log)
    BY <2>3 DEF Held
  <2>6. Reaches(node[k].log, p)
    <3>1. Sorted(node[s].log)
      BY <1>1, SteppingKnown DEF Known
    <3> QED BY <1>1, <2>4, <2>5, <3>1, SteppingTypes, UpToDateReaches
  <2> QED BY <2>1, <2>6 DEF NoneReaches
<1> QED BY <1>3, <1>4

\* The log of a leader that calls fits p.
LEMMA CallerHas ==
    ASSUME NEW s, Stepping(s), NEW p \in Logs, Len(p.ents) > 0, NEW A \in SUBSET Server, A # {},
           Held(A, p)', NoneReaches(p)', NEW m \in AppendsUnderWay', m \notin msgs,
           m.term >= LastTerm(p)
    PROVE  /\ m.from = s /\ m.to \in Server /\ m.to # s /\ m.term = hs'[s].term
           /\ role'[s] = "leader" /\ CopyOf(m, node'[s].log)
           /\ m.prevIndex \in Nat /\ Len(m.ents) \in Nat
           /\ Begins(p, node'[s].log)
<1>1. /\ m.from = s /\ m.to # s /\ m.term = hs'[s].term
      /\ role'[s] = "leader" /\ CopyOf(m, node'[s].log)
  BY DEF AppendsUnderWay, Stepping, MatchStep, StartsCalls
<1>2. m.prevIndex \in Nat /\ Len(m.ents) \in Nat /\ m.to \in Server
  <2>1. m \in AppendCalls
    BY MessageFields DEF AppendsUnderWay, Stepping, TypeOK
  <2> QED BY <2>1 DEF AppendCalls
<1>3. PICK v \in A : v \in Server /\ Begins(p, node'[v].log)
  BY DEF Held
<1>4. Reaches(node'[s].log, p)
  BY <1>1, <1>3, SteppingReach, SteppingOthers DEF LeadersReach
<1>5. Begins(p, node'[s].log)
  BY <1>4, SteppingOthers DEF NoneReaches
<1> QED BY <1>1, <1>2, <1>5

LEMMA CallsFitStep ==
    ASSUME NEW s, Stepping(s), NEW p \in Logs, Len(p.ents) > 0, NEW A \in SUBSET Server, A # {},
           Held(A, p)', NoneReaches(p)', CallsFit(p)
    PROVE  CallsFit(p)'
<1> SUFFICES ASSUME NEW m \in AppendsUnderWay', m.term >= LastTerm(p) PROVE Fits(m, p)
  BY DEF CallsFit
<1>1. CASE m \in msgs
  BY <1>1 DEF AppendsUnderWay, CallsFit
<1>2. CASE m \notin msgs
  <2>1. /\ CopyOf(m, node'[s].log) /\ m.prevIndex \in Nat /\ Len(m.ents) \in Nat
        /\ Begins(p, node'[s].log)
    BY <1>2, CallerHas
  <2>2. Sorted(node'[s].log) /\ node'[s].log \in Logs /\ Aligned(node'[s].log)
    BY SteppingKnown, SteppingTypes, SteppingOthers DEF Known
  <2> QED BY <2>1, <2>2, FitsCopy
<1> QED BY <1>1, <1>2

\* A call that is under way when its receiver hears of its term, or knows it already.
LEMMA CallMeets ==
    ASSUME NEW s, Stepping(s), CallsFresh, NEW p \in Logs, Len(p.ents) > 0, Sorted(p),
           CallsFit(p), CallsMeet(p), NEW m \in AppendsUnderWay, m.to = s, hs[s].term <= m.term,
           m.term >= LastTerm(p)
    PROVE  \/ Begins(node[s].log, p) \/ Begins(p, node[s].log)
           \/ PastFork(p, node[s].log, m.prevIndex)
<1>1. /\ s \in Server /\ node[s].log \in Logs /\ hs[s].term \in Nat /\ m.term \in Nat
      /\ m.prevIndex \in Nat /\ m.prevTerm \in Nat /\ m.ents \in Seq(Entries)
      /\ \A x \in 1..Len(node[s].log.ents) : node[s].log.ents[x].term \in Nat
  BY SteppingTypes, SteppingOthers, CallTypes DEF Stepping
<1>2. CASE hs[s].term = m.term
  BY <1>2 DEF CallsMeet
<1>3. CASE hs[s].term < m.term
  <2>1. \A x \in 1..Len(node[s].log.ents) : node[s].log.ents[x].term < m.term
    <3>1. \A x \in 1..Len(node[s].log.ents) : node[s].log.ents[x].term <= hs[s].term
      BY <1>1 DEF Stepping, MatchInv, TermsOrdered
    <3> QED BY <1>1, <1>3, <3>1
  <2>2. \A k \in 1..Len(m.ents) : m.ents[k].term = m.term
    BY <1>3 DEF CallsFresh
  <2>3. m.ents = <<>> => m.prevIndex > 0 /\ m.prevTerm = m.term
    BY DEF Stepping, MatchInv, CallsElected
  <2>4. Fits(m, p)
    BY DEF CallsFit
  <2> QED BY <1>1, <2>1, <2>2, <2>3, <2>4, FreshFork
<1> QED BY <1>1, <1>2, <1>3

\* A node that takes a call has nothing but p where p is.
LEMMA TakesMeets ==
    ASSUME NEW s, Stepping(s), CallsFresh, NEW p \in Logs, Len(p.ents) > 0, Sorted(p),
           Agree(node[s].log, p), NoneReaches(p), CallsFit(p), CallsMeet(p),
           NEW m, NEW es, Takes(s, m, es), m.term >= LastTerm(p)
    PROVE  Begins(node'[s].log, p) \/ Begins(p, node'[s].log)
<1> DEFINE a == node[s].log
           b == node'[s].log
<1>1. /\ m \in AppendsUnderWay /\ m.to = s /\ m.term = hs'[s].term /\ ~Conflicts(a, m)
      /\ es \in Seq(Entries) /\ Len(es) <= Len(m.ents)
      /\ \A k \in 1..Len(es) : es[k] = m.ents[k]
      /\ es = <<>> => m.ents = <<>>
      /\ Spliced(a, m.prevIndex, es, b)
  BY DEF Takes
<1>2. /\ s \in Server /\ a \in Logs /\ Aligned(a) /\ hs[s].term \in Nat /\ hs[s].term <= m.term
      /\ \A x \in 1..Len(a.ents) : a.ents[x].term \in Nat
      /\ LastTerm(p) \in Nat
  BY <1>1, SteppingTypes, SteppingOthers, LastOf
<1>3. m.prevIndex \in Nat /\ m.prevTerm \in Nat /\ m.ents \in Seq(Entries) /\ m.term \in Nat
  BY <1>1, CallTypes DEF Stepping
<1>4. Begins(a, p) \/ Begins(p, a) \/ PastFork(p, a, m.prevIndex)
  BY <1>1, <1>2, CallMeets
<1>5. /\ Fits(m, p)
      /\ m.ents = <<>> => m.prevIndex > 0 /\ m.prevTerm = m.term
      /\ Reaches(a, p) => Begins(p, a)
  BY <1>1, <1>2 DEF CallsFit, Stepping, MatchInv, CallsElected, NoneReaches
<1>6. Sorted(a)
  BY <1>2, SteppingKnown DEF Known
<1>7. \A x \in 1..Len(a.ents) : a.ents[x].term <= m.term
  <2>1. \A x \in 1..Len(a.ents) : a.ents[x].term <= hs[s].term
    BY <1>2 DEF Stepping, MatchInv, TermsOrdered
  <2> HIDE DEF a
  <2> QED BY <1>2, <1>3, <2>1
<1> HIDE DEF a, b
<1>8. Agree(a, p) /\ LastTerm(p) <= m.term
  BY <1>2, <1>3 DEF a
<1>9. Begins(b, p) \/ Begins(p, b)
  BY <1>1, <1>2, <1>3, <1>4, <1>5, <1>6, <1>7, <1>8, AcceptCompares
<1> QED BY <1>9 DEF b

LEMMA CallsMeetStep ==
    ASSUME NEW s, Stepping(s), CallsFresh, NEW p \in Logs, Len(p.ents) > 0,
           NEW A \in SUBSET Server, A # {},
           Held(A, p), Held(A, p)', NoneReaches(p), NoneReaches(p)', CallsFit(p), CallsMeet(p)
    PROVE  CallsMeet(p)'
<1> SUFFICES ASSUME NEW m \in AppendsUnderWay', m.term >= LastTerm(p), hs'[m.to].term = m.term
             PROVE  \/ Begins(node'[m.to].log, p) \/ Begins(p, node'[m.to].log)
                    \/ PastFork(p, node'[m.to].log, m.prevIndex)
  BY DEF CallsMeet
<1>1. m \in AppendCalls
  BY MessageFields DEF AppendsUnderWay, Stepping, TypeOK
<1>2. m.to \in Server /\ m.prevIndex \in Nat /\ s \in Server /\ m.type = "AppendEntries"
  BY <1>1, SteppingOthers DEF AppendCalls
<1>3. PICK v \in A : v \in Server /\ Begins(p, node[v].log)
  BY DEF Held
<1>4. Sorted(p) /\ Agree(node[s].log, p)
  BY <1>2, <1>3, HeldLike DEF Stepping
<1>5. CASE m \notin msgs
  <2>1. m.from = s /\ m.to # s /\ m.term = hs'[s].term /\ role'[s] = "leader" /\ Begins(p, node'[s].log)
    BY <1>5, CallerHas
  <2>2. Following(s, m.to)' \/ Forked(s, m.to)'
    BY <1>2, <2>1 DEF Stepping, MatchInv, ProgressKnown
  <2>3. node'[s].log \in Logs /\ node'[m.to].log \in Logs /\ m.prevIndex \in Int
    BY <1>2, SteppingTypes
  <2>4. CASE Following(s, m.to)'
    <3>1. Begins(node'[m.to].log, node'[s].log)
      BY <2>4 DEF Following
    <3> QED BY <2>1, <2>3, <3>1, BeginningsMeet
  <2>5. CASE Forked(s, m.to)'
    <3>1. m.prevIndex \in Sent(s, m.to)'
      BY <2>1 DEF Sent
    <3>2. PastFork(node'[m.to].log, node'[s].log, m.prevIndex)
      BY <2>5, <3>1 DEF Forked
    <3> QED BY <2>1, <2>3, <3>2, BeginningsMeet
  <2> QED BY <2>2, <2>4, <2>5
<1>6. CASE m \in msgs /\ m.to # s
  <2>1. m \in AppendsUnderWay
    BY <1>2, <1>6 DEF AppendsUnderWay
  <2>2. hs'[m.to] = hs[m.to] /\ node'[m.to] = node[m.to]
    BY <1>2, <1>6, SteppingOthers
  <2> QED BY <2>1, <2>2 DEF CallsMeet
<1>7. CASE m \in msgs /\ m.to = s
  <2>1. m \in AppendsUnderWay
    BY <1>2, <1>7 DEF AppendsUnderWay
  <2>2. role'[s] # "leader"
    BY <1>2, <1>7, SteppingKnown DEF Known
  <2>3. Follows(s)
    BY <2>2 DEF Stepping, MatchStep
  <2>4. CASE node'[s].log = node[s].log
    <3>1. hs[s].term <= m.term
      BY <1>7, SteppingOthers, SteppingTypes
    <3> QED BY <1>4, <1>7, <2>1, <2>4, <3>1, CallMeets
  <2>5. ASSUME NEW c, NEW es, Takes(s, c, es)
        PROVE  Begins(node'[s].log, p) \/ Begins(p, node'[s].log)
    <3>1. c.term = m.term
      BY <1>7, <2>5 DEF Takes
    <3> QED BY <1>4, <2>5, <3>1, TakesMeets
  <2> QED BY <1>7, <2>3, <2>4, <2>5 DEF Follows
<1> QED BY <1>5, <1>6, <1>7

LEMMA BackedStep ==
    ASSUME NEW s, Stepping(s), VotesAsked, CallsFresh, NEW p \in Logs, Len(p.ents) > 0,
           NEW A \in SUBSET Server, A # {}, Backed(A, p)
    PROVE  Backed(A, p)' \/ Lost(A, LastTerm(p))'
<1>1. Held(A, p) /\ Unelectable(A, p) /\ NoneReaches(p) /\ CallsFit(p) /\ CallsMeet(p)
  BY DEF Backed
<1>2. Held(A, p)'
  BY <1>1, HeldStep
<1>3. Unelectable(A, p)'
  BY <1>1, UnelectableStep
<1>4. NoneReaches(p)' \/ Lost(A, LastTerm(p))'
  BY <1>1, NoneReachesStep
<1>5. ASSUME NoneReaches(p)' PROVE Backed(A, p)'
  <2>1. CallsFit(p)'
    BY <1>1, <1>2, <1>5, CallsFitStep
  <2>2. CallsMeet(p)'
    BY <1>1, <1>2, <1>5, CallsMeetStep
  <2> QED BY <1>2, <1>3, <1>5, <2>1, <2>2 DEF Backed
<1> QED BY <1>4, <1>5

-----------------------------------------------------------------------------
(***************************************************************************)
(* What has been chosen stays chosen.                                      *)
(***************************************************************************)
LEMMA MajoritiesMeet ==
    ASSUME IsFiniteSet(Voters), NEW Q, NEW W, Majority(Q), Majority(W)
    PROVE  Q \cap W # {}
<1>1. Q \subseteq Voters /\ W \subseteq Voters
  BY DEF Majority
<1>2. IsFiniteSet(Q) /\ IsFiniteSet(W)
  BY <1>1, FS_Subset
<1>3. Cardinality(Q) \in Nat /\ Cardinality(W) \in Nat /\ Cardinality(Voters) \in Nat
  BY <1>2, FS_CardinalityType
<1>4. Cardinality(Q) + Cardinality(W) > Cardinality(Voters)
  BY <1>3 DEF Majority
<1> QED BY <1>1, <1>4, FS_MajoritiesIntersect

LEMMA NotLost ==
    ASSUME IsFiniteSet(Voters), NEW Q, Majority(Q), NEW term
    PROVE  ~Lost(Q, term)
BY MajoritiesMeet DEF Lost

\* The beginnings of logs.
LEMMA BeginningTypes ==
    ASSUME TypeOK, LogInv, NEW p \in Beginnings
    PROVE  p \in Logs /\ Len(p.ents) > 0 /\ Aligned(p)
<1>1. PICK i \in Server : \E x \in 1..Len(node[i].log.ents) : p = Upto(node[i].log, x)
  BY DEF Beginnings
<1>2. PICK x \in 1..Len(node[i].log.ents) : p = Upto(node[i].log, x)
  BY <1>1
<1>3. node[i].log \in Logs /\ Aligned(node[i].log)
  BY LogTypes DEF LogInv, LogsPlain
<1>4. Len(node[i].log.ents) \in Nat /\ x > 0
  BY <1>3 DEF Logs
<1>5. p \in Logs /\ Aligned(p) /\ Len(p.ents) = x
  BY <1>2, <1>3, UptoBegins
<1> QED BY <1>4, <1>5

\* What is written as the beginning of a log and is the beginning of another one.
LEMMA BeginningMoves ==
    ASSUME NEW a \in Logs, Aligned(a), NEW x \in 1..Len(a.ents), NEW b \in Logs, Begins(Upto(a, x), b)
    PROVE  x \in 1..Len(b.ents) /\ Upto(a, x) = Upto(b, x)
<1> DEFINE p == Upto(a, x)
<1>1. p \in Logs /\ Len(p.ents) = x /\ Begins(p, a)
  BY UptoBegins
<1>2. Len(a.ents) \in Nat /\ Len(b.ents) \in Nat
  BY DEF Logs
<1> HIDE DEF p
<1>3. x <= Len(b.ents) /\ \A y \in 1..x : p.ents[y] = b.ents[y] /\ p.ents[y] = a.ents[y]
  BY <1>1 DEF Begins, p
<1>4. Share(a, b, x)
  BY <1>2, <1>3 DEF Share
<1> QED BY <1>2, <1>3, <1>4, UptoSame

LEMMA ChosenStays ==
    ASSUME NEW s, Stepping(s), VotesAsked, CallsFresh, NEW p \in Chosen
    PROVE  p \in Chosen'
<1>1. p \in Beginnings /\ p \in Logs /\ Len(p.ents) > 0
  BY BeginningTypes DEF Chosen, Stepping
<1>2. PICK Q \in SUBSET Voters : Majority(Q) /\ Backed(Q, p)
  BY DEF Chosen
<1>3. Q \in SUBSET Server /\ Q # {} /\ IsFiniteSet(Voters)
  <2>1. Voters \subseteq Server
    BY PeersAssumption DEF Voters
  <2>2. IsFiniteSet(Voters)
    BY DEF Stepping
  <2>3. Q # {}
    BY <1>2, <2>2, MajoritiesMeet
  <2> QED BY <2>1, <2>2, <2>3
<1>4. ~Lost(Q, LastTerm(p))'
  BY <1>2, <1>3, MajoritiesMeet DEF Lost, Majority
<1>5. Backed(Q, p)'
  BY <1>1, <1>2, <1>3, <1>4, BackedStep
<1>6. p \in Beginnings'
  <2>1. PICK i \in Server : \E x \in 1..Len(node[i].log.ents) : p = Upto(node[i].log, x)
    BY <1>1 DEF Beginnings
  <2>2. PICK x \in 1..Len(node[i].log.ents) : p = Upto(node[i].log, x)
    BY <2>1
  <2>3. PICK v \in Q : v \in Server /\ Begins(p, node'[v].log)
    BY <1>3, <1>5 DEF Backed, Held
  <2>4. /\ node[i].log \in Logs /\ Aligned(node[i].log) /\ node'[v].log \in Logs
    BY <2>3, SteppingTypes
  <2>5. x \in 1..Len(node'[v].log.ents) /\ p = Upto(node'[v].log, x)
    BY <2>2, <2>3, <2>4, BeginningMoves
  <2> QED BY <2>3, <2>5 DEF Beginnings
<1>7. Majority(Q)'
  BY <1>2 DEF Majority
<1> QED BY <1>5, <1>6, <1>7 DEF Chosen

\* What a leader hears of success: what it had heard, or what its follower does now.
LEMMA RepliesHeard ==
    ASSUME NEW s, Stepping(s), NEW i \in Server, role'[i] = "leader", NEW v \in Server,
           NEW m \in Replies(i, v)', m.success
    PROVE  /\ m.match \in Nat /\ m.hint \in Nat
           /\ \/ m \in Replies(i, v) /\ role[i] = "leader" /\ hs[i].term = hs'[i].term
              \/ /\ v = s /\ i # s /\ hs'[s].term = hs'[i].term
                 /\ Begins(node'[s].log, node'[i].log)
                 /\ m.match <= Len(node'[s].log.ents) /\ m.hint - 1 <= Len(node'[s].log.ents)
<1>1. m \in msgs' /\ m.type = "AppendEntriesReply" /\ m.from = v /\ m.to = i
  BY DEF Replies
<1>2. m \in AppendReplies /\ m.match \in Nat /\ m.hint \in Nat
  <2>1. m \in AppendReplies
    BY <1>1, MessageFields DEF Stepping, TypeOK
  <2> QED BY <2>1 DEF AppendReplies
<1>3. i # v /\ hs'[i].term = m.sent /\ m.term = m.sent
  BY <1>1 DEF Stepping, MatchInv, RepliesCurrent, LogInv, NoTransfers
<1>4. CASE m \in msgs
  <2>1. hs[i].term = m.sent /\ role[i] = "leader"
    BY <1>1, <1>4 DEF Stepping, LogInv, NoTransfers
  <2> QED BY <1>1, <1>2, <1>3, <1>4, <2>1 DEF Replies
<1>5. CASE m \notin msgs
  <2>1. PICK c \in msgs : Answers(s, c, m)
    BY <1>1, <1>5 DEF Stepping, MatchStep, SendsReplies
  <2>2. v = s /\ i # s /\ hs'[s].term = hs'[i].term /\ s \in Server
    BY <1>1, <1>3, <2>1, SteppingOthers DEF Answers
  <2>3. Following(i, s)' \/ Forked(i, s)'
    BY <2>2 DEF Stepping, MatchInv, ProgressKnown
  <2>4. Following(i, s)'
    BY <1>3, <2>2, <2>3 DEF Forked
  <2> QED BY <1>2, <2>2, <2>4 DEF Following
<1> QED BY <1>4, <1>5

\* What a leader takes to be replicated: nothing, what it had, or what it has heard of.
LEMMA MatchesHeard ==
    ASSUME NEW s, Stepping(s), NEW i \in Server, role'[i] = "leader", NEW v \in Server, v # i
    PROVE  \/ node'[i].match[v] = 0
           \/ /\ role[i] = "leader" /\ hs[i].term = hs'[i].term
              /\ \/ node'[i].match[v] = node[i].match[v]
                 \/ \E m \in Replies(i, v) : m.success /\ node'[i].match[v] \in {m.match, m.hint - 1}
<1>1. CASE i # s
  BY <1>1, SteppingOthers
<1>2. CASE i = s
  <2>1. Leads(s)
    BY <1>2 DEF Stepping, MatchStep
  <2>2. CASE ~(role[s] = "leader" /\ hs'[s].term = hs[s].term)
    BY <1>2, <2>1, <2>2 DEF Leads
  <2>3. CASE role[s] = "leader" /\ hs'[s].term = hs[s].term
    BY <1>2, <2>1, <2>3 DEF Leads, Keeps, Advances, BacksUp
  <2> QED BY <2>2, <2>3
<1> QED BY <1>1, <1>2

\* The log of a leader after a step.
LEMMA LeaderGrows ==
    ASSUME NEW s, Stepping(s), NEW i \in Server, role'[i] = "leader"
    PROVE  /\ Len(node[i].log.ents) <= Len(node'[i].log.ents)
           /\ \A x \in 1..Len(node[i].log.ents) : node'[i].log.ents[x] = node[i].log.ents[x]
<1>1. CASE i # s
  BY <1>1, SteppingOthers, SteppingTypes
<1>2. CASE i = s
  BY <1>2 DEF Stepping, MatchStep, LogStep, Continues, Longer
<1> QED BY <1>1, <1>2

LEMMA AcksBoundedStep ==
    ASSUME NEW s, Stepping(s), AcksBounded
    PROVE  AcksBounded'
<1> SUFFICES ASSUME NEW i \in Server, NEW v \in Server, role'[i] = "leader"
             PROVE  /\ node'[i].match[v] <= Len(node'[i].log.ents)
                    /\ \A m \in Replies(i, v)' : m.success =>
                          m.match <= Len(node'[i].log.ents) /\ m.hint <= Len(node'[i].log.ents) + 1
  BY DEF AcksBounded
<1> DEFINE la == Len(node[i].log.ents)
           lb == Len(node'[i].log.ents)
<1>1. la \in Nat /\ lb \in Nat /\ la <= lb /\ Len(node'[s].log.ents) \in Nat /\ s \in Server
  BY LeaderGrows, SteppingTypes, SteppingOthers
<1>2. role[i] = "leader" =>
        /\ node[i].match[v] <= la
        /\ \A m \in Replies(i, v) : m.success => m.match <= la /\ m.hint <= la + 1
  BY DEF AcksBounded
<1>3. node[i].match[v] \in Nat /\ node'[i].match[v] \in Nat
  <2>1. node[i] \in Nodes /\ node'[i] \in Nodes
    BY SteppingTypes
  <2> QED BY <2>1 DEF Nodes
<1>4. \A m \in Replies(i, v) : m.match \in Nat /\ m.hint \in Nat
  <2>1. \A m \in Replies(i, v) : m \in AppendReplies
    BY MessageFields DEF Replies, Stepping, TypeOK
  <2> QED BY <2>1 DEF AppendReplies
<1>5. v = i => node'[i].match[v] <= lb
  <2>1. LeadersHold'
    BY DEF Stepping, MatchInv
  <2> QED BY <2>1 DEF LeadersHold
<1> HIDE DEF la, lb
<1>6. node'[i].match[v] <= lb
  <2>1. CASE v # i
    <3>1. CASE node'[i].match[v] = 0
      BY <1>1, <3>1
    <3>2. CASE role[i] = "leader" /\ node'[i].match[v] = node[i].match[v]
      BY <1>1, <1>2, <1>3, <3>2
    <3>3. ASSUME role[i] = "leader", NEW m \in Replies(i, v), m.success,
                 node'[i].match[v] \in {m.match, m.hint - 1}
          PROVE  node'[i].match[v] <= lb
      <4>1. m.match <= la /\ m.hint <= la + 1 /\ m.match \in Nat /\ m.hint \in Nat
        BY <1>2, <1>4, <3>3
      <4> QED BY <1>1, <3>3, <4>1
    <3> QED BY <2>1, <3>1, <3>2, <3>3, MatchesHeard
  <2> QED BY <1>5, <2>1
<1>7. ASSUME NEW m \in Replies(i, v)', m.success PROVE m.match <= lb /\ m.hint <= lb + 1
  <2>1. m.match \in Nat /\ m.hint \in Nat
    BY <1>7, RepliesHeard
  <2>2. CASE m \in Replies(i, v) /\ role[i] = "leader"
    BY <1>1, <1>2, <1>7, <2>1, <2>2
  <2>3. CASE /\ Begins(node'[s].log, node'[i].log)
             /\ m.match <= Len(node'[s].log.ents) /\ m.hint - 1 <= Len(node'[s].log.ents)
    <3>1. Len(node'[s].log.ents) <= lb
      BY <2>3 DEF Begins, lb
    <3> QED BY <1>1, <2>1, <2>3, <3>1
  <2> QED BY <1>7, <2>2, <2>3, RepliesHeard
<1> QED BY <1>6, <1>7 DEF lb

\* Who has acknowledged a leader's log up to x: it had before, or has it now.
LEMMA AcksGrow ==
    ASSUME NEW s, Stepping(s), NEW i \in Server, role[i] = "leader", role'[i] = "leader",
           hs'[i].term = hs[i].term, NEW x \in 1..Len(node[i].log.ents), NEW v \in Acks(i, x)'
    PROVE  /\ v \in Server
           /\ \/ v \in Acks(i, x)
              \/ hs'[v].term = hs[i].term /\ Begins(Upto(node[i].log, x), node'[v].log)
<1>1. /\ v \in Server
      /\ \/ v = i \/ node'[i].match[v] >= x
         \/ \E m \in Replies(i, v)' : m.success /\ (m.match >= x \/ m.hint > x)
  BY DEF Acks
<1>2. /\ node[i].log \in Logs /\ node'[s].log \in Logs /\ node'[i].log \in Logs
      /\ Len(node[i].log.ents) \in Nat /\ Len(node'[s].log.ents) \in Nat /\ Len(node'[i].log.ents) \in Nat
      /\ x \in Nat /\ x > 0 /\ s \in Server /\ Aligned(node[i].log)
  BY SteppingTypes, SteppingOthers
<1>3. \A m \in Replies(i, v) : m.match \in Nat /\ m.hint \in Nat
  <2>1. \A m \in Replies(i, v) : m \in AppendReplies
    BY MessageFields DEF Replies, Stepping, TypeOK
  <2> QED BY <2>1 DEF AppendReplies
<1>4. CASE v = i
  BY <1>1, <1>4 DEF Acks
<1>5. CASE v # i /\ node'[i].match[v] >= x
  <2>1. CASE node'[i].match[v] = node[i].match[v]
    BY <1>1, <1>5, <2>1 DEF Acks
  <2>2. ASSUME NEW m \in Replies(i, v), m.success, node'[i].match[v] \in {m.match, m.hint - 1}
        PROVE  v \in Acks(i, x)
    <3>1. m.match >= x \/ m.hint > x
      BY <1>2, <1>3, <1>5, <2>2
    <3> QED BY <1>1, <2>2, <3>1 DEF Acks
  <2>3. node'[i].match[v] # 0
    BY <1>2, <1>5
  <2> QED BY <1>1, <1>5, <2>1, <2>2, <2>3, MatchesHeard
<1>6. ASSUME NEW m \in Replies(i, v)', m.success, m.match >= x \/ m.hint > x
      PROVE  \/ v \in Acks(i, x)
             \/ hs'[v].term = hs[i].term /\ Begins(Upto(node[i].log, x), node'[v].log)
  <2>1. CASE m \in Replies(i, v)
    BY <1>1, <1>6, <2>1 DEF Acks
  <2>2. CASE /\ v = s /\ i # s /\ hs'[s].term = hs'[i].term
             /\ Begins(node'[s].log, node'[i].log)
             /\ m.match <= Len(node'[s].log.ents) /\ m.hint - 1 <= Len(node'[s].log.ents)
    <3> DEFINE p == Upto(node[i].log, x)
    <3>1. m.match \in Nat /\ m.hint \in Nat
      BY <1>1, <1>6, RepliesHeard
    <3>2. node'[i] = node[i]
      BY <2>2, SteppingOthers
    <3>3. x <= Len(node'[s].log.ents)
      BY <1>2, <1>6, <2>2, <3>1
    <3>4. p \in Logs /\ Len(p.ents) = x /\ Begins(p, node[i].log)
      BY <1>2, UptoBegins
    <3> HIDE DEF p
    <3>5. \A y \in 1..x : p.ents[y] = node'[s].log.ents[y]
      <4>1. \A y \in 1..x : p.ents[y] = node[i].log.ents[y] /\ y \in 1..Len(node'[s].log.ents)
        BY <1>2, <3>3, <3>4 DEF Begins
      <4>2. \A y \in 1..Len(node'[s].log.ents) : node'[s].log.ents[y] = node[i].log.ents[y]
        BY <2>2, <3>2 DEF Begins
      <4> QED BY <4>1, <4>2
    <3>6. Begins(p, node'[s].log)
      BY <3>3, <3>4, <3>5 DEF Begins
    <3> QED BY <2>2, <3>6 DEF p
  <2> QED BY <1>1, <1>6, <2>1, <2>2, RepliesHeard
<1> QED BY <1>1, <1>4, <1>5, <1>6

\* What a leader wrote before.
LEMMA OldOwnEntry ==
    ASSUME NEW s, Stepping(s), VotesAsked, CallsFresh, NEW i \in Server,
           role[i] = "leader", role'[i] = "leader", hs'[i].term = hs[i].term,
           NEW x \in 1..Len(node[i].log.ents), node[i].log.ents[x].term = hs[i].term,
           NEW p, p = Upto(node[i].log, x), NEW A, A = Acks(i, x), NEW B, B = Acks(i, x)',
           NEW T, T = hs[i].term, Lost(A, T) \/ Backed(A, p)
    PROVE  Lost(B, T)' \/ Backed(B, p)'
<1>1. /\ node[i].log \in Logs /\ Aligned(node[i].log) /\ T \in Nat /\ s \in Server
      /\ \A j \in Server : hs[j].term \in Nat /\ hs'[j].term \in Nat /\ hs'[j].term >= hs[j].term
  BY SteppingTypes, SteppingOthers
<1>2. p \in Logs /\ Len(p.ents) > 0 /\ LastTerm(p) = T
  <2>1. x > 0
    BY <1>1 DEF Logs
  <2> QED BY <1>1, <2>1, UptoBegins
<1>3. A \in SUBSET Server /\ A # {} /\ B \in SUBSET Server
  BY DEF Acks
<1>4. \A v \in B : v \in A \/ (hs'[v].term = T /\ Begins(p, node'[v].log))
  BY AcksGrow
<1>5. Voters \subseteq Server
  BY PeersAssumption DEF Voters
<1>6. Lost(A, T) => Lost(A, T)'
  <2> SUFFICES ASSUME NEW Q \in SUBSET Voters, Majority(Q), \A v \in Q : v \notin A /\ hs[v].term > T
               PROVE  Majority(Q)' /\ \A v \in Q : v \notin A /\ hs'[v].term > T
    BY DEF Lost
  <2>1. \A v \in Q : v \in Server
    BY <1>5
  <2>2. \A v \in Q : v \notin A /\ hs'[v].term > T
    BY <1>1, <2>1
  <2> QED BY <2>2 DEF Majority
<1>7. Lost(A, T)' => Lost(B, T)'
  <2> SUFFICES ASSUME NEW Q \in SUBSET Voters, Majority(Q)', \A v \in Q : v \notin A /\ hs'[v].term > T
               PROVE  \A v \in Q : v \notin B /\ hs'[v].term > T
    BY DEF Lost
  <2>1. \A v \in Q : v \in Server
    BY <1>5
  <2> QED BY <1>1, <1>4, <2>1
<1>8. ASSUME Backed(A, p)' PROVE Backed(B, p)'
  <2>1. Held(B, p)'
    BY <1>1, <1>2, <1>4, <1>8 DEF Backed, Held
  <2>2. Unelectable(B, p)'
    <3> SUFFICES ASSUME NEW k \in Server, role'[k] = "candidate", hs'[k].term > LastTerm(p),
                        ~Begins(p, node'[k].log), NEW v \in B, Vote(v, hs'[k].term, k) \in granted'
                 PROVE  FALSE
      BY DEF Unelectable
    <3>1. v \notin A
      BY <1>8 DEF Backed, Unelectable
    <3>2. hs'[v].term = T
      BY <1>4, <3>1
    <3>3. hs'[k].term <= hs'[v].term
      BY DEF Stepping, ElectionInv, VotesRecorded, Vote
    <3> QED BY <1>1, <1>2, <3>2, <3>3
  <2> QED BY <1>8, <2>1, <2>2 DEF Backed
<1>9. Backed(A, p) => Backed(A, p)' \/ Lost(A, T)'
  BY <1>2, <1>3, BackedStep
<1> QED BY <1>6, <1>7, <1>8, <1>9

\* A later election leaves out the nodes that are still in term.
LEMMA LaterLost ==
    ASSUME NEW s, Stepping(s), NEW T, T = hs'[s].term, NEW t \in Nat, t > T, NEW c,
           NEW Q \in SUBSET Voters, Cardinality(Q) > Cardinality(Voters) \div 2,
           \A v \in Q : Vote(v, t, c) \in granted'
    PROVE  Lost({s}, T)'
<1>1. T \in Nat /\ \A v \in Server : hs'[v].term \in Nat
  BY SteppingTypes, SteppingOthers
<1>2. Voters \subseteq Server
  BY PeersAssumption DEF Voters
<1>3. \A v \in Q : v \in Server /\ t <= hs'[v].term
  BY <1>2 DEF Stepping, ElectionInv, VotesRecorded, Vote
<1>4. \A v \in Q : v \notin {s} /\ hs'[v].term > T
  BY <1>1, <1>3
<1> QED BY <1>4 DEF Lost, Majority

\* What a leader has just written has been acknowledged by nobody else.
LEMMA NewOwnAcks ==
    ASSUME NEW s, Stepping(s), AcksBounded, role'[s] = "leader",
           NEW x \in 1..Len(node'[s].log.ents), x > Len(node[s].log.ents)
    PROVE  Acks(s, x)' = {s}
<1>1. /\ s \in Server /\ Len(node[s].log.ents) \in Nat /\ x \in Nat /\ x > 0
  BY SteppingTypes, SteppingOthers
<1>2. \A v \in Server : node[s].match[v] \in Nat /\ node'[s].match[v] \in Nat
  BY <1>1, SteppingTypes DEF Nodes
<1>3. \A v \in Server : \A m \in Replies(s, v) : m.match \in Nat /\ m.hint \in Nat
  <2>1. \A v \in Server : \A m \in Replies(s, v) : m \in AppendReplies
    BY MessageFields DEF Replies, Stepping, TypeOK
  <2> QED BY <2>1 DEF AppendReplies
<1>4. role[s] = "leader" => \A v \in Server :
        /\ node[s].match[v] <= Len(node[s].log.ents)
        /\ \A m \in Replies(s, v) : m.success =>
              m.match <= Len(node[s].log.ents) /\ m.hint <= Len(node[s].log.ents) + 1
  BY <1>1 DEF AcksBounded
<1>5. ASSUME NEW v \in Server, v # s, node'[s].match[v] >= x PROVE FALSE
  <2>1. node'[s].match[v] # 0
    BY <1>1, <1>5
  <2>2. ASSUME role[s] = "leader", NEW m \in Replies(s, v), m.success,
               node'[s].match[v] \in {m.match, m.hint - 1}
        PROVE  FALSE
    <3>1. m.match <= Len(node[s].log.ents) /\ m.hint <= Len(node[s].log.ents) + 1
          /\ m.match \in Nat /\ m.hint \in Nat
      BY <1>3, <1>4, <2>2
    <3> QED BY <1>1, <1>5, <2>2, <3>1
  <2>3. role[s] = "leader" /\ node'[s].match[v] = node[s].match[v]
    BY <1>1, <1>5, <2>1, <2>2, MatchesHeard
  <2> QED BY <1>1, <1>2, <1>4, <1>5, <2>3
<1>6. ASSUME NEW v \in Server, v # s, NEW m \in Replies(s, v)', m.success,
             m.match >= x \/ m.hint > x
      PROVE  FALSE
  <2>1. m \in Replies(s, v) /\ role[s] = "leader"
    BY <1>1, <1>6, RepliesHeard
  <2>2. m.match <= Len(node[s].log.ents) /\ m.hint <= Len(node[s].log.ents) + 1
        /\ m.match \in Nat /\ m.hint \in Nat
    BY <1>3, <1>4, <1>6, <2>1
  <2> QED BY <1>1, <1>6, <2>2
<1> QED BY <1>1, <1>5, <1>6 DEF Acks

\* No log but the leader's has what it has just written, unless a later leader wrote it.
LEMMA NewOwnReaches ==
    ASSUME NEW s, Stepping(s), role'[s] = "leader", NEW T, T = hs'[s].term,
           NEW p \in Logs, Len(p.ents) > Len(node[s].log.ents), LastTerm(p) = T,
           NEW j \in Server, j # s, Reaches(node'[j].log, p)
    PROVE  Lost({s}, T)'
<1> DEFINE b == node[j].log
<1>1. /\ node'[j] = node[j] /\ T \in Nat /\ Len(b.ents) \in Nat /\ Aligned(b) /\ s \in Server
      /\ Len(p.ents) \in Nat /\ Len(node[s].log.ents) \in Nat
      /\ \A x \in 1..Len(b.ents) : b.ents[x].term \in Nat
  BY SteppingTypes, SteppingOthers, LastOf
<1>2. PICK y \in 1..Len(b.ents) : b.ents[y].term > T \/ (b.ents[y].term = T /\ y >= Len(p.ents))
  BY <1>1 DEF Reaches
<1> DEFINE l == LogLink(b, y)
<1>3. l \in Links /\ l.entry = b.ents[y] /\ l.entry.index = y
  BY <1>1, LogLinks DEF LogLink, LinkOf, Aligned
<1>4. l \in Links'
  <2>1. (y \in 1..Len(node[j].log.ents) => LogLink(node[j].log, y) \in Links)'
    BY <1>1 DEF Links
  <2> QED BY <1>1, <2>1
<1> HIDE DEF l, b
<1>5. CASE b.ents[y].term > T
  <2>1. PICK c \in Server, Q \in SUBSET Voters :
          /\ Cardinality(Q) > Cardinality(Voters) \div 2
          /\ \A v \in Q : Vote(v, l.entry.term, c) \in granted'
    BY <1>4 DEF Stepping, LogInv, LinksElected
  <2>2. l.entry.term \in Nat /\ l.entry.term > T
    BY <1>1, <1>2, <1>3, <1>5
  <2> QED BY <2>1, <2>2, LaterLost
<1>6. CASE b.ents[y].term = T /\ y >= Len(p.ents)
  <2>1. CASE role[s] = "leader" /\ hs[s].term = T
    <3>1. l.entry.index <= Len(node[s].log.ents)
      BY <1>1, <1>3, <1>6, <2>1 DEF Stepping, LogInv, LeadersAhead
    <3> QED BY <1>1, <1>2, <1>3, <1>6, <3>1
  <2>2. CASE ~(role[s] = "leader" /\ hs[s].term = T)
    <3>1. l.entry.term # T
      BY <1>1, <1>3, <2>2, NewLeader DEF Stepping, MatchStep
    <3> QED BY <1>3, <1>6, <3>1
  <2> QED BY <2>1, <2>2
<1> QED BY <1>2, <1>5, <1>6

\* A call of the leader of the term of p, to a node of that term.
LEMMA NewOwnCall ==
    ASSUME NEW s, Stepping(s), role'[s] = "leader", NEW T, T = hs'[s].term,
           NEW p \in Logs, Len(p.ents) > 0, Begins(p, node'[s].log),
           NEW m \in AppendsUnderWay', m.term = T
    PROVE  /\ Fits(m, p)
           /\ hs'[m.to].term = m.term =>
                \/ Begins(node'[m.to].log, p) \/ Begins(p, node'[m.to].log)
                \/ PastFork(p, node'[m.to].log, m.prevIndex)
<1>1. m \in AppendCalls /\ s \in Server
  BY MessageFields, SteppingOthers DEF AppendsUnderWay, Stepping, TypeOK
<1>2. m.to \in Server /\ m.prevIndex \in Nat /\ Len(m.ents) \in Nat
  BY <1>1 DEF AppendCalls
<1>3. m.from = s /\ m.to # s
  BY <1>1, SteppingKnown DEF Known
<1>4. node'[s].log \in Logs /\ Aligned(node'[s].log) /\ Sorted(node'[s].log) /\ node'[m.to].log \in Logs
  BY <1>1, <1>2, SteppingKnown, SteppingTypes DEF Known
<1>5. CopyOf(m, node'[s].log)
  BY <1>1, <1>3 DEF Stepping, MatchInv, LeadersHold
<1>6. Fits(m, p)
  BY <1>2, <1>4, <1>5, FitsCopy
<1>7. ASSUME hs'[m.to].term = m.term
      PROVE  \/ Begins(node'[m.to].log, p) \/ Begins(p, node'[m.to].log)
             \/ PastFork(p, node'[m.to].log, m.prevIndex)
  <2>1. Following(s, m.to)' \/ Forked(s, m.to)'
    BY <1>1, <1>2, <1>3, <1>7 DEF Stepping, MatchInv, ProgressKnown
  <2>2. CASE Following(s, m.to)'
    <3>1. Begins(node'[m.to].log, node'[s].log)
      BY <2>2 DEF Following
    <3> QED BY <1>4, <3>1, BeginningsMeet
  <2>3. CASE Forked(s, m.to)'
    <3>1. m.prevIndex \in Sent(s, m.to)'
      BY <1>3 DEF Sent
    <3>2. PastFork(node'[m.to].log, node'[s].log, m.prevIndex) /\ m.prevIndex \in Int
      BY <1>2, <2>3, <3>1 DEF Forked
    <3> QED BY <1>4, <3>2, BeginningsMeet
  <2> QED BY <2>1, <2>2, <2>3
<1> QED BY <1>6, <1>7

\* What a leader has just written.
LEMMA NewOwnEntry ==
    ASSUME NEW s, Stepping(s), role'[s] = "leader", NEW T, T = hs'[s].term,
           NEW x \in 1..Len(node'[s].log.ents), x > Len(node[s].log.ents),
           node'[s].log.ents[x].term = T, NEW p, p = Upto(node'[s].log, x)
    PROVE  Lost({s}, T)' \/ Backed({s}, p)'
<1>1. /\ s \in Server /\ T \in Nat /\ x \in Nat /\ x > 0
      /\ node'[s].log \in Logs /\ Aligned(node'[s].log)
      /\ \A k \in Server : hs'[k].term \in Nat
  BY SteppingTypes, SteppingOthers
<1>2. p \in Logs /\ Len(p.ents) = x /\ LastTerm(p) = T /\ Begins(p, node'[s].log)
  BY <1>1, UptoBegins
<1>3. Held({s}, p)'
  BY <1>1, <1>2 DEF Held
<1>4. Unelectable({s}, p)'
  <2> SUFFICES ASSUME NEW k \in Server, hs'[k].term > T, Vote(s, hs'[k].term, k) \in granted'
               PROVE  FALSE
    BY <1>2 DEF Unelectable
  <2>1. hs'[k].term <= hs'[s].term
    BY DEF Stepping, ElectionInv, VotesRecorded, Vote
  <2> QED BY <1>1, <2>1
<1>5. ASSUME ~Lost({s}, T)', NEW j \in Server, Reaches(node'[j].log, p)
      PROVE  Begins(p, node'[j].log)
  <2>1. CASE j = s
    BY <1>2, <2>1
  <2>2. CASE j # s
    BY <1>2, <1>5, <2>2, NewOwnReaches
  <2> QED BY <2>1, <2>2
<1>6. ASSUME ~Lost({s}, T)', NEW m \in AppendsUnderWay', m.term >= T PROVE m.term = T
  <2>1. m \in AppendCalls
    BY MessageFields DEF AppendsUnderWay, Stepping, TypeOK
  <2>2. m.term \in Nat
    BY <2>1 DEF AppendCalls
  <2>3. PICK Q \in SUBSET Voters : /\ Cardinality(Q) > Cardinality(Voters) \div 2
                                   /\ \A v \in Q : Vote(v, m.term, m.from) \in granted'
    BY DEF Stepping, MatchInv, CallsElected
  <2>4. ~(m.term > T)
    BY <1>6, <2>2, <2>3, LaterLost
  <2> QED BY <1>1, <1>6, <2>2, <2>4
<1>7. ASSUME ~Lost({s}, T)' PROVE CallsFit(p)' /\ CallsMeet(p)'
  <2>1. ASSUME NEW m \in AppendsUnderWay', m.term >= T
        PROVE  /\ Fits(m, p)
               /\ hs'[m.to].term = m.term =>
                    \/ Begins(node'[m.to].log, p) \/ Begins(p, node'[m.to].log)
                    \/ PastFork(p, node'[m.to].log, m.prevIndex)
    BY <1>1, <1>2, <1>6, <1>7, <2>1, NewOwnCall
  <2> QED BY <1>2, <2>1 DEF CallsFit, CallsMeet
<1> QED BY <1>3, <1>4, <1>5, <1>7 DEF Backed, NoneReaches

LEMMA OwnEntriesStep ==
    ASSUME NEW s, Stepping(s), VotesAsked, CallsFresh, AcksBounded, OwnEntries
    PROVE  OwnEntries'
<1> SUFFICES ASSUME NEW i \in Server, role'[i] = "leader", NEW x \in 1..Len(node'[i].log.ents),
                    node'[i].log.ents[x].term = hs'[i].term
             PROVE  (Lost(Acks(i, x), hs[i].term) \/ Backed(Acks(i, x), Upto(node[i].log, x)))'
  BY DEF OwnEntries
<1> DEFINE a == node[i].log
           b == node'[i].log
<1>1. /\ s \in Server /\ a \in Logs /\ b \in Logs /\ Aligned(a)
      /\ Len(a.ents) \in Nat /\ Len(b.ents) \in Nat
      /\ Len(a.ents) <= Len(b.ents) /\ \A y \in 1..Len(a.ents) : b.ents[y] = a.ents[y]
  BY SteppingTypes, SteppingOthers, LeaderGrows
<1>2. PICK p : p = Upto(b, x)
  OBVIOUS
<1>3. PICK A : A = Acks(i, x)
  OBVIOUS
<1>4. PICK B : B = Acks(i, x)'
  OBVIOUS
<1>5. PICK T : T = hs'[i].term
  OBVIOUS
<1> SUFFICES Lost(B, T)' \/ Backed(B, p)'
  BY <1>2, <1>4, <1>5
<1>6. CASE x <= Len(a.ents) /\ role[i] = "leader" /\ hs[i].term = hs'[i].term
  <2>1. x \in 1..Len(a.ents) /\ a.ents[x].term = hs[i].term
    BY <1>1, <1>6
  <2>2. Share(a, b, x)
    BY <1>1, <1>6 DEF Share
  <2>3. p = Upto(a, x)
    BY <1>1, <1>2, <2>1, <2>2, UptoSame
  <2>4. Lost(A, T) \/ Backed(A, p)
    BY <1>3, <1>5, <1>6, <2>1, <2>3 DEF OwnEntries
  <2> QED BY <1>3, <1>4, <1>5, <1>6, <2>1, <2>3, <2>4, OldOwnEntry
<1>7. CASE x <= Len(a.ents) /\ ~(role[i] = "leader" /\ hs[i].term = hs'[i].term)
  <2>1. i = s
    BY <1>7, SteppingOthers
  <2>2. LogLink(a, x) \in Links /\ LogLink(a, x).entry.term = hs'[s].term
    <3>1. x \in 1..Len(a.ents) /\ a.ents[x].term = hs'[s].term
      BY <1>1, <1>7, <2>1
    <3>2. LogLink(a, x).entry = a.ents[x]
      BY DEF LogLink, LinkOf
    <3> QED BY <3>1, <3>2, LogLinks
  <2>3. LogLink(a, x).entry.term # hs'[s].term
    BY <1>1, <1>7, <2>1, <2>2, NewLeader DEF Stepping, MatchStep
  <2> QED BY <2>2, <2>3
<1>8. CASE ~(x <= Len(a.ents))
  <2>1. i = s
    BY <1>1, <1>8, SteppingOthers
  <2>2. x > Len(node[s].log.ents)
    BY <1>1, <1>8, <2>1
  <2>3. B = {s}
    BY <1>4, <2>1, <2>2, NewOwnAcks
  <2> QED BY <1>2, <1>5, <2>1, <2>2, <2>3, NewOwnEntry
<1> QED BY <1>6, <1>7, <1>8

LEMMA CallsFreshStep ==
    ASSUME NEW s, Stepping(s), CallsFresh
    PROVE  CallsFresh'
<1> SUFFICES ASSUME NEW m \in AppendsUnderWay', hs'[m.to].term < m.term, NEW k \in 1..Len(m.ents)
             PROVE  m.ents[k].term = m.term
  BY DEF CallsFresh
<1>1. m \in AppendCalls /\ m \in msgs' /\ m.type = "AppendEntries"
  BY MessageFields DEF AppendsUnderWay, Stepping, TypeOK
<1>2. m.to \in Server /\ m.prevIndex \in Nat /\ Len(m.ents) \in Nat /\ m.term \in Nat
  BY <1>1 DEF AppendCalls
<1>3. CASE m \in msgs
  <2>1. m \in AppendsUnderWay /\ hs[m.to].term < m.term
    <3>1. hs[m.to].term \in Nat /\ hs'[m.to].term \in Nat /\ hs'[m.to].term >= hs[m.to].term
      BY <1>2, SteppingTypes, SteppingOthers
    <3> QED BY <1>1, <1>2, <1>3, <3>1 DEF AppendsUnderWay
  <2> QED BY <2>1 DEF CallsFresh
<1>4. CASE m \notin msgs
  <2>1. m.from = s /\ m.to # s /\ m.term = hs'[s].term /\ role'[s] = "leader" /\ CopyOf(m, node'[s].log)
    BY <1>1, <1>4 DEF Stepping, MatchStep, StartsCalls
  <2>2. Unreached(s, m.to)' /\ s \in Server
    BY <1>2, <2>1, SteppingOthers DEF Stepping, MatchInv, ProgressKnown
  <2>3. m.prevIndex \in Sent(s, m.to)'
    BY <2>1 DEF Sent
  <2>4. PastOlder(node'[s].log, m.term, m.prevIndex)
    BY <2>1, <2>2, <2>3 DEF Unreached
  <2> DEFINE y == m.prevIndex + k
             lb == Len(node'[s].log.ents)
  <2>5. y \in 1..lb /\ ~(y <= m.prevIndex) /\ m.ents[k] = node'[s].log.ents[y]
    <3>1. m.prevIndex + Len(m.ents) <= lb /\ lb \in Nat
      BY <2>1, <2>2, SteppingTypes DEF CopyOf
    <3>2. m.ents[k] = node'[s].log.ents[y]
      BY <2>1 DEF CopyOf
    <3> HIDE DEF lb
    <3> QED BY <1>2, <3>1, <3>2
  <2> HIDE DEF y
  <2>6. ~(node'[s].log.ents[y].term < m.term)
    BY <2>4, <2>5 DEF PastOlder
  <2>7. node'[s].log.ents[y].term <= m.term /\ node'[s].log.ents[y].term \in Nat
    BY <2>1, <2>2, <2>5, SteppingTypes DEF Stepping, MatchInv, TermsOrdered
  <2> QED BY <1>2, <2>5, <2>6, <2>7
<1> QED BY <1>3, <1>4

LEMMA VotesAskedStep ==
    ASSUME NEW s, Stepping(s), VotesAsked
    PROVE  VotesAsked'
<1>1. /\ s \in Server /\ VoteStep(s) /\ RoleStep(s)
      /\ \A j \in Server : hs[j].term \in Nat /\ hs'[j].term \in Nat /\ hs'[j].term >= hs[j].term
      /\ \A j \in Server : j # s => role'[j] = role[j] /\ node'[j] = node[j]
  BY SteppingTypes, SteppingOthers DEF Stepping, MatchStep, LogStep
<1>2. /\ \A g \in granted : g.candidate \in Server /\ g.term \in Nat
      /\ \A g \in granted' : g.candidate \in Server /\ g.term \in Nat
      /\ \A m \in msgs : m.type = "RequestVote" => m.from \in Server /\ m.term \in Nat
      /\ \A m \in msgs' : m.type = "RequestVote" => m.from \in Server /\ m.term \in Nat
  <2>1. \A m \in msgs : m.type = "RequestVote" => m \in VoteRequests
    BY MessageFields DEF Stepping, TypeOK
  <2>2. \A m \in msgs' : m.type = "RequestVote" => m \in VoteRequests
    BY MessageFields DEF Stepping, TypeOK
  <2>3. \A m \in VoteRequests : m.from \in Server /\ m.term \in Nat
    BY DEF VoteRequests
  <2> QED BY <2>1, <2>2, <2>3 DEF Stepping, TypeOK
<1>3. ASSUME NEW g \in granted' PROVE hs'[g.candidate].term >= g.term
  <2>1. CASE g \in granted
    <3>1. hs[g.candidate].term >= g.term
      BY <2>1 DEF VotesAsked
    <3> QED BY <1>1, <1>2, <1>3, <3>1
  <2>2. CASE g.term = hs'[s].term /\ g.candidate = s
    BY <1>1, <2>2
  <2>3. ASSUME NEW m \in msgs, m.type = "RequestVote", m.from = g.candidate, m.term = g.term
        PROVE  hs'[g.candidate].term >= g.term
    <3>1. hs[g.candidate].term >= g.term
      BY <2>3 DEF VotesAsked
    <3> QED BY <1>1, <1>2, <1>3, <3>1
  <2> QED BY <1>1, <2>1, <2>2, <2>3 DEF VoteStep
<1>4. ASSUME NEW m \in msgs', m.type = "RequestVote"
      PROVE  /\ hs'[m.from].term >= m.term
             /\ hs'[m.from].term = m.term /\ role'[m.from] = "candidate" =>
                  m.lastIndex = LastIndex(node'[m.from].log) /\ m.lastTerm = LastTerm(node'[m.from].log)
  <2> DEFINE j == m.from
  <2>0. j \in Server /\ m.term \in Nat
    BY <1>2, <1>4
  <2>1. CASE m \in msgs
    <3>1. /\ hs[j].term >= m.term
          /\ hs[j].term = m.term /\ role[j] = "candidate" =>
                m.lastIndex = LastIndex(node[j].log) /\ m.lastTerm = LastTerm(node[j].log)
      BY <1>4, <2>1 DEF VotesAsked
    <3> HIDE DEF j
    <3>2. hs'[j].term >= m.term /\ (hs'[j].term = m.term => hs[j].term = hs'[j].term)
      BY <1>1, <2>0, <3>1
    <3>3. hs'[j].term = hs[j].term /\ role'[j] = "candidate" =>
            role[j] = "candidate" /\ node'[j].log = node[j].log
      <4>1. CASE j # s
        BY <1>1, <2>0, <4>1
      <4>2. CASE j = s
        BY <1>1, <4>2 DEF RoleStep, VoteStep
      <4> QED BY <4>1, <4>2
    <3>4. hs'[j].term >= m.term
            /\ (hs'[j].term = m.term /\ role'[j] = "candidate" =>
                  m.lastIndex = LastIndex(node'[j].log) /\ m.lastTerm = LastTerm(node'[j].log))
      BY <3>1, <3>2, <3>3
    <3> QED BY <3>4 DEF j
  <2>2. CASE /\ m.from = s /\ m.term = hs'[s].term
             /\ m.lastIndex = LastIndex(node'[s].log) /\ m.lastTerm = LastTerm(node'[s].log)
    BY <1>1, <2>2
  <2> QED BY <1>1, <1>4, <2>1, <2>2 DEF VoteStep
<1> QED BY <1>3, <1>4 DEF VotesAsked

-----------------------------------------------------------------------------
(***************************************************************************)
(* What a step of node s does, as far as commitment is concerned.          *)
(***************************************************************************)

\* The machine of a node is what its log has up to the applied index.
Sound(n) ==
    /\ n.applied <= n.commit /\ n.commit <= Len(n.log.ents)
    /\ n.sm = SubSeq(n.log.ents, 1, n.applied)
    /\ n.snap.sm = <<>>

\* The commit index of leader i is at an entry of its term that a majority has.
Decided(n, i, term) ==
    /\ n.commit \in 1..Len(n.log.ents)
    /\ n.log.ents[n.commit].term = term
    /\ Majority({j \in Voters : j = i \/ n.match[j] >= n.commit})

CommitStep(s) ==
    /\ \A m \in msgs' : m.type = "AppendEntries" => m \in msgs \/ m.commit <= node'[s].commit
    /\ hs'[s].commit <= node'[s].commit
    /\ Sound(node'[s])
    /\ \/ node'[s].commit <= node[s].commit
       \/ role'[s] = "leader" /\ Decided(node'[s], s, hs'[s].term)
       \/ \E m \in msgs : Takes(s, m, m.ents) /\ node'[s].commit <= m.commit
    /\ node'[s].acked \subseteq
          node[s].acked \cup {node'[s].log.ents[x] : x \in 1..node'[s].applied}
    /\ \/ /\ node'[s].commit >= node[s].commit /\ node'[s].applied >= node[s].applied
          /\ node[s].acked \subseteq node'[s].acked
       \/ restarts' # restarts /\ node'[s].applied = 0 /\ node'[s].acked = node[s].acked

LEMMA ChosenBacked ==
    ASSUME TypeOK, LogInv, MatchInv, IsFiniteSet(Voters), NEW p \in Chosen
    PROVE  /\ p \in Logs /\ Len(p.ents) > 0 /\ Len(p.ents) \in Nat /\ LastTerm(p) \in Nat
           /\ NoneReaches(p) /\ CallsFit(p) /\ CallsMeet(p)
           /\ Sorted(p) /\ \A j \in Server : Agree(node[j].log, p)
<1>1. p \in Logs /\ Len(p.ents) > 0
  BY BeginningTypes DEF Chosen
<1>2. PICK Q \in SUBSET Voters : Majority(Q) /\ Backed(Q, p)
  BY DEF Chosen
<1>3. PICK v \in Q : v \in Server /\ Begins(p, node[v].log)
  <2>1. Q # {}
    BY <1>2, MajoritiesMeet
  <2>2. Voters \subseteq Server
    BY PeersAssumption DEF Voters
  <2> QED BY <1>2, <2>1, <2>2 DEF Backed, Held
<1>4. Sorted(p) /\ \A j \in Server : Agree(node[j].log, p)
  BY <1>1, <1>3, HeldLike
<1> QED BY <1>1, <1>2, <1>4, LastOf DEF Backed

\* What a node knows to be committed stays in its log.
LEMMA CommitStays ==
    ASSUME NEW s, Stepping(s), CommitsChosen
    PROVE  /\ node[s].commit \in Nat /\ Share(node[s].log, node'[s].log, node[s].commit)
           /\ node[s].commit > 0 => \E p \in Chosen :
                /\ LastTerm(p) <= hs[s].term /\ node[s].commit <= Len(p.ents)
                /\ \A x \in 1..node[s].commit : p.ents[x] = node'[s].log.ents[x]
<1> DEFINE a == node[s].log
           b == node'[s].log
           c == node[s].commit
<1>1. /\ s \in Server /\ a \in Logs /\ b \in Logs /\ c \in Nat /\ Len(a.ents) \in Nat /\ Len(b.ents) \in Nat
      /\ hs[s].term \in Nat /\ hs'[s].term \in Nat /\ hs'[s].term >= hs[s].term
  BY SteppingTypes, SteppingOthers DEF Nodes
<1>2. c <= Len(a.ents) /\ Settled(s)
  BY <1>1 DEF CommitsChosen
<1>3. CASE c = 0
  BY <1>1, <1>3 DEF Share
<1>4. CASE c > 0
  <2>1. PICK p \in Chosen : /\ LastTerm(p) <= hs[s].term /\ c <= Len(p.ents)
                            /\ \A x \in 1..c : p.ents[x] = a.ents[x]
    BY <1>2, <1>4 DEF Settled
  <2>2. p \in Logs /\ Len(p.ents) \in Nat /\ LastTerm(p) \in Nat /\ CallsFit(p)
    BY ChosenBacked DEF Stepping
  <2> HIDE DEF a, b, c
  <2>3. Share(a, p, c)
    BY <1>2, <2>1 DEF Share
  <2>4. hs'[s].term >= LastTerm(p)
    BY <1>1, <2>1, <2>2
  <2>5. Share(b, p, c)
    BY <1>1, <2>1, <2>2, <2>3, <2>4, StepShares DEF a, b
  <2>6. Share(a, b, c)
    BY <2>3, <2>5 DEF Share
  <2>7. \A x \in 1..c : p.ents[x] = b.ents[x]
    BY <2>5 DEF Share
  <2> QED BY <1>1, <2>1, <2>6, <2>7 DEF a, b, c
<1> QED BY <1>1, <1>3, <1>4

\* What a leader commits is chosen.
LEMMA DecidedChosen ==
    ASSUME NEW s, Stepping(s), OwnEntries', role'[s] = "leader", NEW T, T = hs'[s].term,
           NEW x, x = node'[s].commit, Decided(node'[s], s, T), NEW p, p = Upto(node'[s].log, x)
    PROVE  p \in Chosen' /\ LastTerm(p) = T /\ Len(p.ents) = x /\ p.ents = SubSeq(node'[s].log.ents, 1, x)
<1> DEFINE b == node'[s].log
<1>1. s \in Server /\ b \in Logs /\ Aligned(b) /\ IsFiniteSet(Voters)
  BY SteppingTypes, SteppingOthers DEF Stepping
<1>2. x \in 1..Len(b.ents) /\ b.ents[x].term = T
  BY DEF Decided
<1>3. PICK W : W = {j \in Voters : j = s \/ node'[s].match[j] >= x}
  OBVIOUS
<1>4. PICK A : A = Acks(s, x)'
  OBVIOUS
<1>5. W \in SUBSET Voters /\ Majority(W)
  BY <1>3 DEF Decided
<1>6. W \subseteq A
  <2>1. Voters \subseteq Server
    BY PeersAssumption DEF Voters
  <2> QED BY <1>1, <1>3, <1>4, <2>1 DEF Acks
<1>7. ~Lost(A, T)'
  BY <1>1, <1>5, <1>6, MajoritiesMeet DEF Lost, Majority
<1>8. Backed(A, p)'
  BY <1>1, <1>2, <1>4, <1>7 DEF OwnEntries
<1>9. Backed(W, p)'
  BY <1>6, <1>8 DEF Backed, Held, Unelectable
<1>10. p \in Beginnings'
  BY <1>1, <1>2 DEF Beginnings
<1>11. Majority(W)'
  BY <1>5 DEF Majority
<1>12. p \in Chosen'
  BY <1>5, <1>9, <1>10, <1>11 DEF Chosen
<1> QED BY <1>1, <1>2, <1>12, UptoBegins

LEMMA SettledStep ==
    ASSUME NEW s, Stepping(s), CommitInv, OwnEntries', CommitStep(s)
    PROVE  Settled(s)'
<1> DEFINE b == node'[s].log
           c == node'[s].commit
<1>0. CommitsChosen /\ VotesAsked /\ CallsFresh
  BY DEF CommitInv
<1>1. /\ s \in Server /\ b \in Logs /\ Len(b.ents) \in Nat /\ c \in Nat /\ c <= Len(b.ents)
      /\ node[s].commit \in Nat /\ hs[s].term \in Nat /\ hs'[s].term \in Nat /\ hs'[s].term >= hs[s].term
  BY SteppingTypes, SteppingOthers DEF Nodes, CommitStep, Sound
<1> SUFFICES ASSUME c > 0
             PROVE  \E p \in Chosen' : /\ LastTerm(p) <= hs'[s].term /\ c <= Len(p.ents)
                                       /\ \A x \in 1..c : p.ents[x] = b.ents[x]
  BY DEF Settled
<1>2. CASE c <= node[s].commit
  <2>1. node[s].commit > 0 /\ \A x \in 1..c : x \in 1..node[s].commit
    BY <1>1, <1>2
  <2>2. PICK p \in Chosen : /\ LastTerm(p) <= hs[s].term /\ node[s].commit <= Len(p.ents)
                            /\ \A x \in 1..node[s].commit : p.ents[x] = b.ents[x]
    BY <1>0, <2>1, CommitStays
  <2>3. LastTerm(p) \in Nat /\ Len(p.ents) \in Nat
    BY ChosenBacked DEF Stepping
  <2>4. LastTerm(p) <= hs'[s].term /\ c <= Len(p.ents)
    BY <1>1, <1>2, <2>2, <2>3
  <2>5. p \in Chosen'
    BY <1>0, ChosenStays
  <2> QED BY <2>1, <2>2, <2>4, <2>5
<1>3. CASE role'[s] = "leader" /\ Decided(node'[s], s, hs'[s].term)
  <2>1. PICK p : p = Upto(b, c)
    OBVIOUS
  <2>2. p \in Chosen' /\ LastTerm(p) = hs'[s].term /\ Len(p.ents) = c /\ p.ents = SubSeq(b.ents, 1, c)
    BY <1>3, <2>1, DecidedChosen
  <2>3. \A x \in 1..c : p.ents[x] = b.ents[x]
    <3>1. b.ents \in Seq(Entries)
      BY <1>1 DEF Logs
    <3> QED BY <1>1, <2>2, <3>1
  <2>4. LastTerm(p) <= hs'[s].term /\ c <= Len(p.ents)
    <3> HIDE DEF c
    <3> QED BY <1>1, <2>2
  <2>5. p \in Chosen'
    BY <2>2
  <2> HIDE DEF b, c
  <2> QED BY <2>3, <2>4, <2>5
<1>4. ASSUME NEW m \in msgs, Takes(s, m, m.ents), c <= m.commit
      PROVE  \E p \in Chosen' : /\ LastTerm(p) <= hs'[s].term /\ c <= Len(p.ents)
                                /\ \A x \in 1..c : p.ents[x] = b.ents[x]
  <2>1. m \in AppendsUnderWay /\ m.term = hs'[s].term
    BY <1>4 DEF Takes
  <2>2. m.commit \in Nat
    BY <2>1, CallTypes DEF Stepping, AppendCalls
  <2>3. PICK p \in Chosen : LastTerm(p) <= m.term /\ m.commit <= Len(p.ents)
    BY <1>0, <1>1, <1>4, <2>1, <2>2 DEF CommitsChosen
  <2>4. /\ p \in Logs /\ Len(p.ents) > 0 /\ Len(p.ents) \in Nat /\ LastTerm(p) \in Nat
        /\ NoneReaches(p) /\ CallsFit(p) /\ CallsMeet(p) /\ Sorted(p) /\ Agree(node[s].log, p)
    BY <1>1, ChosenBacked DEF Stepping
  <2>5. m.term >= LastTerm(p)
    BY <1>1, <2>1, <2>3, <2>4
  <2>6. Begins(b, p) \/ Begins(p, b)
    BY <1>0, <1>4, <2>4, <2>5, TakesMeets
  <2>7. c <= Len(p.ents)
    BY <1>1, <1>4, <2>2, <2>3, <2>4
  <2>8. \A x \in 1..c : x \in 1..Len(p.ents) /\ x \in 1..Len(b.ents)
    BY <1>1, <2>4, <2>7
  <2>9. \A x \in 1..c : p.ents[x] = b.ents[x]
    BY <2>6, <2>8 DEF Begins
  <2>10. p \in Chosen'
    BY <1>0, ChosenStays
  <2> QED BY <2>1, <2>3, <2>7, <2>9, <2>10
<1> QED BY <1>2, <1>3, <1>4 DEF CommitStep

LEMMA CommitsChosenStep ==
    ASSUME NEW s, Stepping(s), CommitInv, OwnEntries', CommitStep(s)
    PROVE  CommitsChosen'
<1>0. CommitsChosen /\ VotesAsked /\ CallsFresh /\ Settled(s)'
  BY SettledStep DEF CommitInv
<1>1. /\ s \in Server
      /\ \A j \in Server : j # s => hs'[j] = hs[j] /\ node'[j] = node[j]
  BY SteppingOthers
<1>2. ASSUME NEW p \in Chosen PROVE p \in Chosen'
  BY <1>0, ChosenStays
<1>3. ASSUME NEW j \in Server
      PROVE  /\ hs'[j].commit <= node'[j].commit /\ node'[j].commit <= Len(node'[j].log.ents)
             /\ Settled(j)'
  <2>1. CASE j = s
    BY <1>0, <2>1 DEF CommitStep, Sound
  <2>2. CASE j # s
    BY <1>0, <1>1, <1>2, <2>2 DEF CommitsChosen, Settled
  <2> QED BY <2>1, <2>2
<1>4. ASSUME NEW m \in AppendsUnderWay', m.commit > 0
      PROVE  \E p \in Chosen' : LastTerm(p) <= m.term /\ m.commit <= Len(p.ents)
  <2>1. CASE m \in msgs
    <3>1. m \in AppendsUnderWay
      BY <2>1 DEF AppendsUnderWay
    <3> QED BY <1>0, <1>2, <1>4, <3>1 DEF CommitsChosen
  <2>2. CASE m \notin msgs
    <3>1. m.commit <= node'[s].commit /\ m.term = hs'[s].term
      BY <2>2 DEF AppendsUnderWay, CommitStep, Stepping, MatchStep, StartsCalls
    <3>2. m \in AppendCalls
      BY MessageFields DEF AppendsUnderWay, Stepping, TypeOK
    <3>3. m.commit \in Nat /\ node'[s].commit \in Nat
      BY <1>1, <3>2, SteppingTypes DEF AppendCalls, Nodes
    <3>4. node'[s].commit > 0
      BY <1>4, <3>1, <3>3
    <3>5. PICK p \in Chosen' : LastTerm(p) <= hs'[s].term /\ node'[s].commit <= Len(p.ents)
      BY <1>0, <3>4 DEF Settled
    <3>6. Len(p.ents) \in Nat
      <4>1. (TypeOK /\ LogInv)' /\ p \in Beginnings'
        BY <3>5 DEF Stepping, Chosen
      <4>2. p \in Logs
        <5>1. PICK i \in Server : \E x \in 1..Len(node'[i].log.ents) : p = Upto(node'[i].log, x)
          BY <4>1 DEF Beginnings
        <5>2. PICK x \in 1..Len(node'[i].log.ents) : p = Upto(node'[i].log, x)
          BY <5>1
        <5> QED BY <5>2, SteppingTypes, UptoBegins
      <4> QED BY <4>2 DEF Logs
    <3>7. m.commit <= Len(p.ents)
      BY <3>1, <3>3, <3>5, <3>6
    <3> QED BY <3>1, <3>5, <3>7
  <2> QED BY <2>1, <2>2
<1> QED BY <1>3, <1>4 DEF CommitsChosen

LEMMA AppliedCommittedStep ==
    ASSUME NEW s, Stepping(s), CommitInv, OwnEntries', CommitStep(s)
    PROVE  AppliedCommitted'
<1>0. CommitsChosen /\ AppliedCommitted /\ VotesAsked /\ CallsFresh /\ Settled(s)'
  BY SettledStep DEF CommitInv
<1>1. /\ s \in Server
      /\ \A j \in Server : j # s => node'[j] = node[j]
  BY SteppingOthers
<1>2. ASSUME NEW p \in Chosen PROVE p \in Chosen'
  BY <1>0, ChosenStays
<1>3. ASSUME NEW j \in Server
      PROVE  /\ node'[j].applied <= node'[j].commit
             /\ node'[j].sm = SubSeq(node'[j].log.ents, 1, node'[j].applied)
             /\ node'[j].snap.sm = <<>>
  <2>1. CASE j = s
    BY <2>1 DEF CommitStep, Sound
  <2>2. CASE j # s
    BY <1>0, <1>1, <2>2 DEF AppliedCommitted
  <2> QED BY <2>1, <2>2
<1>4. ASSUME NEW j \in Server, NEW e \in node[j].acked
      PROVE  \E p \in Chosen' : e.index \in 1..Len(p.ents) /\ p.ents[e.index] = e
  BY <1>0, <1>2 DEF AppliedCommitted
<1>5. ASSUME NEW x \in 1..node'[s].commit
      PROVE  \E p \in Chosen' : LET e == node'[s].log.ents[x]
                                IN  e.index \in 1..Len(p.ents) /\ p.ents[e.index] = e
  <2>1. /\ node'[s].commit \in Nat /\ node'[s].commit <= Len(node'[s].log.ents)
        /\ Len(node'[s].log.ents) \in Nat /\ Aligned(node'[s].log)
    BY <1>1, SteppingTypes DEF Nodes, CommitStep, Sound
  <2>2. node'[s].commit > 0 /\ x \in 1..Len(node'[s].log.ents)
    BY <2>1
  <2>3. node'[s].log.ents[x].index = x
    BY <2>1, <2>2 DEF Aligned
  <2>4. PICK p \in Chosen' : /\ node'[s].commit <= Len(p.ents)
                             /\ \A y \in 1..node'[s].commit : p.ents[y] = node'[s].log.ents[y]
    BY <1>0, <2>2 DEF Settled
  <2>5. x \in 1..Len(p.ents)
    <3>1. p \in Beginnings'
      BY DEF Chosen
    <3>2. PICK i \in Server : \E y \in 1..Len(node'[i].log.ents) : p = Upto(node'[i].log, y)
      BY <3>1 DEF Beginnings
    <3>3. PICK y \in 1..Len(node'[i].log.ents) : p = Upto(node'[i].log, y)
      BY <3>2
    <3>4. p \in Logs
      BY <3>3, SteppingTypes, UptoBegins
    <3>5. Len(p.ents) \in Nat
      BY <3>4 DEF Logs
    <3> QED BY <2>1, <2>4, <3>5
  <2> QED BY <2>3, <2>4, <2>5
<1>6. ASSUME NEW j \in Server, NEW e \in node'[j].acked
      PROVE  \E p \in Chosen' : e.index \in 1..Len(p.ents) /\ p.ents[e.index] = e
  <2>1. CASE e \in node[j].acked
    BY <1>4, <2>1
  <2>2. CASE e \notin node[j].acked
    <3>1. j = s
      BY <1>1, <1>6, <2>2
    <3>2. PICK x \in 1..node'[s].applied : e = node'[s].log.ents[x]
      BY <1>6, <2>2, <3>1 DEF CommitStep
    <3>3. x \in 1..node'[s].commit
      BY <1>1, SteppingTypes DEF Nodes, CommitStep, Sound
    <3> QED BY <1>5, <3>2, <3>3
  <2> QED BY <2>1, <2>2
<1> QED BY <1>3, <1>6 DEF AppliedCommitted

LEMMA CommitStepKeeps ==
    ASSUME NEW s, Stepping(s), CommitInv, CommitStep(s)
    PROVE  CommitInv'
<1>1. OwnEntries /\ AcksBounded /\ CallsFresh /\ VotesAsked
  BY DEF CommitInv
<1>2. OwnEntries'
  BY <1>1, OwnEntriesStep
<1>3. AcksBounded' /\ CallsFresh' /\ VotesAsked'
  BY <1>1, AcksBoundedStep, CallsFreshStep, VotesAskedStep
<1> QED BY <1>2, <1>3, CommitsChosenStep, AppliedCommittedStep DEF CommitInv

-----------------------------------------------------------------------------
(***************************************************************************)
(* What the steps of a handler do to the commit index.                     *)
(***************************************************************************)

\* Record b comes after n in a handler of i that commits, applies and sends.
Works(n, b, i, term) ==
    /\ Sound(b)
    /\ n.commit <= b.commit /\ n.applied <= b.applied
    /\ b.commit = n.commit \/ Decided(b, i, term)
    /\ n.acked \subseteq b.acked
    /\ b.acked \subseteq n.acked \cup {b.log.ents[x] : x \in 1..b.applied}
    /\ \A c \in b.out : c \in n.out \/ c.commit <= b.commit

\* Nothing of what Sound speaks of has changed.
Idle(n, b) ==
    /\ Quiet(n, b)
    /\ b.commit = n.commit /\ b.applied = n.applied /\ b.sm = n.sm /\ b.acked = n.acked

LEMMA IdleWorks ==
    ASSUME NEW n \in Nodes, Sound(n), NEW b, Idle(n, b), NEW i, NEW term
    PROVE  Works(n, b, i, term)
<1>1. n.commit \in Nat /\ n.applied \in Nat
  BY DEF Nodes
<1>2. Sound(b)
  BY DEF Sound, Idle, Quiet
<1> QED BY <1>1, <1>2 DEF Works, Idle, Quiet

LEMMA WorksTrans ==
    ASSUME NEW n \in Nodes, NEW i \in Server, NEW term \in Nat, NEW b, Plain(b), NEW c,
           Works(n, b, i, term), Works(b, c, i, term), Pushed(b, c, i, term)
    PROVE  Works(n, c, i, term)
<1>1. /\ n.commit \in Nat /\ b.commit \in Nat /\ c.commit \in Nat
      /\ n.applied \in Nat /\ b.applied \in Nat /\ c.applied \in Nat
      /\ Len(b.log.ents) \in Nat /\ Len(c.log.ents) \in Nat
      /\ \A d \in c.out : d.commit \in Nat
      /\ \A d \in b.out : d.commit \in Nat
  <2>1. n \in Nodes /\ b \in Nodes /\ c \in Nodes
    BY DEF Pushed, Grown, Plain
  <2>2. \A k \in Nodes : Plain(k) => \A d \in k.out : d.commit \in Nat
    BY DEF Nodes, Plain, CopyOf, AppendCalls, SnapshotCalls
  <2>3. Plain(c)
    BY DEF Pushed, Grown
  <2> QED BY <2>1, <2>2, <2>3, PlainLog DEF Nodes
<1>2. /\ Len(b.log.ents) <= Len(c.log.ents)
      /\ \A k \in 1..Len(b.log.ents) : c.log.ents[k] = b.log.ents[k]
  BY DEF Pushed, Grown, Longer
<1>3. n.commit <= c.commit /\ n.applied <= c.applied /\ n.acked \subseteq c.acked
  BY <1>1 DEF Works
<1>4. b.applied <= Len(b.log.ents) /\ b.applied <= c.applied
  BY <1>1 DEF Works, Sound
<1>5. ASSUME c.commit = b.commit, Decided(b, i, term) PROVE Decided(c, i, term)
  <2>1. {j \in Voters : j = i \/ b.match[j] >= b.commit} = {j \in Voters : j = i \/ c.match[j] >= c.commit}
    <3>1. Voters \subseteq Server
      BY PeersAssumption DEF Voters
    <3> QED BY <1>5, <3>1 DEF Pushed
  <2>2. c.commit \in 1..Len(b.log.ents) /\ c.commit \in 1..Len(c.log.ents)
    BY <1>1, <1>2, <1>5 DEF Decided
  <2>3. c.log.ents[c.commit].term = term
    BY <1>2, <1>5, <2>2 DEF Decided
  <2> QED BY <1>5, <2>1, <2>2, <2>3 DEF Decided
<1>6. c.commit = n.commit \/ Decided(c, i, term)
  BY <1>5 DEF Works
<1>7. ASSUME NEW e \in c.acked PROVE e \in n.acked \/ \E x \in 1..c.applied : e = c.log.ents[x]
  <2>1. CASE \E x \in 1..c.applied : e = c.log.ents[x]
    BY <2>1
  <2>2. CASE e \in b.acked
    <3>1. e \in n.acked \/ \E x \in 1..b.applied : e = b.log.ents[x]
      BY <2>2 DEF Works
    <3>2. ASSUME NEW x \in 1..b.applied, e = b.log.ents[x] PROVE \E y \in 1..c.applied : e = c.log.ents[y]
      <4>1. x \in 1..Len(b.log.ents) /\ x \in 1..c.applied
        BY <1>1, <1>4
      <4> QED BY <1>2, <3>2, <4>1
    <3> QED BY <3>1, <3>2
  <2> QED BY <2>1, <2>2 DEF Works
<1>8. c.acked \subseteq n.acked \cup {c.log.ents[x] : x \in 1..c.applied}
  BY <1>7
<1>9. \A d \in c.out : d \in n.out \/ d.commit <= c.commit
  BY <1>1 DEF Works
<1> QED BY <1>3, <1>6, <1>8, <1>9 DEF Works

\* maybeApply brings the machine of a sound node to its commit index.
LEMMA ApplyWorks ==
    ASSUME NEW n, Plain(n), Sound(n), NEW i \in Server, NEW term
    PROVE  LET b == MaybeApply(n)
           IN  Works(n, b, i, term) /\ Still(n, b) /\ b.commit = n.commit /\ b.conf = n.conf
<1> DEFINE a == ApplyCommitted(n)
           b == MaybeApply(n)
<1>0. 0 \in Nat
  OBVIOUS
<1>1. /\ n \in Nodes /\ n.log.ents \in Seq(Entries) /\ n.log.snapIndex = 0
      /\ Len(n.log.ents) \in Nat /\ n.commit \in Nat /\ n.applied \in Nat
      /\ n.applied <= n.commit /\ n.commit <= Len(n.log.ents)
      /\ n.sm = SubSeq(n.log.ents, 1, n.applied)
  BY PlainLog DEF Plain, Sound, Aligned, Nodes
<1>2. a \in Nodes /\ b \in Nodes
  BY <1>1, ApplyCommittedType, MaybeApplyType
<1>3. Still(n, b)
  BY <1>0, <1>1, StillSteps
<1>4. /\ b.commit = a.commit /\ b.applied = a.applied /\ b.sm = a.sm /\ b.acked = a.acked
      /\ b.conf = a.conf
  <2> HIDE DEF a
  <2>1. b = TryFinishReads(a)
    BY DEF MaybeApply, a
  <2> HIDE DEF b
  <2> QED BY <1>2, <2>1 DEF TryFinishReads, Nodes
<1>5. a.commit = n.commit /\ a.conf = n.conf
  BY <1>1 DEF ApplyCommitted, Nodes
<1>6. /\ a.applied = n.commit /\ a.sm = SubSeq(n.log.ents, 1, n.commit)
      /\ \A e \in a.acked : e \in n.acked \/ \E x \in 1..n.commit : e = n.log.ents[x]
      /\ n.acked \subseteq a.acked
  <2> DEFINE from == IF n.applied < n.commit
                     THEN MaxOf(n.applied, MinOf(0, n.commit)) ELSE n.applied
             to   == MinOf(n.commit, 0 + Len(n.log.ents))
             run  == SubSeq(n.log.ents, from - 0 + 1, to - 0)
             told == {run[k] : k \in {x \in 1..(to - from) : from + x \in n.waiting}}
  <2>1. from = n.applied /\ to = n.commit
    BY <1>1 DEF MaxOf, MinOf
  <2>2. run = SubSeq(n.log.ents, n.applied + 1, n.commit)
    <3> HIDE DEF from, to
    <3>1. from - 0 + 1 = n.applied + 1 /\ to - 0 = n.commit
      BY <1>1, <2>1
    <3> QED BY <3>1
  <2>3. a = IF from < 0 \/ to <= from THEN [n EXCEPT !.applied = from]
            ELSE [n EXCEPT !.applied = to, !.sm = @ \o run, !.acked = @ \cup told,
                           !.waiting = @ \ (from + 1 .. to)]
    BY <1>1 DEF ApplyCommitted
  <2> HIDE DEF a, from, to, run
  <2>4. CASE n.applied = n.commit
    <3>1. a = [n EXCEPT !.applied = from]
      BY <1>1, <2>1, <2>3, <2>4
    <3> QED BY <1>1, <2>1, <2>4, <3>1 DEF Nodes
  <2>5. CASE n.applied < n.commit
    <3> HIDE DEF told
    <3>1. a = [n EXCEPT !.applied = to, !.sm = @ \o run, !.acked = @ \cup told,
                        !.waiting = @ \ (from + 1 .. to)]
      BY <1>1, <2>1, <2>3, <2>5
    <3>2. a.applied = n.commit /\ a.sm = n.sm \o run /\ a.acked = n.acked \cup told
      BY <1>1, <2>1, <3>1 DEF Nodes
    <3>3. n.sm \o run = SubSeq(n.log.ents, 1, n.commit)
      <4>1. /\ 1 \in 1..Len(n.log.ents) + 1 /\ n.applied \in 1 - 1 .. Len(n.log.ents)
            /\ n.commit \in n.applied .. Len(n.log.ents)
        BY <1>1
      <4> QED BY <1>1, <2>2, <4>1, ConcatAdjacentSubSeq
    <3>4. ASSUME NEW e \in told PROVE \E x \in 1..n.commit : e = n.log.ents[x]
      <4>1. PICK k \in 1..(to - from) : e = run[k]
        BY <3>4 DEF told
      <4>2. k \in 1..(n.commit - n.applied) /\ n.applied + k \in 1..n.commit
        BY <1>1, <2>1, <4>1
      <4>3. run[k] = n.log.ents[n.applied + k]
        BY <1>1, <2>2, <4>2
      <4> QED BY <4>1, <4>2, <4>3
    <3> QED BY <3>2, <3>3, <3>4
  <2> QED BY <1>1, <2>4, <2>5
<1>7. b.log = n.log /\ b.snap = n.snap /\ b.out = n.out
  BY <1>3 DEF Still, Quiet
<1> HIDE DEF a, b
<1>8. b.acked \subseteq n.acked \cup {b.log.ents[x] : x \in 1..b.applied}
  BY <1>4, <1>5, <1>6, <1>7
<1>9. Sound(b)
  BY <1>1, <1>4, <1>5, <1>6, <1>7 DEF Sound
<1>10. Works(n, b, i, term)
  BY <1>1, <1>4, <1>5, <1>6, <1>7, <1>8, <1>9 DEF Works
<1> QED BY <1>3, <1>4, <1>5, <1>10 DEF b

\* maybeCommit of a leader that knows all voters goes to an entry of its term only
\* that a majority has.
LEMMA CommitWorks ==
    ASSUME NEW n, Plain(n), Sound(n), NEW i \in Server, NEW term \in Nat,
           n.conf.voters = Voters, IsFiniteSet(Voters)
    PROVE  LET b == MaybeCommit(n, i, term)
           IN  Works(n, b, i, term) /\ b.conf = n.conf
<1> DEFINE C == Committable(n, i, term)
           x == CHOOSE x \in C : \A y \in C : y <= x
           d == [n EXCEPT !.commit = x]
           b == MaybeApply(d)
<1>1. /\ n \in Nodes /\ n.log \in Logs /\ n.log.snapIndex = 0 /\ Len(n.log.ents) \in Nat
      /\ n.commit \in Nat /\ n.applied \in Nat /\ n.applied <= n.commit
      /\ LastIndex(n.log) = Len(n.log.ents)
  BY PlainLog, AlignedReads DEF Plain, Sound, Aligned, Nodes
<1>2. CASE C = {}
  <2>1. Idle(n, n)
    BY DEF Idle, Quiet
  <2> QED BY <1>1, <1>2, <2>1, IdleWorks DEF MaybeCommit
<1>3. CASE C # {}
  <2>1. x \in C /\ x \in Nat /\ x > n.commit
    BY <1>1, <1>3, CommittablePick
  <2>2. MaybeCommit(n, i, term) = b
    BY <1>3 DEF MaybeCommit
  <2> HIDE DEF x
  <2>3. /\ x \in 1..Len(n.log.ents) /\ Term(n.log, x) = term
        /\ Cardinality(Replicated(n, i, x)) >= Quorum(n.conf)
    BY <1>1, <2>1 DEF Committable
  <2> HIDE DEF C
  <2>4. n.log.ents[x].term = term
    <3>1. x \in Int /\ Aligned(n.log)
      BY <2>3 DEF Plain
    <3> QED BY <1>1, <2>3, <3>1, AlignedReads
  <2>5. Majority({j \in Voters : j = i \/ n.match[j] >= x})
    <3> DEFINE R == Replicated(n, i, x)
               W == {j \in Voters : j = i \/ n.match[j] >= x}
    <3>1. R \subseteq W
      BY DEF Replicated
    <3>2. Quorum(n.conf) = Cardinality(Voters) \div 2 + 1
      BY DEF Quorum
    <3>3. W \subseteq Voters
      OBVIOUS
    <3> HIDE DEF R, W
    <3>4. IsFiniteSet(W) /\ IsFiniteSet(R)
      BY <3>1, <3>3, FS_Subset
    <3>5. Cardinality(R) <= Cardinality(W) /\ Cardinality(R) \in Nat /\ Cardinality(W) \in Nat
          /\ Cardinality(Voters) \in Nat
      BY <3>1, <3>4, FS_Subset, FS_CardinalityType
    <3>6. Cardinality(R) >= Cardinality(Voters) \div 2 + 1
      BY <2>3, <3>2 DEF R
    <3>7. Cardinality(W) > Cardinality(Voters) \div 2
      <4> DEFINE half == Cardinality(Voters) \div 2
      <4>1. half \in Int
        BY <3>5
      <4> HIDE DEF half
      <4>2. Cardinality(R) >= half + 1
        BY <3>6 DEF half
      <4>3. Cardinality(W) > half
        BY <3>5, <4>1, <4>2
      <4> QED BY <4>3 DEF half
    <3>8. Majority(W)
      BY <3>3, <3>7 DEF Majority
    <3> QED BY <3>8 DEF W
  <2>6. /\ d \in Nodes /\ d.commit = x /\ d.applied = n.applied /\ d.sm = n.sm /\ d.acked = n.acked
        /\ Still(n, d) /\ d.conf = n.conf
    <3>1. d \in Nodes
      BY <1>1, <2>1 DEF Nodes
    <3>2. /\ d.commit = x /\ d.applied = n.applied /\ d.sm = n.sm /\ d.acked = n.acked
          /\ d.conf = n.conf
      BY <1>1 DEF Nodes
    <3>3. Still(n, d)
      BY <1>1 DEF Nodes, Still, Quiet
    <3> QED BY <3>1, <3>2, <3>3
  <2> HIDE DEF d
  <2>7. Plain(d)
    BY <2>6, QuietGrows DEF Still, Grown
  <2>8. Sound(d)
    BY <1>1, <2>1, <2>3, <2>6 DEF Sound, Still, Quiet
  <2>9. Works(d, b, i, term) /\ Still(d, b) /\ b.commit = x /\ b.conf = n.conf
    BY <2>6, <2>7, <2>8, ApplyWorks
  <2> HIDE DEF b
  <2>10. b.match = n.match /\ b.log = n.log
    BY <2>6, <2>9 DEF Still, Quiet
  <2>11. Decided(b, i, term)
    BY <2>3, <2>4, <2>5, <2>9, <2>10 DEF Decided
  <2>12. \A c \in b.out : c \in n.out
    BY <2>6, <2>9 DEF Still, Quiet
  <2>13. n.commit <= b.commit /\ n.applied <= b.applied
    BY <1>1, <2>1, <2>6, <2>9 DEF Works
  <2>14. Works(n, b, i, term)
    BY <2>6, <2>9, <2>11, <2>12, <2>13 DEF Works
  <2> QED BY <2>2, <2>9, <2>14
<1> QED BY <1>2, <1>3

LEMMA SendWorks ==
    ASSUME NEW n, Plain(n), Sound(n), NEW i \in Server, NEW term \in Nat, NEW J \in SUBSET Server
    PROVE  LET b == SendTo(n, i, term, J)
           IN  Works(n, b, i, term) /\ b.conf = n.conf /\ b.commit = n.commit
<1> DEFINE b == SendTo(n, i, term, J)
<1>1. n \in Nodes /\ n.commit \in Nat /\ n.applied \in Nat
  BY DEF Plain, Nodes
<1>2. /\ b.log = n.log /\ b.snap = n.snap /\ b.commit = n.commit /\ b.applied = n.applied
      /\ b.sm = n.sm /\ b.acked = n.acked /\ b.conf = n.conf
      /\ b.out = n.out \cup UNION {CallTo(n, i, term, j) : j \in J}
  BY <1>1 DEF SendTo, Nodes
<1> HIDE DEF b
<1>3. ASSUME NEW j \in J, NEW c \in CallTo(n, i, term, j) PROVE c.commit = n.commit
  BY DEF CallTo, Plain, AppendCall
<1>4. \A c \in b.out : c \in n.out \/ c.commit <= b.commit
  BY <1>1, <1>2, <1>3
<1>5. Sound(b)
  BY <1>2 DEF Sound
<1> QED BY <1>1, <1>2, <1>4, <1>5 DEF Works, b

LEMMA BcastWorks ==
    ASSUME NEW n, Plain(n), Sound(n), NEW i \in Server, NEW term \in Nat
    PROVE  LET b == Bcast(n, i, term)
           IN  Works(n, b, i, term) /\ b.conf = n.conf
<1>1. Members(n.conf) \ {i} \in SUBSET Server
  BY DEF Plain, Nodes, Membership, Members
<1> QED BY <1>1, SendWorks DEF Bcast

LEMMA AppendWorks ==
    ASSUME NEW n, Plain(n), Sound(n), NEW i \in Server, NEW term \in Nat, NEW type, NEW data,
           <<type, data>> \in Payloads
    PROVE  LET b == AppendData(n, i, term, type, data)
           IN  /\ Works(n, b, i, term)
               /\ b.conf = IF type = "config" THEN data ELSE n.conf
<1> DEFINE e == Entry(LastIndex(n.log) + 1, term, type, data)
           a == [n EXCEPT !.log       = AppendTo(@, <<e>>),
                          !.wal       = Replay(@, <<e>>),
                          !.match[i]  = IF n.next[i] # 0 THEN e.index ELSE @,
                          !.next[i]   = IF @ # 0 THEN e.index + 1 ELSE 0]
           b == AppendData(n, i, term, type, data)
<1>1. /\ n \in Nodes /\ n.commit \in Nat /\ n.applied \in Nat /\ Len(n.log.ents) \in Nat
      /\ n.log.ents \in Seq(Entries) /\ n.applied <= n.commit /\ n.commit <= Len(n.log.ents)
      /\ n.sm = SubSeq(n.log.ents, 1, n.applied)
  BY PlainLog DEF Plain, Nodes, Sound
<1>2. b = IF type = "config" THEN [ApplyConfig(a, data) EXCEPT !.pending = e.index] ELSE a
  BY DEF AppendData
<1>3. /\ a.commit = n.commit /\ a.applied = n.applied /\ a.sm = n.sm /\ a.acked = n.acked
      /\ a.out = n.out /\ a.snap = n.snap /\ a.conf = n.conf /\ DOMAIN a = DOMAIN n
  <2> HIDE DEF e
  <2> QED BY <1>1 DEF Nodes
<1>4. /\ b.commit = n.commit /\ b.applied = n.applied /\ b.sm = n.sm /\ b.acked = n.acked
      /\ b.out = n.out /\ b.snap = n.snap /\ b.conf = IF type = "config" THEN data ELSE n.conf
  <2> HIDE DEF a, b, e
  <2> QED BY <1>1, <1>2, <1>3 DEF ApplyConfig, Nodes
<1>5. Plain(b) /\ Longer(n.log, b.log, term)
  BY AppendDataGrows DEF Grown
<1> HIDE DEF a, b, e
<1>6. /\ b.log.ents \in Seq(Entries) /\ Len(b.log.ents) \in Nat
      /\ Len(n.log.ents) <= Len(b.log.ents)
      /\ \A x \in 1..n.applied : b.log.ents[x] = n.log.ents[x]
  BY <1>1, <1>5, PlainLog DEF Longer
<1>7. n.sm = SubSeq(b.log.ents, 1, n.applied)
  BY <1>1, <1>6
<1>8. Sound(b)
  BY <1>1, <1>4, <1>6, <1>7 DEF Sound
<1> QED BY <1>1, <1>4, <1>8 DEF Works, b

LEMMA AcceptWorks ==
    ASSUME NEW n, Plain(n), Sound(n), NEW i \in Server, NEW term \in Nat, NEW type, NEW data,
           <<type, data>> \in Payloads, IsFiniteSet(Voters),
           \/ Accept(n, i, term, type, data).conf.voters = Voters
           \/ type # "config" /\ n.conf.voters = Voters
    PROVE  Works(n, Accept(n, i, term, type, data), i, term)
<1> DEFINE a == AppendData(n, i, term, type, data)
           c == MaybeCommit(a, i, term)
           b == Bcast(c, i, term)
<1>1. n \in Nodes /\ Accept(n, i, term, type, data) = b
  BY DEF Plain, Accept
<1>2. /\ Works(n, a, i, term) /\ Pushed(n, a, i, term) /\ Ends(a, term) /\ Plain(a)
      /\ a.conf = IF type = "config" THEN data ELSE n.conf
  <2>1. Works(n, a, i, term) /\ a.conf = IF type = "config" THEN data ELSE n.conf
    BY AppendWorks
  <2>2. Pushed(n, a, i, term) /\ Ends(a, term)
    BY AppendPushes
  <2> HIDE DEF a
  <2> QED BY <2>1, <2>2 DEF Pushed, Grown
<1> HIDE DEF a
<1>3. Pushed(a, c, i, term) /\ Plain(c) /\ Ends(c, term)
  BY <1>2, CommitPushes, MaybeCommitGrows, EndsGrow DEF Grown
<1>4. c.conf = a.conf
  <2>1. a \in Nodes /\ MaybeCommit(a, i, term) \in Nodes
    BY <1>2, MaybeCommitType DEF Plain
  <2>2. \A k \in Nodes : MaybeApply(k).conf = k.conf
    <3>1. ASSUME NEW k \in Nodes PROVE TryFinishReads(k).conf = k.conf
      BY DEF TryFinishReads, Nodes
    <3>2. ASSUME NEW k \in Nodes PROVE ApplyCommitted(k).conf = k.conf
      BY DEF ApplyCommitted, Nodes
    <3> QED BY <3>1, <3>2, ApplyCommittedType DEF MaybeApply
  <2>3. ASSUME NEW x \in Nat PROVE MaybeApply([a EXCEPT !.commit = x]).conf = a.conf
    <3> DEFINE d == [a EXCEPT !.commit = x]
    <3>1. d \in Nodes /\ d.conf = a.conf
      BY <2>1 DEF Nodes
    <3> HIDE DEF d
    <3>2. MaybeApply(d).conf = a.conf
      BY <2>2, <3>1
    <3> QED BY <3>2 DEF d
  <2> QED BY <2>1, <2>3, CommittablePick DEF MaybeCommit
<1>5. b.conf = c.conf
  BY <1>3 DEF Bcast, SendTo, Plain, Nodes
<1>6. a.conf.voters = Voters
  BY <1>1, <1>2, <1>4, <1>5
<1>7. Sound(a)
  BY <1>2 DEF Works
<1>8. Works(a, c, i, term)
  BY <1>2, <1>6, <1>7, CommitWorks
<1> HIDE DEF c
<1>9. Works(c, b, i, term) /\ Pushed(c, b, i, term)
  BY <1>3, <1>8, BcastWorks, BcastPushes DEF Works
<1> HIDE DEF b
<1>10. Works(n, c, i, term)
  BY <1>1, <1>2, <1>3, <1>8, WorksTrans
<1>11. Works(n, b, i, term)
  BY <1>1, <1>3, <1>9, <1>10, WorksTrans
<1> QED BY <1>1, <1>11

LEMMA PromoteWorks ==
    ASSUME NEW n, Plain(n), Sound(n), NEW i \in Server, NEW term \in Nat, NEW j \in Server,
           IsFiniteSet(Voters), MaybePromoteLearner(n, i, term, j).conf.voters = Voters
    PROVE  Works(n, MaybePromoteLearner(n, i, term, j), i, term)
<1>1. <<"config", Promoted(n.conf, j)>> \in Payloads
  BY DEF Payloads, Promoted, Membership, Nodes, Plain
<1>2. Works(n, n, i, term)
  <2>1. Idle(n, n) /\ n \in Nodes
    BY DEF Idle, Quiet, Plain
  <2> QED BY <2>1, IdleWorks
<1> DEFINE a == Accept(n, i, term, "config", Promoted(n.conf, j))
<1>3. a.conf.voters = Voters => Works(n, a, i, term)
  BY <1>1, AcceptWorks
<1>4. MaybePromoteLearner(n, i, term, j) = a \/ MaybePromoteLearner(n, i, term, j) = n
  BY DEF MaybePromoteLearner
<1> HIDE DEF a
<1> QED BY <1>2, <1>3, <1>4

LEMMA ElectedWorks ==
    ASSUME NEW n, Plain(n), Sound(n), NEW i \in Server, NEW term \in Nat,
           n.conf.voters = Voters, IsFiniteSet(Voters)
    PROVE  Works(n, Elected(n, i, term), i, term)
<1> DEFINE r == ResetProgress(n, i)
           b == Accept(r, i, term, "noop", None)
<1>1. Plain(r) /\ n \in Nodes
  BY ElectedPushes DEF Plain
<1>2. Idle(n, r) /\ r.conf = n.conf
  BY <1>1 DEF ResetProgress, Idle, Quiet, Nodes
<1>3. <<"noop", None>> \in Payloads
  BY DEF Payloads
<1> HIDE DEF r
<1>4. Works(n, r, i, term) /\ Sound(r)
  BY <1>1, <1>2, IdleWorks DEF Works
<1>5. Works(r, b, i, term) /\ Pushed(r, b, i, term)
  BY <1>1, <1>2, <1>3, <1>4, AcceptWorks, AcceptPushes
<1>6. Elected(n, i, term) = b
  BY DEF Elected, r
<1> HIDE DEF b
<1>7. Works(n, b, i, term)
  BY <1>1, <1>4, <1>5, WorksTrans
<1> QED BY <1>6, <1>7

LEMMA HousekeepingWorks ==
    ASSUME NEW n, Plain(n), Sound(n), NEW i \in Server, NEW term \in Nat,
           Housekeeping(n).snap.index = 0
    PROVE  /\ Works(n, Housekeeping(n), i, term) /\ Housekeeping(n).commit = n.commit
<1> DEFINE a == MaybeApply(n)
           b == Housekeeping(n)
<1>1. Works(n, a, i, term) /\ Still(n, a) /\ a.commit = n.commit /\ a \in Nodes /\ n \in Nodes
  BY ApplyWorks, MaybeApplyType DEF Plain
<1>2. Quiet(n, b) /\ b \in Nodes
  BY HousekeepingQuiet
<1>3. b = MaybeSnapshot(a)
  BY DEF Housekeeping
<1> HIDE DEF a, b
<1>4. b.commit = a.commit /\ b.applied = a.applied /\ b.sm = a.sm /\ b.acked = a.acked
  BY <1>1, <1>3 DEF MaybeSnapshot, Nodes
<1>5. Quiet(a, b)
  BY <1>1, <1>2 DEF Still, Quiet
<1>6. Works(n, b, i, term)
  BY <1>1, <1>4, <1>5 DEF Works, Sound, Decided, Quiet
<1> QED BY <1>1, <1>4, <1>6 DEF b

\* Answering and failing what is pending.
LEMMA IdleSteps ==
    ASSUME NEW n \in Nodes
    PROVE  /\ Idle(n, TryFinishReads(n)) /\ TryFinishReads(n).conf = n.conf
           /\ Idle(n, FailPending(n))
           /\ \A j \in Server : Idle(n, AckReads(n, j)) /\ AckReads(n, j).conf = n.conf
<1>1. \A b \in Nodes : Idle(b, TryFinishReads(b)) /\ TryFinishReads(b).conf = b.conf
  BY DEF TryFinishReads, Idle, Quiet, Nodes
<1>2. Idle(n, FailPending(n))
  BY DEF FailPending, Idle, Quiet, Nodes
<1>3. ASSUME NEW j \in Server PROVE Idle(n, AckReads(n, j)) /\ AckReads(n, j).conf = n.conf
  <2> DEFINE b == [n EXCEPT !.reads = {[r EXCEPT !.acks = @ \cup {j}] : r \in @}]
             t == TryFinishReads(b)
  <2>1. Idle(n, b) /\ b.conf = n.conf
    BY DEF Idle, Quiet, Nodes
  <2>2. Idle(b, t) /\ t.conf = b.conf
    BY DEF TryFinishReads, Idle, Quiet, Nodes
  <2> HIDE DEF b
  <2>3. AckReads(n, j) = t
    BY DEF AckReads, b
  <2> HIDE DEF t
  <2> QED BY <2>1, <2>2, <2>3 DEF Idle, Quiet
<1> QED BY <1>1, <1>2, <1>3

LEMMA AcknowledgedWorks ==
    ASSUME NEW n, Plain(n), Sound(n), NEW i \in Server, NEW term \in Nat,
           NEW m \in AppendReplies, m.from # i, Ends(n, term),
           n.conf.voters = Voters, IsFiniteSet(Voters),
           Acknowledged(n, i, term, m).conf.voters = Voters
    PROVE  Works(n, Acknowledged(n, i, term, m), i, term)
<1> DEFINE j     == m.from
           match == CASE m.match > n.match[j]                             -> m.match
                      [] m.match <= n.match[j] /\ m.hint - 1 > n.match[j] -> m.hint - 1
                      [] OTHER                                            -> n.match[j]
           c == [n EXCEPT !.match[j] = match, !.next[j] = match + 1]
           k == AckReads(c, j)
           a == MaybeCommit(k, i, term)
           b == IF match + 1 <= LastIndex(a.log) THEN SendTo(a, i, term, {j}) ELSE a
           p == MaybePromoteLearner(b, i, term, j)
<1>1. n \in Nodes /\ j \in Server /\ m.match \in Nat /\ m.hint \in Nat /\ n.match[j] \in Nat
  BY DEF AppendReplies, Nodes, Plain
<1>2. match \in Nat
  BY <1>1
<1>13. p = Acknowledged(n, i, term, m)
  BY DEF Acknowledged
<1> HIDE DEF match
<1>3. c \in Nodes
  <2> DEFINE next == match + 1
  <2>1. next \in Nat
    BY <1>2
  <2> HIDE DEF next
  <2>2. [n EXCEPT !.match[j] = match, !.next[j] = next] \in Nodes
    BY <1>1, <1>2, <2>1, ProgressType
  <2> QED BY <2>2 DEF next
<1>4. Idle(n, c) /\ c.conf = n.conf
  BY <1>1 DEF Idle, Quiet, Nodes
<1> HIDE DEF c
<1>5. k \in Nodes /\ Idle(c, k) /\ k.conf = c.conf
  BY <1>1, <1>3, AckReadsType, IdleSteps
<1> HIDE DEF k
<1>6. Idle(n, k) /\ k.conf.voters = Voters
  BY <1>4, <1>5 DEF Idle, Quiet
<1>7. Plain(k) /\ Works(n, k, i, term) /\ Ends(k, term)
  <2>1. Plain(k)
    BY <1>5, <1>6, QuietGrows DEF Grown, Idle
  <2> QED BY <1>1, <1>6, <2>1, IdleWorks DEF Ends, Idle, Quiet
<1>8. Pushed(k, a, i, term) /\ Plain(a) /\ Ends(a, term) /\ Works(k, a, i, term)
  <2>1. Sound(k)
    BY <1>7 DEF Works
  <2> QED BY <1>6, <1>7, <2>1, CommitPushes, MaybeCommitGrows, EndsGrow, CommitWorks DEF Grown
<1> HIDE DEF a
<1>9. Works(n, a, i, term) /\ Sound(a)
  BY <1>1, <1>7, <1>8, WorksTrans DEF Works
<1>10. Pushed(a, b, i, term) /\ Plain(b) /\ Works(a, b, i, term)
  <2>1. Pushed(a, a, i, term) /\ Works(a, a, i, term)
    <3>1. a \in Nodes /\ Still(a, a) /\ Idle(a, a)
      BY <1>8 DEF Plain, Still, Quiet, Idle
    <3> QED BY <1>8, <1>9, <3>1, StillPushes, IdleWorks
  <2>2. Pushed(a, SendTo(a, i, term, {j}), i, term) /\ Works(a, SendTo(a, i, term, {j}), i, term)
    BY <1>1, <1>8, <1>9, SendPushes, SendWorks
  <2> QED BY <2>1, <2>2 DEF Pushed, Grown
<1> HIDE DEF b
<1>11. Works(n, b, i, term) /\ Sound(b)
  BY <1>1, <1>8, <1>9, <1>10, WorksTrans DEF Works
<1>12. Pushed(b, p, i, term) /\ Works(b, p, i, term)
  BY <1>1, <1>10, <1>11, <1>13, PromotePushes, PromoteWorks
<1> HIDE DEF p
<1>14. Works(n, p, i, term)
  BY <1>1, <1>10, <1>11, <1>12, WorksTrans
<1> QED BY <1>13, <1>14

LEMMA BackedUpWorks ==
    ASSUME NEW n, Plain(n), Sound(n), NEW i \in Server, NEW term \in Nat,
           NEW m \in AppendReplies, m.from # i, Ends(n, term)
    PROVE  Works(n, BackedUp(n, i, term, m), i, term)
<1> DEFINE j    == m.from
           last == LastIndexOfTerm(n.log, m.conflictTerm)
           next == CASE m.conflictTerm # 0 /\ last > 0 -> last + 1
                     [] ~(m.conflictTerm # 0 /\ last > 0) /\ m.conflictIndex > 0 -> m.conflictIndex
                     [] OTHER -> MaxOf(NextOf(n, j) - 1, 1)
           k == [n EXCEPT !.next[j] = next]
           b == SendTo(k, i, term, {j})
<1>1. n \in Nodes /\ j \in Server /\ m.conflictIndex \in Nat
  BY DEF AppendReplies, Plain
<1>2. next \in Nat
  BY <1>1, BackedUpNext
<1>3. b = BackedUp(n, i, term, m)
  BY DEF BackedUp
<1> HIDE DEF next
<1>4. k \in Nodes /\ Idle(n, k)
  <2>1. k \in Nodes
    BY <1>1, <1>2, ProgressType
  <2>2. Idle(n, k)
    BY <1>1 DEF Idle, Quiet, Nodes
  <2> QED BY <2>1, <2>2
<1> HIDE DEF k
<1>5. Plain(k) /\ Works(n, k, i, term) /\ Ends(k, term)
  <2>1. Plain(k)
    BY <1>4, QuietGrows DEF Grown, Idle
  <2> QED BY <1>1, <1>4, <2>1, IdleWorks DEF Ends, Idle, Quiet
<1>6. Pushed(k, b, i, term) /\ Works(k, b, i, term)
  <2>1. Sound(k)
    BY <1>5 DEF Works
  <2> QED BY <1>1, <1>5, <2>1, SendPushes, SendWorks
<1> HIDE DEF b
<1>7. Works(n, b, i, term)
  BY <1>1, <1>5, <1>6, WorksTrans
<1> QED BY <1>3, <1>7

-----------------------------------------------------------------------------
(***************************************************************************)
(* The end of a handler.                                                   *)
(***************************************************************************)
LEMMA FinishedNode ==
    ASSUME TypeOK, NEW i \in Server, NEW n \in Nodes, NEW done, NEW replies, NEW calls,
           Finish(i, n, done, replies, calls)
    PROVE  /\ node'[i].log = n.log /\ node'[i].match = n.match /\ node'[i].conf = n.conf
           /\ node'[i].commit = n.commit /\ node'[i].applied = n.applied
           /\ node'[i].sm = n.sm /\ node'[i].snap = n.snap /\ node'[i].acked = n.acked
           /\ \A m \in msgs' : m \in msgs \cup replies \cup calls \cup n.out
<1> DEFINE rest == [n EXCEPT !.out = {}]
<1>1. /\ rest.log = n.log /\ rest.match = n.match /\ rest.conf = n.conf
      /\ rest.commit = n.commit /\ rest.applied = n.applied
      /\ rest.sm = n.sm /\ rest.snap = n.snap /\ rest.acked = n.acked
  BY DEF Nodes
<1>2. node' = [node EXCEPT ![i] = rest]
  BY DEF Finish
<1> HIDE DEF rest
<1>3. node'[i] = rest
  BY <1>2 DEF TypeOK
<1>4. \A m \in msgs' : m \in msgs \cup replies \cup calls \cup n.out
  BY FinishProgress
<1> QED BY <1>1, <1>3, <1>4

LEMMA SoundNodes ==
    ASSUME CommitsChosen, AppliedCommitted, NEW i \in Server
    PROVE  Sound(node[i]) /\ hs[i].commit <= node[i].commit
BY DEF CommitsChosen, AppliedCommitted, Sound

\* No call of log replication, no request for a vote.
NoAppends(M) == \A m \in M : m.type # "AppendEntries"

NoVotes(M) == \A m \in M : m.type # "RequestVote"

LEMMA NoneSent == NoAppends({}) /\ NoVotes({})
BY DEF NoAppends, NoVotes

\* A handler that neither asks for a vote nor gives one.
LEMMA VoteEnd ==
    ASSUME TypeOK, NEW i \in Server, NEW n \in Nodes, NEW done, NEW replies, NEW calls,
           Finish(i, n, done, replies, calls), NoVotes(replies), NoVotes(calls), granted' = granted,
           role'[i] = "candidate" => n.log = node[i].log
    PROVE  VoteStep(i)
<1>1. /\ node'[i].log = n.log
      /\ \A m \in msgs' : m \in msgs \cup replies \cup calls \cup n.out
  BY FinishedNode
<1>2. \A m \in n.out : m.type # "RequestVote"
  BY DEF Nodes, AppendCalls, SnapshotCalls
<1>3. \A m \in msgs' : m.type = "RequestVote" => m \in msgs
  BY <1>1, <1>2 DEF NoVotes
<1> QED BY <1>1, <1>3 DEF VoteStep

LEMMA WorksEnd ==
    ASSUME TypeOK, NEW i \in Server, hs'[i].commit <= node[i].commit,
           NEW n \in Nodes, Works(node[i], n, i, hs'[i].term),
           role'[i] = "leader" \/ n.commit = node[i].commit,
           NEW done, NEW replies, NEW calls, Finish(i, n, done, replies, calls),
           NoAppends(replies), NoAppends(calls), hs'[i].commit \in Nat
    PROVE  CommitStep(i)
<1>1. /\ node'[i].log = n.log /\ node'[i].match = n.match
      /\ node'[i].commit = n.commit /\ node'[i].applied = n.applied
      /\ node'[i].sm = n.sm /\ node'[i].snap = n.snap /\ node'[i].acked = n.acked
      /\ \A m \in msgs' : m \in msgs \cup replies \cup calls \cup n.out
  BY FinishedNode
<1>2. node[i].commit \in Nat /\ n.commit \in Nat /\ node[i].out = {} /\ node[i].applied \in Nat
  BY DEF TypeOK, Nodes
<1>3. Sound(node'[i])
  BY <1>1 DEF Works, Sound
<1>4. node'[i].commit <= node[i].commit \/ (role'[i] = "leader" /\ Decided(node'[i], i, hs'[i].term))
  BY <1>1, <1>2 DEF Works, Decided
<1>5. \A m \in msgs' : m.type = "AppendEntries" => m \in msgs \/ m.commit <= node'[i].commit
  BY <1>1, <1>2 DEF NoAppends, Works
<1>6. hs'[i].commit <= node'[i].commit
  BY <1>1, <1>2 DEF Works
<1>7. node'[i].acked \subseteq
        node[i].acked \cup {node'[i].log.ents[x] : x \in 1..node'[i].applied}
  BY <1>1 DEF Works
<1>8. /\ node'[i].commit >= node[i].commit /\ node'[i].applied >= node[i].applied
      /\ node[i].acked \subseteq node'[i].acked
  BY <1>1, <1>2 DEF Works, Nodes
<1> QED BY <1>3, <1>4, <1>5, <1>6, <1>7, <1>8 DEF CommitStep

-----------------------------------------------------------------------------
(***************************************************************************)
(* What every action but the handling of AppendEntries and the crashes     *)
(* does to votes and to the commit index.                                  *)
(***************************************************************************)

\* All that is known before a step.
Ready ==
    /\ IsFiniteSet(Voters) /\ FixedVoters /\ Uncompacted
    /\ TypeOK /\ LogInv /\ MatchInv /\ CommitInv

LEMMA ReadyNode ==
    ASSUME Ready, NEW i \in Server
    PROVE  /\ Plain(node[i]) /\ Sound(node[i]) /\ node[i] \in Nodes /\ node[i].out = {}
           /\ hs[i].term \in Nat /\ hs[i].commit \in Nat /\ hs[i].commit <= node[i].commit
           /\ node[i].commit \in Nat /\ node[i].conf.voters = Voters
           /\ role[i] = "leader" => Ends(node[i], hs[i].term)
           /\ Works(node[i], node[i], i, hs[i].term)
<1>1. Plain(node[i]) /\ node[i] \in Nodes /\ node[i].out = {} /\ hs[i].term \in Nat
  BY PlainNode DEF Ready
<1>2. Sound(node[i]) /\ hs[i].commit <= node[i].commit
  BY SoundNodes DEF Ready, CommitInv
<1>3. hs[i].commit \in Nat /\ node[i].commit \in Nat
  BY <1>1 DEF Ready, TypeOK, Nodes
<1>4. role[i] = "leader" => Ends(node[i], hs[i].term)
  BY LeaderEnds DEF Ready, MatchInv
<1>5. Works(node[i], node[i], i, hs[i].term)
  <2>1. Idle(node[i], node[i])
    BY DEF Idle, Quiet
  <2> QED BY <1>1, <1>2, <2>1, IdleWorks
<1> QED BY <1>1, <1>2, <1>3, <1>4, <1>5 DEF Ready, FixedVoters

\* Whatever a handler persists has the commit index it began with, or an older one.
LEMMA HardCommits ==
    ASSUME Ready, NEW i \in Server, NEW h, hs' = [hs EXCEPT ![i] = h] \/ (UNCHANGED hs /\ h = hs[i]),
           h = hs[i] \/ \E t, v : h = Persisted(i, t, v) \/ h = SteppedDown(i, t)
    PROVE  hs'[i].commit <= node[i].commit /\ hs'[i].commit \in Nat
<1>1. hs[i].commit \in Nat /\ hs[i].commit <= node[i].commit /\ node[i].commit \in Nat
  BY ReadyNode
<1>2. h.commit = hs[i].commit \/ h.commit = node[i].commit
  BY DEF SteppedDown, Persisted
<1>3. hs'[i].commit = h.commit
  BY DEF Ready, TypeOK
<1> QED BY <1>1, <1>2, <1>3

LEMMA TickCommits ==
    ASSUME Ready, Uncompacted', NEW i \in Server, Heartbeat(i) \/ IdleTick(i)
    PROVE  VoteStep(i) /\ CommitStep(i)
<1> DEFINE term == hs[i].term
           none == {}
<1>1. /\ TypeOK /\ Plain(node[i]) /\ Sound(node[i]) /\ node[i] \in Nodes /\ term \in Nat
      /\ UNCHANGED <<hs, role, granted>> /\ hs'[i].commit <= node[i].commit /\ hs'[i].commit \in Nat
      /\ NoAppends(none) /\ NoVotes(none)
  BY ReadyNode, NoneSent DEF Heartbeat, IdleTick, Ready
<1>2. CASE Heartbeat(i)
  <2> DEFINE n == Bcast(node[i], i, term)
             b == Housekeeping(n)
  <2>1. role[i] = "leader" /\ Finish(i, b, none, none, none)
    BY <1>2 DEF Heartbeat
  <2>2. Pushed(node[i], n, i, term) /\ Plain(n) /\ Works(node[i], n, i, term) /\ Sound(n)
    <3>1. Pushed(node[i], n, i, term)
      BY <1>1, <2>1, ReadyNode, BcastPushes
    <3>2. Works(node[i], n, i, term)
      BY <1>1, BcastWorks
    <3> HIDE DEF n
    <3> QED BY <3>1, <3>2 DEF Pushed, Grown, Works
  <2> HIDE DEF n
  <2>3. b.snap.index = 0
    BY <1>1, <2>1, <2>2, NoSnapshotTaken
  <2>4. Pushed(n, b, i, term) /\ Works(n, b, i, term) /\ b \in Nodes
    BY <1>1, <2>2, <2>3, HousekeepingPushes, HousekeepingWorks, HousekeepingQuiet
  <2> HIDE DEF b, none
  <2>5. Works(node[i], b, i, term)
    BY <1>1, <2>2, <2>4, WorksTrans
  <2>6. role'[i] # "candidate"
    BY <1>1, <2>1
  <2> QED BY <1>1, <2>1, <2>4, <2>5, <2>6, WorksEnd, VoteEnd
<1>3. CASE IdleTick(i)
  <2> DEFINE b == Housekeeping(node[i])
  <2>1. Finish(i, b, none, none, none)
    BY <1>3 DEF IdleTick
  <2>2. b.snap.index = 0
    BY <1>1, <2>1, NoSnapshotTaken
  <2>3. Works(node[i], b, i, term) /\ b.commit = node[i].commit /\ b \in Nodes
        /\ Quiet(node[i], b)
    BY <1>1, <2>2, HousekeepingWorks, HousekeepingQuiet
  <2> HIDE DEF b, none
  <2>4. b.log = node[i].log
    BY <2>3 DEF Quiet
  <2> QED BY <1>1, <2>1, <2>3, <2>4, WorksEnd, VoteEnd
<1> QED BY <1>2, <1>3

\* A handler of a leader that leaves hs and role alone.
LEMMA LeaderWorks ==
    ASSUME Ready, NEW i \in Server, role[i] = "leader", UNCHANGED <<hs, role, granted>>,
           NEW n \in Nodes, Works(node[i], n, i, hs[i].term),
           NEW done, Finish(i, n, done, {}, {})
    PROVE  VoteStep(i) /\ CommitStep(i)
<1> DEFINE none == {}
<1>1. /\ TypeOK /\ hs'[i].commit <= node[i].commit /\ hs'[i].commit \in Nat
      /\ NoAppends(none) /\ NoVotes(none)
      /\ role'[i] = "leader" /\ hs'[i].term = hs[i].term /\ Finish(i, n, done, none, none)
  BY ReadyNode, NoneSent DEF Ready
<1> HIDE DEF none
<1> QED BY <1>1, WorksEnd, VoteEnd

LEMMA ProposeCommits ==
    ASSUME Ready, NEW i \in Server, NEW v \in Value, Propose(i, v)
    PROVE  VoteStep(i) /\ CommitStep(i)
<1> DEFINE term == hs[i].term
           a == AppendData(node[i], i, term, "normal", v)
           w == [a EXCEPT !.waiting = @ \cup {LastIndex(a.log)}]
           c == MaybeCommit(w, i, term)
           b == Bcast(c, i, term)
           none == {}
<1>1. /\ IsFiniteSet(Voters) /\ Plain(node[i]) /\ Sound(node[i]) /\ node[i] \in Nodes /\ term \in Nat
      /\ node[i].conf.voters = Voters
  BY ReadyNode DEF Ready
<1>2. role[i] = "leader" /\ UNCHANGED <<hs, role, granted>> /\ Finish(i, b, none, none, none)
  BY DEF Propose
<1>3. Works(node[i], a, i, term) /\ Ends(a, term) /\ Plain(a) /\ a.conf = node[i].conf
  <2>1. <<"normal", v>> \in Payloads
    BY DEF Payloads
  <2>2. a.conf = IF "normal" = "config" THEN v ELSE node[i].conf
    BY <1>1, <2>1, AppendWorks
  <2>3. Works(node[i], a, i, term) /\ Pushed(node[i], a, i, term) /\ Ends(a, term)
    BY <1>1, <2>1, AppendWorks, AppendPushes
  <2> HIDE DEF a
  <2> QED BY <2>2, <2>3 DEF Pushed, Grown
<1> HIDE DEF a
<1>4. w \in Nodes /\ Still(a, w) /\ Idle(a, w) /\ w.conf = a.conf
  <2>1. a \in Nodes
    BY <1>3 DEF Plain
  <2>2. LastIndex(a.log) \in Nat
    BY <2>1, LogReads DEF Nodes
  <2> QED BY <2>1, <2>2 DEF Nodes, Quiet, Still, Idle
<1> HIDE DEF w
<1>5. Pushed(a, w, i, term) /\ Plain(w) /\ Ends(w, term)
  BY <1>3, <1>4, StillPushes, EndsGrow DEF Pushed, Grown
<1>6. Works(a, w, i, term) /\ Sound(w)
  <2>1. a \in Nodes /\ Sound(a)
    BY <1>3 DEF Plain, Works
  <2> QED BY <1>4, <2>1, IdleWorks DEF Works
<1>7. Works(node[i], w, i, term)
  BY <1>1, <1>3, <1>5, <1>6, WorksTrans
<1>8. Pushed(w, c, i, term) /\ Plain(c) /\ Ends(c, term) /\ Works(w, c, i, term)
  BY <1>1, <1>3, <1>4, <1>5, <1>6, CommitPushes, EndsGrow, CommitWorks DEF Pushed, Grown
<1> HIDE DEF c
<1>9. Works(node[i], c, i, term) /\ Sound(c)
  BY <1>1, <1>5, <1>7, <1>8, WorksTrans DEF Works
<1>10. Pushed(c, b, i, term) /\ Works(c, b, i, term) /\ b \in Nodes
  BY <1>1, <1>8, <1>9, BcastPushes, BcastWorks DEF Pushed, Grown, Plain
<1> HIDE DEF b
<1>11. Works(node[i], b, i, term)
  BY <1>1, <1>8, <1>9, <1>10, WorksTrans
<1> QED BY <1>2, <1>10, <1>11, LeaderWorks

LEMMA LinearizableReadCommits ==
    ASSUME Ready, NEW i \in Server, LinearizableRead(i)
    PROVE  VoteStep(i) /\ CommitStep(i)
<1> DEFINE n == node[i]
           term == hs[i].term
           r == Read(i, n.commit, term, Promised)
           a == [n EXCEPT !.reads = @ \cup {r}]
           c == Bcast(a, i, term)
           b == TryFinishReads(c)
           none == {}
<1>1. Plain(n) /\ Sound(n) /\ term \in Nat /\ n \in Nodes /\ (role[i] = "leader" => Ends(n, term))
  BY ReadyNode
<1>2. role[i] = "leader" /\ UNCHANGED <<hs, role, granted>> /\ Finish(i, b, none, none, none)
  BY DEF LinearizableRead
<1>3. r \in Reads
  <2>1. Promised \subseteq Entries
    BY DEF Promised, Ready, TypeOK, Nodes
  <2>2. n.commit \in Nat
    BY <1>1 DEF Nodes
  <2> QED BY <1>1, <2>1, <2>2 DEF Read, Reads
<1> HIDE DEF r
<1>4. a \in Nodes /\ Still(n, a) /\ Idle(n, a)
  BY <1>1, <1>3 DEF Nodes, Quiet, Still, Idle
<1> HIDE DEF a
<1>5. Plain(a) /\ Ends(a, term) /\ Works(n, a, i, term) /\ Sound(a)
  <2>1. Pushed(n, a, i, term) /\ Plain(a) /\ Ends(a, term)
    BY <1>1, <1>2, <1>4, StillPushes, EndsGrow DEF Pushed, Grown
  <2>2. Works(n, a, i, term)
    BY <1>1, <1>4, IdleWorks
  <2> QED BY <2>1, <2>2 DEF Works
<1>6. Pushed(a, c, i, term) /\ Plain(c) /\ c \in Nodes /\ Works(a, c, i, term)
  BY <1>1, <1>5, BcastPushes, BcastWorks DEF Pushed, Grown, Plain
<1> HIDE DEF c
<1>7. Works(n, c, i, term) /\ Sound(c)
  BY <1>1, <1>5, <1>6, WorksTrans DEF Works
<1>8. Pushed(c, b, i, term) /\ Works(c, b, i, term) /\ b \in Nodes
  <2>1. Still(c, b) /\ b \in Nodes /\ Idle(c, b)
    BY <1>1, <1>6, StillSteps, TryFinishReadsType, IdleSteps
  <2> QED BY <1>6, <1>7, <2>1, StillPushes, IdleWorks
<1> HIDE DEF b
<1>9. Works(n, b, i, term)
  BY <1>1, <1>6, <1>7, <1>8, WorksTrans
<1> HIDE DEF none
<1> QED BY <1>2, <1>8, <1>9, LeaderWorks DEF none

LEMMA ChangeMembershipCommits ==
    ASSUME Ready, FixedVoters', NEW i \in Server, NEW c \in Changes, ChangeMembership(i, c)
    PROVE  VoteStep(i) /\ CommitStep(i)
<1> DEFINE next == Changed(node[i].conf, c)
           term == hs[i].term
           b    == Accept(node[i], i, term, "config", next)
           none == {}
<1>1. /\ IsFiniteSet(Voters) /\ TypeOK /\ Plain(node[i]) /\ Sound(node[i]) /\ term \in Nat
      /\ node[i] \in Nodes
  BY ReadyNode DEF Ready
<1>2. role[i] = "leader" /\ UNCHANGED <<hs, role, granted>> /\ Finish(i, b, none, none, none)
  BY DEF ChangeMembership
<1>3. <<"config", next>> \in Payloads
  <2>1. node[i].conf \in Membership
    BY <1>1 DEF Nodes
  <2>2. c.add \in Server \cup {None}
    BY BoundsAssumption
  <2>3. next \in Membership
    BY <2>1, <2>2 DEF Changed, Membership
  <2> QED BY <2>3 DEF Payloads
<1>4. b \in Nodes
  BY <1>1, <1>3, AcceptPushes DEF Pushed, Grown, Plain
<1>5. b.conf.voters = Voters
  <2> HIDE DEF b
  <2>1. node'[i].conf = b.conf
    BY <1>1, <1>2, <1>4, FinishedNode
  <2> QED BY <2>1 DEF FixedVoters
<1>6. Works(node[i], b, i, term)
  BY <1>1, <1>3, <1>5, AcceptWorks
<1> HIDE DEF b
<1> QED BY <1>2, <1>4, <1>6, LeaderWorks

LEMMA StepDownCommits ==
    ASSUME Ready, NEW i \in Server, NEW term \in Nat, NEW done,
           BecomeFollower(i, term), granted' = granted,
           Finish(i, FailPending(node[i]), done, {}, {})
    PROVE  VoteStep(i) /\ CommitStep(i)
<1> DEFINE n == FailPending(node[i])
           none == {}
<1>1. TypeOK /\ Sound(node[i]) /\ node[i] \in Nodes /\ NoAppends(none) /\ NoVotes(none)
  BY ReadyNode, NoneSent DEF Ready
<1>2. hs'[i].commit <= node[i].commit /\ hs'[i].commit \in Nat
  BY HardCommits DEF BecomeFollower
<1>3. Works(node[i], n, i, hs'[i].term) /\ n \in Nodes /\ n.commit = node[i].commit
      /\ n.log = node[i].log
  <2>1. Idle(node[i], n) /\ n \in Nodes
    BY <1>1, IdleSteps, FailPendingType
  <2> HIDE DEF n
  <2> QED BY <1>1, <2>1, IdleWorks DEF Idle, Quiet
<1>4. Finish(i, n, done, none, none)
  OBVIOUS
<1> HIDE DEF n, none
<1> QED BY <1>1, <1>2, <1>3, <1>4, WorksEnd, VoteEnd

LEMMA CampaignCommits ==
    ASSUME Ready, Uncompacted', NEW i \in Server, Campaign(i)
    PROVE  VoteStep(i) /\ CommitStep(i)
<1> DEFINE term == hs[i].term + 1
           wins == 1 >= Quorum(node[i].conf)
           e    == Elected(node[i], i, term)
           n    == IF wins THEN e ELSE node[i]
           b    == Housekeeping(n)
           calls == IF wins THEN {} ELSE VoteCalls(i, term)
           none == {}
<1>1. /\ IsFiniteSet(Voters) /\ TypeOK /\ Plain(node[i]) /\ Sound(node[i]) /\ node[i] \in Nodes
      /\ term \in Nat /\ node[i].conf.voters = Voters /\ NoAppends(none)
  BY ReadyNode, NoneSent DEF Ready
<1>2. /\ hs' = [hs EXCEPT ![i] = Persisted(i, term, i)]
      /\ role' = [role EXCEPT ![i] = IF wins THEN "leader" ELSE "candidate"]
      /\ Finish(i, b, none, none, calls)
  BY DEF Campaign
<1>3. hs'[i].term = term /\ (wins => role'[i] = "leader")
  <2> HIDE DEF wins
  <2> QED BY <1>1, <1>2 DEF Persisted, TypeOK
<1>4. hs'[i].commit <= node[i].commit /\ hs'[i].commit \in Nat
  BY <1>2, HardCommits
<1>5. NoAppends(calls)
  BY DEF VoteCalls, NoAppends
<1>6. Plain(e) /\ Works(node[i], e, i, term) /\ Sound(e)
  <2>1. Plain(e)
    BY <1>1, ElectedPushes DEF Pushed, Grown
  <2>2. Works(node[i], e, i, term)
    BY <1>1, ElectedWorks
  <2> HIDE DEF e
  <2> QED BY <2>1, <2>2 DEF Works
<1>7. Idle(node[i], node[i])
  BY DEF Idle, Quiet
<1> HIDE DEF term, wins, e, calls
<1>8. Plain(n) /\ Works(node[i], n, i, term) /\ Sound(n) /\ (~wins => n = node[i])
  BY <1>1, <1>6, <1>7, IdleWorks
<1> HIDE DEF n
<1>9. b.snap.index = 0
  BY <1>1, <1>2, <1>8, NoSnapshotTaken
<1>10. Pushed(n, b, i, term) /\ Works(n, b, i, term) /\ b \in Nodes /\ b.commit = n.commit
  BY <1>1, <1>8, <1>9, HousekeepingPushes, HousekeepingWorks, HousekeepingQuiet
<1> HIDE DEF b, none
<1>11. Works(node[i], b, i, hs'[i].term)
  BY <1>1, <1>3, <1>8, <1>10, WorksTrans
<1>12. role'[i] = "leader" \/ b.commit = node[i].commit
  BY <1>3, <1>8, <1>10
<1>13. CommitStep(i)
  BY <1>1, <1>2, <1>4, <1>5, <1>10, <1>11, <1>12, WorksEnd
<1>14. /\ node'[i].log = b.log
       /\ \A x \in msgs' : x \in msgs \cup none \cup calls \cup b.out
  BY <1>1, <1>2, <1>10, FinishedNode
<1>15. \A x \in b.out : x.type # "RequestVote"
  BY <1>10 DEF Nodes, AppendCalls, SnapshotCalls
<1>16. ~wins => node'[i].log = node[i].log
  <2>1. b.log = n.log
    BY <1>8, <1>9, HousekeepingQuiet DEF b, Quiet
  <2> QED BY <1>8, <1>14, <2>1
<1>17. \A x \in msgs' : x.type = "RequestVote" =>
          \/ x \in msgs
          \/ /\ x.from = i /\ x.term = hs'[i].term
             /\ x.lastIndex = LastIndex(node'[i].log) /\ x.lastTerm = LastTerm(node'[i].log)
  <2>1. ASSUME NEW x \in calls
        PROVE  /\ x.from = i /\ x.term = term /\ ~wins
               /\ x.lastIndex = LastIndex(node[i].log) /\ x.lastTerm = LastTerm(node[i].log)
    BY <2>1 DEF calls, VoteCalls
  <2> QED BY <1>3, <1>14, <1>15, <1>16, <2>1 DEF none
<1>18. granted' = granted \cup {[voter |-> i, term |-> hs'[i].term, candidate |-> i]}
  BY <1>3 DEF Campaign, term
<1>19. role'[i] = "candidate" => ~wins
  BY <1>3
<1>20. VoteStep(i)
  BY <1>16, <1>17, <1>18, <1>19 DEF VoteStep
<1> QED BY <1>13, <1>20

LEMMA HandleRequestVoteCommits ==
    ASSUME Ready, NEW m \in msgs, HandleRequestVote(m)
    PROVE  VoteStep(m.to) /\ CommitStep(m.to)
<1> DEFINE i     == m.to
           newer == m.term > hs[i].term
           known == SteppedDown(i, m.term)
           grant == /\ m.term >= hs[i].term
                    /\ known.votedFor \in {None, m.from}
                    /\ UpToDate(node[i].log, m.lastIndex, m.lastTerm)
           h     == IF grant THEN Persisted(i, m.term, m.from) ELSE known
           n     == IF newer THEN FailPending(node[i]) ELSE node[i]
           replies == {VoteReply(m, known.term, grant)}
           none  == {}
<1>1. hs' = [hs EXCEPT ![i] = h] /\ Finish(i, n, Delivered(m), replies, none)
  BY DEF HandleRequestVote
<1>2. TypeOK /\ i \in Server
  BY MessageFields DEF TypeOK, Ready
<1>3. Sound(node[i]) /\ node[i] \in Nodes /\ NoAppends(none) /\ NoAppends(replies)
  BY <1>2, ReadyNode, NoneSent DEF NoAppends, VoteReply
<1>4. Idle(node[i], n) /\ n \in Nodes
  <2>1. Idle(node[i], FailPending(node[i])) /\ FailPending(node[i]) \in Nodes
    BY <1>2, <1>3, IdleSteps, FailPendingType
  <2> QED BY <1>3, <2>1 DEF Idle, Quiet
<1>5. hs'[i].commit <= node[i].commit /\ hs'[i].commit \in Nat
  <2> HIDE DEF grant
  <2> QED BY <1>1, <1>2, HardCommits
<1> HIDE DEF n, replies, none, h, i
<1>6. Works(node[i], n, i, hs'[i].term) /\ n.commit = node[i].commit
  BY <1>3, <1>4, IdleWorks DEF Idle
<1>7. CommitStep(i)
  BY <1>1, <1>2, <1>3, <1>4, <1>5, <1>6, WorksEnd
<1>8. /\ node'[i].log = node[i].log
      /\ \A x \in msgs' : x.type = "RequestVote" => x \in msgs
  <2>1. /\ node'[i].log = n.log
        /\ \A x \in msgs' : x \in msgs \cup replies \cup none \cup n.out
    BY <1>1, <1>2, <1>4, FinishedNode
  <2>2. n.log = node[i].log /\ n.out = {}
    BY <1>2, <1>4, ReadyNode DEF Idle, Quiet
  <2>3. \A x \in replies \cup none : x.type # "RequestVote"
    BY DEF replies, none, VoteReply
  <2> QED BY <2>1, <2>2, <2>3
<1>9. ASSUME grant
      PROVE  /\ UpToDate(node[i].log, m.lastIndex, m.lastTerm) /\ hs'[i].term = m.term
             /\ granted' = granted \cup {[voter |-> i, term |-> m.term, candidate |-> m.from]}
  <2>1. h.term = m.term
    BY <1>9 DEF h, Persisted
  <2>2. granted' = granted \cup {[voter |-> i, term |-> m.term, candidate |-> m.from]}
    BY <1>9 DEF HandleRequestVote, i
  <2>3. hs'[i].term = m.term
    BY <1>1, <1>2, <2>1 DEF TypeOK
  <2> QED BY <1>9, <2>2, <2>3
<1>10. ~grant => granted' = granted
  BY DEF HandleRequestVote, i
<1>11. m.type = "RequestVote" /\ m.to = i
  BY DEF HandleRequestVote, i
<1> HIDE DEF grant
<1>12. \A g \in granted' :
          \/ g \in granted
          \/ /\ g.voter = i /\ g.term = hs'[i].term
             /\ \E x \in msgs : /\ x.type = "RequestVote" /\ x.to = i /\ x.from = g.candidate
                               /\ x.term = g.term
                               /\ UpToDate(node[i].log, x.lastIndex, x.lastTerm)
  BY <1>9, <1>10, <1>11
<1>13. VoteStep(i)
  BY <1>8, <1>12 DEF VoteStep
<1> QED BY <1>7, <1>13 DEF i

LEMMA OnVoteReplyCommits ==
    ASSUME Ready, NEW m \in msgs, OnVoteReply(m)
    PROVE  VoteStep(m.to) /\ CommitStep(m.to)
<1> DEFINE i       == m.to
           counted == votes[i] \cup {m.from}
           wins    == Cardinality(counted) >= Quorum(node[i].conf)
           n       == IF wins THEN Elected(node[i], i, hs[i].term) ELSE node[i]
           none    == {}
<1>1. TypeOK /\ i \in Server /\ m.term \in Nat /\ granted' = granted
  BY MessageFields DEF TypeOK, Ready, OnVoteReply
<1>2. CASE /\ BecomeFollower(i, m.term)
           /\ Finish(i, FailPending(node[i]), {m}, {}, {})
  BY <1>1, <1>2, StepDownCommits
<1>3. CASE /\ UNCHANGED hs
           /\ role'  = [role EXCEPT ![i] = IF wins THEN "leader" ELSE @]
           /\ Finish(i, n, {m}, none, none)
  <2>1. /\ IsFiniteSet(Voters) /\ Plain(node[i]) /\ Sound(node[i]) /\ node[i] \in Nodes
        /\ hs[i].term \in Nat /\ node[i].conf.voters = Voters /\ NoAppends(none) /\ NoVotes(none)
        /\ Works(node[i], node[i], i, hs[i].term)
    BY <1>1, ReadyNode, NoneSent DEF Ready
  <2>2. hs'[i].commit <= node[i].commit /\ hs'[i].commit \in Nat /\ hs'[i].term = hs[i].term
    BY <1>1, <1>3, ReadyNode
  <2>3. Works(node[i], n, i, hs[i].term) /\ n \in Nodes
    <3> DEFINE e == Elected(node[i], i, hs[i].term)
    <3>1. e \in Nodes
      BY <1>1, <2>1, ElectedPushes DEF Pushed, Grown, Plain
    <3>2. Works(node[i], e, i, hs[i].term)
      BY <1>1, <2>1, ElectedWorks
    <3> HIDE DEF e, wins
    <3>3. n = e \/ n = node[i]
      BY DEF e
    <3> QED BY <2>1, <3>1, <3>2, <3>3
  <2>4. (~wins => n = node[i]) /\ (wins => role'[i] = "leader")
    <3> HIDE DEF wins
    <3> QED BY <1>1, <1>3 DEF TypeOK
  <2> HIDE DEF n, none, wins
  <2>5. role'[i] = "candidate" => n.log = node[i].log
    BY <2>4
  <2> QED BY <1>1, <1>3, <2>1, <2>2, <2>3, <2>4, <2>5, WorksEnd, VoteEnd
<1> QED BY <1>2, <1>3 DEF OnVoteReply

LEMMA OnAppendReplyCommits ==
    ASSUME Ready, FixedVoters', NEW m \in msgs, OnAppendReply(m)
    PROVE  VoteStep(m.to) /\ CommitStep(m.to)
<1> DEFINE i    == m.to
           j    == m.from
           term == hs[i].term
           n    == IF m.success THEN Acknowledged(node[i], i, term, m)
                   ELSE BackedUp(node[i], i, term, m)
           none == {}
<1>1. /\ TypeOK /\ IsFiniteSet(Voters) /\ i \in Server /\ j \in Server /\ m.term \in Nat
      /\ m \in AppendReplies /\ granted' = granted
  BY MessageFields DEF TypeOK, OnAppendReply, Ready
<1>2. CASE BecomeFollower(i, m.term) /\ Finish(i, FailPending(node[i]), {m}, {}, {})
  BY <1>1, <1>2, StepDownCommits
<1>3. CASE m.term <= term /\ UNCHANGED <<hs, role, votes>> /\ Finish(i, n, {m}, none, none)
  <2>1. role[i] = "leader" /\ j # i
    BY DEF OnAppendReply, Ready, LogInv, NoTransfers, MatchInv, RepliesCurrent
  <2>2. /\ Plain(node[i]) /\ Sound(node[i]) /\ node[i] \in Nodes
        /\ term \in Nat /\ node[i].conf.voters = Voters /\ Ends(node[i], term)
    BY <1>1, <2>1, ReadyNode
  <2>3. n \in Nodes
    <3>1. m.success => n \in Nodes
      <4>1. ASSUME m.success PROVE \E k : Pushed(k, n, i, term)
        BY <1>1, <2>1, <2>2, <4>1, AcknowledgedPushes
      <4> QED BY <4>1 DEF Pushed, Grown, Plain
    <3>2. ~m.success => n \in Nodes
      <4>1. ASSUME ~m.success PROVE \E k : Pushed(k, n, i, term)
        BY <1>1, <2>1, <2>2, <4>1, BackedUpPushes
      <4> QED BY <4>1 DEF Pushed, Grown, Plain
    <3> QED BY <3>1, <3>2
  <2>4. n.conf.voters = Voters
    <3> HIDE DEF n, none
    <3>1. node'[i].conf = n.conf
      BY <1>1, <1>3, <2>3, FinishedNode
    <3> QED BY <1>1, <3>1 DEF FixedVoters
  <2>5. Works(node[i], n, i, term)
    <3>1. CASE m.success
      <4>1. n = Acknowledged(node[i], i, term, m)
        BY <3>1
      <4> HIDE DEF n
      <4> QED BY <1>1, <2>1, <2>2, <2>4, <4>1, AcknowledgedWorks
    <3>2. CASE ~m.success
      <4>1. n = BackedUp(node[i], i, term, m)
        BY <3>2
      <4> HIDE DEF n
      <4> QED BY <1>1, <2>1, <2>2, <4>1, BackedUpWorks
    <3> QED BY <3>1, <3>2
  <2> HIDE DEF n
  <2> QED BY <1>1, <1>3, <2>1, <2>3, <2>5, LeaderWorks
<1> QED BY <1>2, <1>3 DEF OnAppendReply

-----------------------------------------------------------------------------
(***************************************************************************)
(* What the handling of AppendEntries and the crashes do to it.  That the  *)
(* commit index stays within the log is CommitStays.                       *)
(***************************************************************************)

\* handleAppendEntries follows the leader's commit index as far as the log goes.
LEMMA FollowWorks ==
    ASSUME NEW t, Plain(t), Sound(t), NEW c \in Nat, NEW i \in Server
    PROVE  LET b == FollowCommit(t, c)
           IN  /\ Sound(b) /\ b \in Nodes /\ b.log = t.log /\ b.out = t.out
               /\ t.commit <= b.commit /\ t.applied <= b.applied
               /\ b.commit = t.commit \/ b.commit <= c
               /\ t.acked \subseteq b.acked
               /\ b.acked \subseteq t.acked \cup {b.log.ents[x] : x \in 1..b.applied}
<1> DEFINE x == MinOf(c, LastIndex(t.log))
           d == [t EXCEPT !.commit = x]
           b == MaybeApply(d)
<1>1. /\ t \in Nodes /\ t.log \in Logs /\ Aligned(t.log) /\ Len(t.log.ents) \in Nat
      /\ LastIndex(t.log) = Len(t.log.ents) /\ t.commit \in Nat /\ t.applied \in Nat
      /\ t.commit <= Len(t.log.ents) /\ t.applied <= t.commit
  BY PlainLog, AlignedReads DEF Sound, Nodes
<1>2. CASE c <= t.commit
  <2>1. FollowCommit(t, c) = t
    BY <1>1, <1>2 DEF FollowCommit
  <2> QED BY <1>1, <2>1
<1>3. CASE c > t.commit
  <2>1. x \in Nat /\ x <= Len(t.log.ents) /\ x <= c /\ t.commit <= x
    BY <1>1, <1>3 DEF MinOf
  <2>2. FollowCommit(t, c) = b
    BY <1>3 DEF FollowCommit
  <2> HIDE DEF x
  <2>3. d \in Nodes
    BY <1>1, <2>1 DEF Nodes
  <2>4. Still(t, d) /\ d.commit = x /\ d.applied = t.applied /\ d.sm = t.sm /\ d.acked = t.acked
    BY <1>1 DEF Nodes, Still, Quiet
  <2> HIDE DEF d
  <2>5. Plain(d)
    BY <2>3, <2>4, QuietGrows DEF Still, Grown
  <2>6. Sound(d)
    BY <1>1, <2>1, <2>4 DEF Sound, Still, Quiet
  <2>7. Works(d, b, i, 0) /\ Still(d, b) /\ b.commit = d.commit /\ b \in Nodes
    BY <2>3, <2>5, <2>6, ApplyWorks, MaybeApplyType
  <2> HIDE DEF b
  <2>8. /\ Sound(b) /\ b.log = t.log /\ b.out = t.out /\ b.commit = x /\ t.applied <= b.applied
        /\ t.acked \subseteq b.acked
        /\ b.acked \subseteq t.acked \cup {b.log.ents[y] : y \in 1..b.applied}
    BY <2>4, <2>7 DEF Works, Still, Quiet
  <2> QED BY <2>1, <2>2, <2>7, <2>8
<1> QED BY <1>1, <1>2, <1>3

LEMMA TakeEntriesIdle ==
    ASSUME NEW n \in Nodes, NEW es
    PROVE  LET t == TakeEntries(n, es)
           IN  /\ t.commit = n.commit /\ t.applied = n.applied /\ t.sm = n.sm /\ t.acked = n.acked
               /\ t.snap = n.snap
BY DEF TakeEntries, ApplyConfig, Nodes

LEMMA HandleAppendEntriesCommits ==
    ASSUME Ready, NEW m \in msgs, Stepping(m.to), HandleAppendEntries(m)
    PROVE  CommitStep(m.to)
<1> DEFINE i == m.to
           stepsDown == m.term > hs[i].term \/ role[i] # "follower"
           n     == IF stepsDown THEN FailPending(node[i]) ELSE node[i]
           t     == TakeEntries(n, m.ents)
           taken == FollowCommit(t, m.commit)
           late     == {AppendReply(m, hs[i].term, FALSE, 0, 0, 0)}
           refused  == {Rejection(n.log, m, m.term)}
           accepted == {AppendReply(m, m.term, TRUE, LastIndex(taken.log), 0, 0)}
           none     == {}
<1>1. /\ m \in AppendsUnderWay /\ m \in AppendCalls /\ m.type = "AppendEntries"
      /\ i \in Server /\ m.term \in Nat /\ m.ents \in Seq(Entries) /\ m.commit \in Nat
  <2>1. m \in AppendsUnderWay
    BY DEF HandleAppendEntries, AppendsUnderWay
  <2> QED BY <2>1, CallTypes DEF Ready, AppendCalls
<1>2. /\ TypeOK /\ Plain(node[i]) /\ Sound(node[i]) /\ node[i].out = {} /\ node[i] \in Nodes
      /\ hs[i].term \in Nat /\ node[i].commit \in Nat
      /\ Works(node[i], node[i], i, hs'[i].term)
  <2>1. Idle(node[i], node[i])
    BY DEF Idle, Quiet
  <2> QED BY <1>1, <2>1, ReadyNode, IdleWorks DEF Ready
<1>3. Idle(node[i], n) /\ n \in Nodes
  <2>1. Idle(node[i], FailPending(node[i])) /\ FailPending(node[i]) \in Nodes
    BY <1>1, <1>2, IdleSteps, FailPendingType
  <2> QED BY <1>2, <2>1 DEF Idle, Quiet
<1>4. NoAppends(late) /\ NoAppends(refused) /\ NoAppends(accepted) /\ NoAppends(none)
  BY DEF NoAppends, AppendReply, Rejection
<1>5. \/ /\ m.term < hs[i].term /\ UNCHANGED <<hs, role, votes>>
         /\ Finish(i, node[i], Delivered(m), late, none)
      \/ /\ m.term >= hs[i].term
         /\ IF stepsDown THEN BecomeFollower(i, m.term) ELSE UNCHANGED <<hs, role, votes>>
         /\ IF Conflicts(n.log, m) THEN Finish(i, n, Delivered(m), refused, none)
                                   ELSE Finish(i, taken, Delivered(m), accepted, none)
  BY DEF HandleAppendEntries
<1>6. hs'[i].commit <= node[i].commit /\ hs'[i].commit \in Nat
  <2>1. UNCHANGED hs \/ hs' = [hs EXCEPT ![i] = SteppedDown(i, m.term)]
    BY <1>5 DEF BecomeFollower
  <2>2. CASE UNCHANGED hs
    BY <1>1, <2>2, HardCommits
  <2>3. CASE hs' = [hs EXCEPT ![i] = SteppedDown(i, m.term)]
    <3> DEFINE h == SteppedDown(i, m.term)
    <3>1. hs' = [hs EXCEPT ![i] = h] /\ \E x, v : h = Persisted(i, x, v) \/ h = SteppedDown(i, x)
      BY <2>3
    <3> HIDE DEF h
    <3> QED BY <1>1, <3>1, HardCommits
  <2> QED BY <2>1, <2>2, <2>3
<1>7. n.log = node[i].log /\ n.out = {} /\ Plain(n)
  BY <1>2, <1>3 DEF Idle, Quiet, Plain
<1>8. CASE Finish(i, node[i], Delivered(m), late, none)
  <2> HIDE DEF late, none
  <2> QED BY <1>1, <1>2, <1>4, <1>6, <1>8, WorksEnd
<1>9. CASE Finish(i, n, Delivered(m), refused, none)
  <2> HIDE DEF n, refused, none
  <2>1. Works(node[i], n, i, hs'[i].term) /\ n.commit = node[i].commit
    BY <1>2, <1>3, IdleWorks DEF Idle
  <2> QED BY <1>1, <1>2, <1>3, <1>4, <1>6, <1>9, <2>1, WorksEnd
<1>10. CASE /\ m.term >= hs[i].term
            /\ IF stepsDown THEN BecomeFollower(i, m.term) ELSE UNCHANGED <<hs, role, votes>>
            /\ ~Conflicts(n.log, m)
            /\ Finish(i, taken, Delivered(m), accepted, none)
  <2>1. hs'[i].term = m.term
    <3>1. CASE stepsDown
      BY <1>1, <1>2, <1>10, <3>1, CalledTerm
    <3>2. CASE ~stepsDown
      <4>1. m.term = hs[i].term
        BY <1>1, <1>2, <1>10, <3>2
      <4> QED BY <1>1, <1>10, <3>2, <4>1
    <3> QED BY <3>1, <3>2
  <2> HIDE DEF accepted, none, n, stepsDown
  <2>2. Plain(t) /\ t.out = {} /\ Spliced(n.log, m.prevIndex, m.ents, t.log)
    <3> DEFINE es == m.ents
    <3>1. es \in Seq(Entries) /\ Len(es) <= Len(m.ents) /\ \A k \in 1..Len(es) : es[k] = m.ents[k]
      BY <1>1
    <3> HIDE DEF es
    <3>2. LogInv /\ TypeOK /\ Uncompacted
      BY DEF Ready
    <3> QED BY <1>1, <1>7, <1>10, <3>1, <3>2, AcceptedSplices DEF es
  <2>3. /\ t.commit = node[i].commit /\ t.applied = node[i].applied /\ t.sm = node[i].sm
        /\ t.acked = node[i].acked /\ t.snap = node[i].snap
    <3>1. /\ t.commit = n.commit /\ t.applied = n.applied /\ t.sm = n.sm /\ t.acked = n.acked
          /\ t.snap = n.snap
      BY <1>3, TakeEntriesIdle
    <3> HIDE DEF t
    <3> QED BY <1>3, <3>1 DEF Idle, Quiet
  <2>4. taken \in Nodes /\ taken.log = t.log /\ taken.out = {}
    <3> HIDE DEF t
    <3>1. t \in Nodes
      BY <2>2 DEF Plain
    <3>2. Quiet(t, taken) /\ taken \in Nodes
      BY <1>1, <1>2, <3>1, QuietSteps, FollowCommitType
    <3> HIDE DEF taken
    <3> QED BY <2>2, <3>2 DEF Quiet
  <2>5. /\ node'[i].log = t.log /\ node'[i].commit = taken.commit /\ node'[i].applied = taken.applied
        /\ node'[i].sm = taken.sm /\ node'[i].snap = taken.snap /\ node'[i].acked = taken.acked
        /\ \A x \in msgs' : x \in msgs \cup accepted \cup none \cup taken.out
    <3> HIDE DEF taken, t
    <3> QED BY <1>1, <1>2, <1>10, <2>4, FinishedNode
  <2>6. Sound(t)
    <3> DEFINE a == node[i].log
    <3>1. Share(a, node'[i].log, node[i].commit)
      BY CommitStays DEF Ready, CommitInv
    <3> HIDE DEF t
    <3>2. /\ a.ents \in Seq(Entries) /\ t.log.ents \in Seq(Entries)
          /\ Len(a.ents) \in Nat /\ Len(t.log.ents) \in Nat /\ node[i].applied \in Nat
      BY <1>2, <2>2, PlainLog DEF Nodes
    <3>3. /\ node[i].commit <= Len(t.log.ents)
          /\ \A x \in 1..node[i].commit : a.ents[x] = t.log.ents[x]
      BY <2>5, <3>1 DEF Share
    <3>4. /\ node[i].applied <= node[i].commit /\ node[i].commit <= Len(a.ents)
          /\ node[i].sm = SubSeq(a.ents, 1, node[i].applied) /\ node[i].snap.sm = <<>>
      BY <1>2 DEF Sound
    <3>5. \A x \in 1..node[i].applied : x \in 1..node[i].commit
      BY <1>2, <3>2, <3>4
    <3>6. SubSeq(a.ents, 1, node[i].applied) = SubSeq(t.log.ents, 1, node[i].applied)
      <4> DEFINE k == node[i].applied
      <4>1. k \in Nat /\ k <= Len(a.ents) /\ k <= Len(t.log.ents)
            /\ \A x \in 1..k : a.ents[x] = t.log.ents[x]
        BY <1>2, <3>2, <3>3, <3>4, <3>5
      <4> HIDE DEF k, a
      <4>2. SubSeq(a.ents, 1, k) = SubSeq(t.log.ents, 1, k)
        BY <3>2, <4>1
      <4> QED BY <4>2 DEF k
    <3> QED BY <2>3, <3>3, <3>4, <3>6 DEF Sound
  <2> HIDE DEF t
  <2>7. /\ Sound(taken) /\ t.commit <= taken.commit /\ t.applied <= taken.applied
        /\ taken.commit = t.commit \/ taken.commit <= m.commit
        /\ t.acked \subseteq taken.acked
        /\ taken.acked \subseteq t.acked \cup {taken.log.ents[x] : x \in 1..taken.applied}
    BY <1>1, <2>2, <2>6, FollowWorks
  <2> HIDE DEF taken
  <2>8. Takes(i, m, m.ents)
    <3> DEFINE es == m.ents
    <3>1. /\ es \in Seq(Entries) /\ Len(es) <= Len(m.ents)
          /\ \A k \in 1..Len(es) : es[k] = m.ents[k]
          /\ es = <<>> => m.ents = <<>>
      BY <1>1
    <3>2. Spliced(node[i].log, m.prevIndex, es, node'[i].log) /\ ~Conflicts(node[i].log, m)
      BY <1>7, <1>10, <2>2, <2>5
    <3> HIDE DEF es
    <3>3. Takes(i, m, es)
      BY <1>1, <2>1, <3>1, <3>2 DEF Takes
    <3> QED BY <3>3 DEF es
  <2>9. \A x \in msgs' : x.type = "AppendEntries" => x \in msgs
    BY <1>4, <2>4, <2>5 DEF NoAppends
  <2>10. Sound(node'[i])
    BY <2>4, <2>5, <2>7 DEF Sound
  <2>11. taken.commit \in Nat /\ taken.applied \in Nat /\ node[i].applied \in Nat
    BY <1>2, <2>4 DEF Nodes
  <2>12. hs'[i].commit <= node'[i].commit
    BY <1>2, <1>6, <2>3, <2>5, <2>7, <2>11
  <2>13. node'[i].acked \subseteq
            node[i].acked \cup {node'[i].log.ents[x] : x \in 1..node'[i].applied}
    BY <2>3, <2>4, <2>5, <2>7
  <2>14. /\ node'[i].commit >= node[i].commit /\ node'[i].applied >= node[i].applied
         /\ node[i].acked \subseteq node'[i].acked
    BY <1>2, <2>3, <2>4, <2>5, <2>7, <2>11
  <2>15. \/ node'[i].commit <= node[i].commit
         \/ \E x \in msgs : Takes(i, x, x.ents) /\ node'[i].commit <= x.commit
    BY <1>2, <2>3, <2>5, <2>7, <2>8, <2>11
  <2> HIDE DEF i
  <2>16. CommitStep(i)
    BY <2>9, <2>10, <2>12, <2>13, <2>14, <2>15 DEF CommitStep
  <2> QED BY <2>16 DEF i
<1> HIDE DEF n, taken, late, refused, accepted, none, stepsDown, t
<1> QED BY <1>5, <1>8, <1>9, <1>10

\* A node comes back with the commit index it has persisted, and applies from the start.
LEMMA RebootCommits ==
    ASSUME Ready, NEW i \in Server, Stepping(i), NEW hard,
           hard = hs[i] \/ \E t : hard = SteppedDown(i, t),
           NEW wal, Reboot(i, hard, wal, node[i].snap),
           \A x \in msgs' : x.type = "AppendEntries" => x \in msgs
    PROVE  CommitStep(i)
<1> DEFINE snap == node[i].snap
           c == MaxOf(hard.commit, snap.index)
           h == [hard EXCEPT !.commit = c]
           b == Booted(i, wal, snap, c, node[i].acked, node[i].missed)
<1>1. /\ Sound(node[i]) /\ node[i] \in Nodes /\ hs[i].commit \in Nat /\ hs[i].commit <= node[i].commit
      /\ node[i].commit \in Nat /\ snap.index = 0 /\ snap.sm = <<>> /\ hs[i] \in HardStates
  BY ReadyNode DEF Ready, Uncompacted, Sound, TypeOK, HardStates
<1>2. /\ hs' = [hs EXCEPT ![i] = h] /\ node' = [node EXCEPT ![i] = b] /\ restarts' = restarts + 1
      /\ restarts \in Nat
  BY DEF Reboot, Ready, TypeOK
<1>3. hard.commit \in Nat /\ hard.commit <= node[i].commit /\ h.commit = c
  <2>1. hard.commit = hs[i].commit \/ hard.commit = node[i].commit
    BY DEF SteppedDown, Persisted
  <2>2. h.commit = c
    BY <1>1 DEF SteppedDown, Persisted, HardStates
  <2> QED BY <1>1, <2>1, <2>2
<1>4. c = hard.commit
  BY <1>1, <1>3 DEF MaxOf
<1>5. /\ b.log = wal /\ b.snap = snap /\ b.commit = c /\ b.sm = snap.sm /\ b.acked = node[i].acked
      /\ b.applied = MinOf(wal.snapIndex, c)
  BY <1>1 DEF Booted
<1> HIDE DEF b, c, h
<1>6. node'[i] = b /\ hs'[i].commit = c
  BY <1>2, <1>3 DEF Ready, TypeOK
<1>7. wal \in Logs /\ Aligned(wal) /\ Len(wal.ents) \in Nat /\ wal.ents \in Seq(Entries)
  BY <1>5, <1>6, SteppingTypes DEF Logs
<1>8. b.applied = 0
  BY <1>3, <1>4, <1>5, <1>7 DEF Aligned, MinOf
<1>9. c <= Len(wal.ents)
  <2>1. node[i].commit <= Len(wal.ents)
    BY <1>5, <1>6, CommitStays DEF Ready, CommitInv, Share
  <2> QED BY <1>1, <1>3, <1>4, <1>7, <2>1
<1>10. Sound(b)
  <2>1. SubSeq(wal.ents, 1, 0) = <<>>
    BY <1>7
  <2> QED BY <1>1, <1>3, <1>4, <1>5, <1>8, <1>9, <2>1 DEF Sound
<1>11. restarts' # restarts
  BY <1>2
<1>12. node'[i].commit <= node[i].commit /\ hs'[i].commit <= node'[i].commit
  BY <1>1, <1>3, <1>4, <1>5, <1>6
<1> QED BY <1>5, <1>6, <1>8, <1>10, <1>11, <1>12 DEF CommitStep

LEMMA HandleAppendEntriesVotes ==
    ASSUME Ready, NEW m \in msgs, HandleAppendEntries(m)
    PROVE  VoteStep(m.to)
<1> DEFINE i == m.to
           stepsDown == m.term > hs[i].term \/ role[i] # "follower"
           n     == IF stepsDown THEN FailPending(node[i]) ELSE node[i]
           t     == TakeEntries(n, m.ents)
           taken == FollowCommit(t, m.commit)
           late     == {AppendReply(m, hs[i].term, FALSE, 0, 0, 0)}
           refused  == {Rejection(n.log, m, m.term)}
           accepted == {AppendReply(m, m.term, TRUE, LastIndex(taken.log), 0, 0)}
           none     == {}
<1>1. /\ TypeOK /\ i \in Server /\ m.ents \in Seq(Entries) /\ m.commit \in Nat
      /\ m.type = "AppendEntries" /\ LogInv /\ Uncompacted
  <2>1. m \in AppendsUnderWay
    BY DEF HandleAppendEntries, AppendsUnderWay
  <2> QED BY <2>1, CallTypes DEF Ready, AppendCalls, AppendsUnderWay
<1>2. Plain(node[i]) /\ node[i].out = {} /\ node[i] \in Nodes /\ hs[i].term \in Nat
  BY <1>1, ReadyNode
<1>3. Idle(node[i], n) /\ n \in Nodes
  <2>1. Idle(node[i], FailPending(node[i])) /\ FailPending(node[i]) \in Nodes
    BY <1>1, <1>2, IdleSteps, FailPendingType
  <2> QED BY <1>2, <2>1 DEF Idle, Quiet
<1>4. NoVotes(late) /\ NoVotes(refused) /\ NoVotes(accepted) /\ NoVotes(none)
  BY DEF NoVotes, AppendReply, Rejection
<1>5. granted' = granted
      /\ \/ /\ Finish(i, node[i], Delivered(m), late, none)
         \/ /\ IF stepsDown THEN BecomeFollower(i, m.term) ELSE UNCHANGED <<hs, role, votes>>
            /\ Conflicts(n.log, m)
            /\ Finish(i, n, Delivered(m), refused, none)
         \/ /\ IF stepsDown THEN BecomeFollower(i, m.term) ELSE UNCHANGED <<hs, role, votes>>
            /\ ~Conflicts(n.log, m)
            /\ Finish(i, taken, Delivered(m), accepted, none)
  BY DEF HandleAppendEntries
<1>6. n.log = node[i].log /\ n.out = {} /\ Plain(n)
  BY <1>2, <1>3 DEF Idle, Quiet, Plain
<1>7. CASE Finish(i, node[i], Delivered(m), late, none)
  <2> HIDE DEF late, none
  <2> QED BY <1>1, <1>2, <1>4, <1>5, <1>7, VoteEnd
<1>8. ASSUME IF stepsDown THEN BecomeFollower(i, m.term) ELSE UNCHANGED <<hs, role, votes>>
      PROVE  role'[i] # "candidate"
  BY <1>1, <1>8 DEF BecomeFollower, TypeOK
<1>9. CASE /\ IF stepsDown THEN BecomeFollower(i, m.term) ELSE UNCHANGED <<hs, role, votes>>
           /\ Conflicts(n.log, m)
           /\ Finish(i, n, Delivered(m), refused, none)
  <2>1. role'[i] # "candidate"
    BY <1>8, <1>9
  <2> HIDE DEF n, refused, none
  <2> QED BY <1>1, <1>3, <1>4, <1>5, <1>9, <2>1, VoteEnd
<1>10. CASE /\ IF stepsDown THEN BecomeFollower(i, m.term) ELSE UNCHANGED <<hs, role, votes>>
            /\ ~Conflicts(n.log, m)
            /\ Finish(i, taken, Delivered(m), accepted, none)
  <2>1. role'[i] # "candidate"
    BY <1>8, <1>10
  <2> HIDE DEF accepted, none, n, stepsDown
  <2>2. Plain(t)
    <3> DEFINE es == m.ents
    <3>1. es \in Seq(Entries) /\ Len(es) <= Len(m.ents) /\ \A k \in 1..Len(es) : es[k] = m.ents[k]
      BY <1>1
    <3> HIDE DEF es
    <3> QED BY <1>1, <1>6, <1>10, <3>1, AcceptedSplices DEF es
  <2>3. taken \in Nodes
    <3> HIDE DEF t
    <3>1. t \in Nodes
      BY <2>2 DEF Plain
    <3> QED BY <1>1, <3>1, FollowCommitType
  <2> HIDE DEF taken
  <2> QED BY <1>1, <1>4, <1>5, <1>10, <2>1, <2>3, VoteEnd
<1> HIDE DEF n, taken, late, refused, accepted, none, stepsDown, t
<1> QED BY <1>5, <1>7, <1>9, <1>10

LEMMA RebootSteps ==
    ASSUME Ready, NEW i \in Server, NEW hard, hard = hs[i] \/ \E t : hard = SteppedDown(i, t),
           NEW wal, Reboot(i, hard, wal, node[i].snap),
           \A x \in msgs' : x.type \in {"AppendEntries", "RequestVote"} => x \in msgs
    PROVE  VoteStep(i) /\ (Stepping(i) => CommitStep(i))
<1>1. Stepping(i) => CommitStep(i)
  BY RebootCommits
<1>2. role'[i] = "follower" /\ granted' = granted
  BY DEF Reboot, Ready, TypeOK
<1> QED BY <1>1, <1>2 DEF VoteStep

LEMMA CrashSteps ==
    ASSUME Ready, NEW m \in msgs, CrashInHandler(m)
    PROVE  m.to \in Server /\ VoteStep(m.to) /\ (Stepping(m.to) => CommitStep(m.to))
<1> DEFINE i     == m.to
           known == SteppedDown(i, m.term)
           M     == msgs \ Delivered(m)
<1>1. i \in Server
  BY MessageFields DEF Ready, TypeOK
<1>2. \A x \in msgs' : x \in msgs
  <2>1. M \in SUBSET msgs /\ msgs' = Orphaned(M, i)
    BY DEF CrashInHandler
  <2> HIDE DEF M
  <2> QED BY <2>1, OrphansKnown DEF Ready
<1>3. \E wal : Reboot(i, known, wal, node[i].snap)
  BY DEF CrashInHandler
<1>4. \E t : known = SteppedDown(i, t)
  OBVIOUS
<1> HIDE DEF known
<1> QED BY <1>1, <1>2, <1>3, <1>4, RebootSteps

LEMMA StopSteps ==
    ASSUME Ready, NEW m \in msgs, StopWhileServing(m)
    PROVE  m.to \in Server /\ VoteStep(m.to) /\ (Stepping(m.to) => CommitStep(m.to))
<1> DEFINE i == m.to
           M == msgs \ Delivered(m)
<1>1. i \in Server
  BY MessageFields DEF Ready, TypeOK
<1>2. msgs' \subseteq Orphaned(M, i) \cup ZeroReply(m) /\ M \in SUBSET msgs
  BY DEF StopWhileServing
<1>3. m.type \in {"RequestVote", "AppendEntries"}
  <2>1. m.type \in {"RequestVote", "AppendEntries", "InstallSnapshot", "RequestVoteReply",
                    "AppendEntriesReply", "InstallSnapshotReply"}
    BY DEF Ready, TypeOK, Messages, Calls, VoteRequests, AppendCalls, SnapshotCalls, VoteReplies,
           AppendReplies, SnapshotReplies
  <2> QED BY <2>1 DEF StopWhileServing, IsReply, Ready, LogInv, NoTransfers
<1>4. ASSUME NEW x \in ZeroReply(m) PROVE x.type \notin {"AppendEntries", "RequestVote"}
  <2>1. CASE m.type = "RequestVote"
    BY <2>1 DEF ZeroReply, VoteReply
  <2>2. CASE m.type = "AppendEntries"
    BY <2>2 DEF ZeroReply, AppendReply
  <2> QED BY <1>3, <2>1, <2>2
<1>5. \A x \in msgs' : x.type \in {"AppendEntries", "RequestVote"} => x \in msgs
  <2> HIDE DEF M
  <2> QED BY <1>2, <1>4, OrphansKnown DEF Ready
<1>6. Reboot(i, hs[i], node[i].wal, node[i].snap)
  BY DEF StopWhileServing
<1> QED BY <1>1, <1>5, <1>6, RebootSteps

LEMMA RestartSteps ==
    ASSUME Ready, NEW i \in Server, Restart(i)
    PROVE  VoteStep(i) /\ (Stepping(i) => CommitStep(i))
<1>1. \A x \in msgs' : x \in msgs
  BY OrphansKnown DEF Restart, Ready
<1> QED BY <1>1, RebootSteps DEF Restart

-----------------------------------------------------------------------------
(***************************************************************************)
(* The invariant.                                                          *)
(***************************************************************************)
LEMMA NextCommitStep ==
    ASSUME Ready, ElectionInv, TypeOK', LogInv', ElectionInv', ElectionSafety', MatchInv',
           FixedVoters', Uncompacted', NoBlanks', Next
    PROVE  \E s \in Server : Stepping(s) /\ CommitStep(s)
<1>1. /\ IsFiniteSet(Voters) /\ TypeOK /\ LogInv /\ MatchInv /\ Uncompacted
      /\ LeadersHold /\ CallsElected /\ RepliesCurrent
  BY DEF Ready, MatchInv
<1>2. ASSUME NEW i \in Server,
             \/ Campaign(i) \/ Heartbeat(i) \/ IdleTick(i) \/ Restart(i) \/ LinearizableRead(i)
             \/ \E v \in Value : Propose(i, v)
             \/ \E c \in Changes : ChangeMembership(i, c)
      PROVE  MatchStep(i) /\ VoteStep(i) /\ (Stepping(i) => CommitStep(i))
  <2>1. MatchStep(i)
    BY <1>1, <1>2, CampaignMatch, TickMatch, RestartMatch, LinearizableReadMatch, ProposeMatch,
       ChangeMembershipMatch
  <2>2. VoteStep(i) /\ (Stepping(i) => CommitStep(i))
    BY <1>2, CampaignCommits, TickCommits, RestartSteps, LinearizableReadCommits, ProposeCommits,
       ChangeMembershipCommits
  <2> QED BY <2>1, <2>2
<1>3. ASSUME NEW m \in msgs,
             \/ HandleRequestVote(m) \/ OnVoteReply(m) \/ HandleAppendEntries(m)
             \/ OnAppendReply(m) \/ HandleInstallSnapshot(m) \/ OnInstallReply(m)
             \/ InstallFails(m) \/ CrashInHandler(m) \/ StopWhileServing(m)
      PROVE  m.to \in Server /\ MatchStep(m.to) /\ VoteStep(m.to)
             /\ (Stepping(m.to) => CommitStep(m.to))
  <2>1. m.to \in Server
    BY <1>1, MessageFields DEF TypeOK
  <2>2. MatchStep(m.to)
    BY <1>1, <1>3, <2>1, HandleRequestVoteMatch, OnVoteReplyMatch, HandleAppendEntriesMatch,
             OnAppendReplyMatch, InstallLogs, CrashInHandlerMatch, StopWhileServingMatch
  <2>3. ~(HandleInstallSnapshot(m) \/ OnInstallReply(m) \/ InstallFails(m))
    BY <1>1, InstallLogs DEF HandleInstallSnapshot, OnInstallReply, InstallFails, LogInv, NoTransfers
  <2>4. VoteStep(m.to) /\ (Stepping(m.to) => CommitStep(m.to))
    BY <1>3, <2>3, HandleRequestVoteCommits, OnVoteReplyCommits, OnAppendReplyCommits,
       HandleAppendEntriesVotes, HandleAppendEntriesCommits, CrashSteps, StopSteps
  <2> QED BY <2>1, <2>2, <2>4
<1>4. ASSUME NEW s \in Server, MatchStep(s), VoteStep(s) PROVE Stepping(s)
  BY <1>1, <1>4 DEF Stepping
<1>5. \E s \in Server : MatchStep(s) /\ VoteStep(s) /\ (Stepping(s) => CommitStep(s))
  BY <1>2, <1>3 DEF Next
<1> QED BY <1>4, <1>5

LEMMA InitCommit == Init => CommitInv
<1> SUFFICES ASSUME Init PROVE CommitInv
  OBVIOUS
<1>1. /\ msgs = {} /\ granted = {}
      /\ \A i \in Server : /\ role[i] = "follower" /\ hs[i].commit = 0
                           /\ node[i].log.ents = <<>> /\ node[i].commit = 0 /\ node[i].applied = 0
                           /\ node[i].sm = <<>> /\ node[i].snap.sm = <<>> /\ node[i].acked = {}
  <2>1. MinOf(0, 0) = 0
    BY DEF MinOf
  <2>2. \A i \in Server : node[i] = Booted(i, EmptyLog, NoSnapshot, 0, {}, {})
    BY DEF Init
  <2> QED BY <2>1, <2>2 DEF Init, Booted, NoSnapshot, EmptyLog
<1>2. AppendsUnderWay = {}
  BY <1>1 DEF AppendsUnderWay
<1>3. OwnEntries /\ AcksBounded /\ CallsFresh /\ VotesAsked
  BY <1>1, <1>2 DEF OwnEntries, AcksBounded, CallsFresh, VotesAsked
<1>4. CommitsChosen
  BY <1>1, <1>2 DEF CommitsChosen, Settled
<1>5. AppliedCommitted
  <2>1. SubSeq(<<>>, 1, 0) = <<>>
    OBVIOUS
  <2>2. ASSUME NEW j \in Server
        PROVE  /\ node[j].applied <= node[j].commit
               /\ node[j].sm = SubSeq(node[j].log.ents, 1, node[j].applied)
               /\ node[j].snap.sm = <<>>
    <3>1. SubSeq(node[j].log.ents, 1, node[j].applied) = SubSeq(<<>>, 1, 0)
      BY <1>1
    <3>2. node[j].sm = SubSeq(node[j].log.ents, 1, node[j].applied)
      BY <1>1, <2>1, <3>1, Zenon
    <3>3. node[j].applied <= node[j].commit
      BY <1>1
    <3>4. node[j].snap.sm = <<>>
      BY <1>1
    <3> QED BY <3>2, <3>3, <3>4
  <2>3. \A j \in Server : \A e \in node[j].acked : FALSE
    BY <1>1
  <2> QED BY <2>2, <2>3 DEF AppliedCommitted
<1> QED BY <1>3, <1>4, <1>5 DEF CommitInv

LEMMA SameChosen ==
    ASSUME UNCHANGED vars
    PROVE  Chosen' = Chosen /\ \A A, p : Backed(A, p)' <=> Backed(A, p)
<1>1. UNCHANGED <<hs, role, node, msgs, granted>>
  BY DEF vars
<1>2. AppendsUnderWay' = AppendsUnderWay /\ Voters' = Voters
  BY <1>1 DEF AppendsUnderWay, Voters
<1>3. Beginnings' = Beginnings
  BY <1>1 DEF Beginnings, Upto
<1>4. ASSUME NEW A, NEW p PROVE Backed(A, p)' <=> Backed(A, p)
  BY <1>1, <1>2 DEF Backed, Held, Unelectable, NoneReaches, CallsFit, CallsMeet, Reaches
<1> QED BY <1>2, <1>3, <1>4 DEF Chosen, Majority

LEMMA SameCommit ==
    ASSUME CommitInv, UNCHANGED vars
    PROVE  CommitInv'
<1>1. UNCHANGED <<hs, role, node, msgs, granted>>
  BY DEF vars
<1>2. AppendsUnderWay' = AppendsUnderWay /\ Voters' = Voters
  BY <1>1 DEF AppendsUnderWay, Voters
<1>3. ASSUME NEW A, NEW p PROVE Backed(A, p)' <=> Backed(A, p)
  BY SameChosen
<1>4. Chosen' = Chosen
  BY SameChosen
<1>5. ASSUME NEW i \in Server, NEW x
      PROVE  Acks(i, x)' = Acks(i, x) /\ Upto(node[i].log, x)' = Upto(node[i].log, x)
  BY <1>1 DEF Acks, Replies, Upto
<1>6. OwnEntries'
  <2> SUFFICES ASSUME NEW i \in Server, role'[i] = "leader", NEW x \in 1..Len(node'[i].log.ents),
                      node'[i].log.ents[x].term = hs'[i].term
               PROVE  (Lost(Acks(i, x), hs[i].term) \/ Backed(Acks(i, x), Upto(node[i].log, x)))'
    BY DEF OwnEntries
  <2>1. PICK A : A = Acks(i, x)
    OBVIOUS
  <2>2. PICK p : p = Upto(node[i].log, x)
    OBVIOUS
  <2>3. Lost(A, hs[i].term) \/ Backed(A, p)
    BY <1>1, <2>1, <2>2 DEF CommitInv, OwnEntries
  <2>4. (Lost(A, hs[i].term) \/ Backed(A, p))'
    BY <1>1, <1>2, <1>3, <2>3 DEF Lost, Majority
  <2>5. A = Acks(i, x)' /\ p = Upto(node[i].log, x)'
    BY <1>5, <2>1, <2>2
  <2> QED BY <2>4, <2>5
<1>7. AcksBounded' /\ CallsFresh' /\ VotesAsked'
  BY <1>1, <1>2 DEF CommitInv, AcksBounded, CallsFresh, VotesAsked, Replies
<1>8. CommitsChosen' /\ AppliedCommitted'
  BY <1>1, <1>2, <1>4 DEF CommitInv, CommitsChosen, AppliedCommitted, Settled
<1> QED BY <1>6, <1>7, <1>8 DEF CommitInv

LEMMA NextCommit ==
    ASSUME Ready, ElectionInv, TypeOK', LogInv', ElectionInv', ElectionSafety', MatchInv',
           FixedVoters', Uncompacted', NoBlanks', [Next]_vars
    PROVE  CommitInv'
<1>1. CASE Next
  BY <1>1, NextCommitStep, CommitStepKeeps DEF Ready
<1>2. CASE UNCHANGED vars
  BY <1>2, SameCommit DEF Ready
<1> QED BY <1>1, <1>2

LEMMA CommitInvariant ==
    ASSUME IsFiniteSet(Voters)
    PROVE  Spec /\ []FixedVoters /\ []Uncompacted /\ []NoBlanks
              => [](TypeOK /\ LogInv /\ ElectionInv /\ MatchInv /\ CommitInv)
<1>1. Init => CommitInv
  BY InitCommit
<1>2. TypeOK /\ ElectionInv => ElectionSafety
  BY InvElectionSafety
<1>3. /\ FixedVoters /\ Uncompacted /\ TypeOK /\ LogInv /\ MatchInv /\ CommitInv /\ ElectionInv
      /\ TypeOK' /\ LogInv' /\ ElectionInv' /\ ElectionSafety' /\ MatchInv'
      /\ FixedVoters' /\ Uncompacted' /\ NoBlanks' /\ [Next]_vars
      => CommitInv'
  BY NextCommit DEF Ready
<1>4. Spec /\ []FixedVoters /\ []Uncompacted => [](TypeOK /\ ElectionInv /\ LogInv)
  BY LogsInvariant
<1>5. Spec /\ []FixedVoters /\ []Uncompacted /\ []NoBlanks => [](TypeOK /\ LogInv /\ MatchInv)
  BY MatchInvariant
<1> QED BY <1>1, <1>2, <1>3, <1>4, <1>5, PTL DEF Spec

\* What a leader has written in its term is on the nodes that have acknowledged it and
\* cannot be lost any more once they are a majority; what is committed, applied or
\* answered for anywhere is written that far (maybeCommit, applyCommitted, and the
\* commit index that handleAppendEntries takes from LeaderCommit), in any order of
\* messages and across restarts.
THEOREM CommittedIsChosen ==
    ASSUME IsFiniteSet(Voters)
    PROVE  Spec /\ []FixedVoters /\ []Uncompacted /\ []NoBlanks => []CommitInv
<1>1. Spec /\ []FixedVoters /\ []Uncompacted /\ []NoBlanks
         => [](TypeOK /\ LogInv /\ ElectionInv /\ MatchInv /\ CommitInv)
  BY CommitInvariant
<1> QED BY <1>1, PTL

-----------------------------------------------------------------------------
(***************************************************************************)
(* What follows for the cluster.                                           *)
(***************************************************************************)
\* All that has been proved of the states of a cluster.
ClusterInv == TypeOK /\ LogInv /\ ElectionInv /\ MatchInv /\ CommitInv

\* What has been chosen is the beginning of the log of every later leader.
LEMMA ChosenLeads ==
    ASSUME IsFiniteSet(Voters), ClusterInv, NEW p \in Chosen, NEW i \in Server, role[i] = "leader",
           hs[i].term >= LastTerm(p)
    PROVE  Begins(p, node[i].log)
<1>1. p \in Logs /\ Len(p.ents) > 0 /\ NoneReaches(p)
  BY ChosenBacked DEF ClusterInv
<1>2. PICK Q \in SUBSET Voters : Majority(Q) /\ Backed(Q, p)
  BY DEF Chosen
<1>3. PICK v \in Q : v \in Server /\ Begins(p, node[v].log)
  <2>1. Q # {}
    BY <1>2, MajoritiesMeet
  <2>2. Voters \subseteq Server
    BY PeersAssumption DEF Voters
  <2> QED BY <1>2, <2>1, <2>2 DEF Backed, Held
<1>4. LeadersReach
  BY LeadersReachHolds, KnownHolds DEF ClusterInv
<1>5. Reaches(node[i].log, p)
  BY <1>1, <1>3, <1>4 DEF LeadersReach
<1> QED BY <1>1, <1>5 DEF NoneReaches

\* Of what has been chosen one is the beginning of the other.
LEMMA ChosenAgree ==
    ASSUME IsFiniteSet(Voters), ClusterInv, NEW p \in Chosen, NEW q \in Chosen,
           NEW x \in 1..Len(p.ents), x \in 1..Len(q.ents)
    PROVE  p.ents[x] = q.ents[x]
<1>1. PICK Q \in SUBSET Voters : Majority(Q) /\ Backed(Q, p)
  BY DEF Chosen
<1>2. PICK W \in SUBSET Voters : Majority(W) /\ Backed(W, q)
  BY DEF Chosen
<1>3. PICK v : v \in Q /\ v \in W
  BY <1>1, <1>2, MajoritiesMeet
<1>4. Begins(p, node[v].log) /\ Begins(q, node[v].log)
  BY <1>1, <1>2, <1>3 DEF Backed, Held
<1> QED BY <1>4 DEF Begins

\* What a node knows to be committed is chosen, in its term or before.
LEMMA CommittedChosen ==
    ASSUME IsFiniteSet(Voters), ClusterInv, NEW j \in Server, NEW x \in 1..node[j].commit
    PROVE  /\ x \in 1..Len(node[j].log.ents) /\ x \in Nat
           /\ \E p \in Chosen : /\ LastTerm(p) <= hs[j].term /\ LastTerm(p) \in Nat
                                /\ x \in 1..Len(p.ents) /\ p.ents[x] = node[j].log.ents[x]
<1>1. /\ node[j].commit \in Nat /\ Len(node[j].log.ents) \in Nat
      /\ node[j].commit <= Len(node[j].log.ents) /\ Settled(j)
  BY LogTypes DEF ClusterInv, CommitInv, CommitsChosen, TypeOK, Nodes
<1>2. x \in 1..Len(node[j].log.ents) /\ x \in Nat /\ node[j].commit > 0
  BY <1>1
<1>3. PICK p \in Chosen : /\ LastTerm(p) <= hs[j].term /\ node[j].commit <= Len(p.ents)
                          /\ \A y \in 1..node[j].commit : p.ents[y] = node[j].log.ents[y]
  BY <1>1, <1>2 DEF Settled
<1>4. LastTerm(p) \in Nat /\ Len(p.ents) \in Nat
  BY ChosenBacked DEF ClusterInv
<1>5. x \in 1..Len(p.ents)
  BY <1>1, <1>3, <1>4
<1> QED BY <1>2, <1>3, <1>4, <1>5

LEMMA InvLeaderCompleteness ==
    ASSUME IsFiniteSet(Voters), ClusterInv
    PROVE  LeaderCompleteness
<1> SUFFICES ASSUME NEW i \in Server, NEW j \in Server, role[i] = "leader", hs[i].term >= hs[j].term,
                    NEW x \in 1..node[j].commit
             PROVE  Has(node[i].log, x) /\ At(node[i].log, x) = At(node[j].log, x)
  BY DEF LeaderCompleteness
<1>1. x \in 1..Len(node[j].log.ents) /\ x \in Nat
  BY CommittedChosen
<1>2. PICK p \in Chosen : /\ LastTerm(p) <= hs[j].term /\ LastTerm(p) \in Nat
                          /\ x \in 1..Len(p.ents) /\ p.ents[x] = node[j].log.ents[x]
  BY CommittedChosen
<1>3. hs[i].term \in Nat /\ hs[j].term \in Nat
  BY DEF ClusterInv, TypeOK
<1>4. Begins(p, node[i].log)
  BY <1>2, <1>3, ChosenLeads
<1>5. /\ node[i].log \in Logs /\ Aligned(node[i].log) /\ node[j].log \in Logs /\ Aligned(node[j].log)
      /\ Len(node[i].log.ents) \in Nat /\ Len(p.ents) \in Nat
  BY LogTypes, ChosenBacked DEF ClusterInv, LogInv, LogsPlain
<1>6. x \in 1..Len(node[i].log.ents) /\ node[i].log.ents[x] = p.ents[x]
  BY <1>2, <1>4, <1>5 DEF Begins
<1>7. At(node[i].log, x) = node[i].log.ents[x] /\ At(node[j].log, x) = node[j].log.ents[x]
  BY <1>1, <1>5, AlignedReads
<1>8. Has(node[i].log, x)
  BY <1>1, <1>5, <1>6, AlignedReads
<1> QED BY <1>2, <1>6, <1>7, <1>8

LEMMA InvStateMachineSafety ==
    ASSUME IsFiniteSet(Voters), ClusterInv
    PROVE  StateMachineSafety
<1>1. ASSUME NEW i \in Server, NEW x \in 1..Len(node[i].sm)
      PROVE  \E p \in Chosen : x \in 1..Len(p.ents) /\ p.ents[x] = node[i].sm[x]
  <2> DEFINE es == node[i].log.ents
             a  == node[i].applied
  <2>1. es \in Seq(Entries) /\ Len(es) \in Nat /\ a \in Nat /\ node[i].commit \in Nat
    BY LogTypes DEF ClusterInv, TypeOK, Nodes, Logs
  <2>2. a <= node[i].commit /\ node[i].commit <= Len(es) /\ node[i].sm = SubSeq(es, 1, a)
    BY DEF ClusterInv, CommitInv, CommitsChosen, AppliedCommitted
  <2> HIDE DEF es, a
  <2>3. a <= Len(es)
    BY <2>1, <2>2
  <2>4. Len(node[i].sm) = a /\ \A y \in 1..a : node[i].sm[y] = es[y]
    BY <2>1, <2>2, <2>3
  <2>5. x \in 1..node[i].commit /\ node[i].sm[x] = es[x]
    BY <2>1, <2>2, <2>4
  <2> QED BY <2>5, CommittedChosen DEF es
<1> SUFFICES ASSUME NEW i \in Server, NEW j \in Server,
                    NEW x \in 1..MinOf(Len(node[i].sm), Len(node[j].sm))
             PROVE  node[i].sm[x] = node[j].sm[x]
  BY DEF StateMachineSafety
<1>2. Len(node[i].sm) \in Nat /\ Len(node[j].sm) \in Nat
  BY DEF ClusterInv, TypeOK, Nodes
<1>3. x \in 1..Len(node[i].sm) /\ x \in 1..Len(node[j].sm)
  BY <1>2 DEF MinOf
<1>4. PICK p \in Chosen : x \in 1..Len(p.ents) /\ p.ents[x] = node[i].sm[x]
  BY <1>1, <1>3
<1>5. PICK q \in Chosen : x \in 1..Len(q.ents) /\ q.ents[x] = node[j].sm[x]
  BY <1>1, <1>3
<1> QED BY <1>4, <1>5, ChosenAgree

LEMMA InvAckedDurable ==
    ASSUME IsFiniteSet(Voters), ClusterInv, \A i \in Server : Peers[i] = Voters
    PROVE  AckedDurable
<1> SUFFICES ASSUME NEW i \in Server, NEW e \in node[i].acked
             PROVE  Cardinality({j \in Voters :
                                   \/ e.index <= node[j].log.snapIndex
                                   \/ Has(node[j].log, e.index) /\ At(node[j].log, e.index) = e})
                       > Cardinality(Voters) \div 2
  BY DEF AckedDurable
<1> DEFINE H == {j \in Voters : \/ e.index <= node[j].log.snapIndex
                                \/ Has(node[j].log, e.index) /\ At(node[j].log, e.index) = e}
<1>1. PICK p \in Chosen : e.index \in 1..Len(p.ents) /\ p.ents[e.index] = e
  BY DEF ClusterInv, CommitInv, AppliedCommitted
<1>2. PICK Q \in SUBSET Voters : Majority(Q) /\ Backed(Q, p)
  BY DEF Chosen
<1>3. e.index \in Nat /\ Len(p.ents) \in Nat
  BY <1>1, ChosenBacked DEF ClusterInv
<1>4. ASSUME NEW v \in Q
      PROVE  Has(node[v].log, e.index) /\ At(node[v].log, e.index) = e
  <2>1. v \in Server
    BY PeersAssumption DEF Voters
  <2>2. node[v].log \in Logs /\ Aligned(node[v].log) /\ Len(node[v].log.ents) \in Nat
    BY <2>1, LogTypes DEF ClusterInv, LogInv, LogsPlain
  <2>3. Begins(p, node[v].log)
    BY <1>2 DEF Backed, Held
  <2>4. e.index \in 1..Len(node[v].log.ents) /\ node[v].log.ents[e.index] = e
    BY <1>1, <1>3, <2>2, <2>3 DEF Begins
  <2> QED BY <1>3, <2>2, <2>4, AlignedReads
<1>5. Q \subseteq H /\ H \subseteq Voters
  BY <1>4
<1> HIDE DEF H
<1>6. IsFiniteSet(H) /\ IsFiniteSet(Q) /\ Cardinality(Q) <= Cardinality(H)
  BY <1>5, FS_Subset
<1>7. Cardinality(H) \in Nat /\ Cardinality(Q) \in Nat /\ Cardinality(Voters) \in Nat
  BY <1>6, FS_CardinalityType
<1>8. Cardinality(H) > Cardinality(Voters) \div 2
  BY <1>2, <1>6, <1>7 DEF Majority
<1> QED BY <1>8 DEF H

\* The commit index and the applied index of a node that has not restarted.
CommitsOnly ==
    \A i \in Server : restarts' = restarts =>
        node'[i].commit >= node[i].commit /\ node'[i].applied >= node[i].applied

LEMMA NextCommitsOnly ==
    ASSUME Ready, ElectionInv, TypeOK', LogInv', ElectionInv', ElectionSafety', MatchInv',
           FixedVoters', Uncompacted', NoBlanks', Next
    PROVE  CommitsOnly
<1> SUFFICES ASSUME NEW i \in Server, restarts' = restarts
             PROVE  node'[i].commit >= node[i].commit /\ node'[i].applied >= node[i].applied
  BY DEF CommitsOnly
<1>1. PICK s \in Server : Stepping(s) /\ CommitStep(s)
  BY NextCommitStep
<1>2. CASE i = s
  BY <1>1, <1>2 DEF CommitStep
<1>3. CASE i # s
  <2>1. node'[i] = node[i]
    BY <1>1, <1>3, SteppingOthers
  <2>2. node[i].commit \in Nat /\ node[i].applied \in Nat
    BY DEF Ready, TypeOK, Nodes
  <2> QED BY <2>1, <2>2
<1> QED BY <1>2, <1>3

\* Whatever any node has committed is in the log of every leader of its term or a
\* later one: maybeCommit counts entries of the leader's own term only, and
\* logUpToDate keeps who lacks them from being elected.
THEOREM LeadersComplete ==
    ASSUME IsFiniteSet(Voters)
    PROVE  Spec /\ []FixedVoters /\ []Uncompacted /\ []NoBlanks => []LeaderCompleteness
<1>1. TypeOK /\ LogInv /\ ElectionInv /\ MatchInv /\ CommitInv => LeaderCompleteness
  BY InvLeaderCompleteness DEF ClusterInv
<1>2. Spec /\ []FixedVoters /\ []Uncompacted /\ []NoBlanks
         => [](TypeOK /\ LogInv /\ ElectionInv /\ MatchInv /\ CommitInv)
  BY CommitInvariant
<1> QED BY <1>1, <1>2, PTL

\* The state machines apply the same entries in the same order (applyCommitted),
\* whoever leads and however often the nodes restart and apply their logs again.
THEOREM StateMachinesAgree ==
    ASSUME IsFiniteSet(Voters)
    PROVE  Spec /\ []FixedVoters /\ []Uncompacted /\ []NoBlanks => []StateMachineSafety
<1>1. TypeOK /\ LogInv /\ ElectionInv /\ MatchInv /\ CommitInv => StateMachineSafety
  BY InvStateMachineSafety DEF ClusterInv
<1>2. Spec /\ []FixedVoters /\ []Uncompacted /\ []NoBlanks
         => [](TypeOK /\ LogInv /\ ElectionInv /\ MatchInv /\ CommitInv)
  BY CommitInvariant
<1> QED BY <1>1, <1>2, PTL

\* An entry whose proposer was told success stays on a quorum of the cluster for ever
\* (Propose's waiter against maybeCommit, truncations and elections), provided that
\* RAFT_PEERS is the same at every node.
THEOREM AckedStays ==
    ASSUME IsFiniteSet(Voters), \A i \in Server : Peers[i] = Voters
    PROVE  Spec /\ []FixedVoters /\ []Uncompacted /\ []NoBlanks => []AckedDurable
<1>1. TypeOK /\ LogInv /\ ElectionInv /\ MatchInv /\ CommitInv => AckedDurable
  BY InvAckedDurable DEF ClusterInv
<1>2. Spec /\ []FixedVoters /\ []Uncompacted /\ []NoBlanks
         => [](TypeOK /\ LogInv /\ ElectionInv /\ MatchInv /\ CommitInv)
  BY CommitInvariant
<1> QED BY <1>1, <1>2, PTL

\* A running node never takes its commit index or its applied index back
\* (maybeCommit, handleAppendEntries, applyCommitted).
THEOREM CommitsGrow ==
    ASSUME IsFiniteSet(Voters)
    PROVE  Spec /\ []FixedVoters /\ []Uncompacted /\ []NoBlanks => CommitMonotone
<1>1. /\ FixedVoters /\ Uncompacted /\ TypeOK /\ LogInv /\ MatchInv /\ CommitInv /\ ElectionInv
      /\ TypeOK' /\ LogInv' /\ ElectionInv' /\ ElectionSafety' /\ MatchInv'
      /\ FixedVoters' /\ Uncompacted' /\ NoBlanks' /\ [Next]_vars
      => [\A i \in Server : restarts' = restarts =>
             node'[i].commit >= node[i].commit /\ node'[i].applied >= node[i].applied]_vars
  BY NextCommitsOnly DEF Ready, CommitsOnly
<1>2. TypeOK /\ ElectionInv => ElectionSafety
  BY InvElectionSafety
<1>3. Spec /\ []FixedVoters /\ []Uncompacted /\ []NoBlanks
         => [](TypeOK /\ LogInv /\ ElectionInv /\ MatchInv /\ CommitInv)
  BY CommitInvariant
<1> QED BY <1>1, <1>2, <1>3, PTL DEF Spec, CommitMonotone

-----------------------------------------------------------------------------
(***************************************************************************)
(* The cluster implements one replicated log, restarts included: the log   *)
(* is the longest chosen beginning.                                        *)
(***************************************************************************)

\* Numbers that do not exceed the values of a function on a finite set have a largest one.
LEMMA LargestNumber ==
    ASSUME NEW V, IsFiniteSet(V), NEW f \in [V -> Nat], NEW N \in SUBSET Nat, N # {},
           \A n \in N : \E v \in V : n <= f[v]
    PROVE  \E n \in N : \A k \in N : k <= n
<1> DEFINE D == {x \in Nat \ {0} : \E n \in N : x <= n}
           g == [v \in V |-> 1..f[v]]
           U == {g[v] : v \in V}
<1>1. IsFiniteSet(D)
  <2>1. g \in [V -> U] /\ \A t \in U : \E v \in V : g[v] = t
    OBVIOUS
  <2>2. IsFiniteSet(U)
    <3> HIDE DEF g, U
    <3>1. g \in Surjection(V, U)
      BY <2>1 DEF Surjection
    <3> QED BY <3>1, FS_Surjection
  <2>3. \A t \in U : IsFiniteSet(t)
    BY FS_Interval
  <2>4. IsFiniteSet(UNION U)
    <3> HIDE DEF U
    <3> QED BY <2>2, <2>3, FS_UNION
  <2>5. ASSUME NEW x \in D PROVE x \in UNION U
    <3>1. PICK n \in N : x <= n
      BY <2>5
    <3>2. PICK v \in V : n <= f[v]
      OBVIOUS
    <3>3. x \in g[v]
      BY <2>5, <3>1, <3>2
    <3> QED BY <3>3
  <2>6. D \in SUBSET UNION U
    <3> HIDE DEF D, U
    <3> QED BY <2>5
  <2> HIDE DEF D, U
  <2> QED BY <2>4, <2>6, FS_Subset
<1> DEFINE c == Cardinality(D)
<1>2. c \in Nat
  <2> HIDE DEF D
  <2> QED BY <1>1, FS_CardinalityType
<1>3. ASSUME NEW x \in D PROVE x \in 1..c
  <2>1. x \in Nat /\ x > 0 /\ 1..x \in SUBSET D
    BY <1>3
  <2>2. Cardinality(1..x) = x
    BY <2>1, FS_Interval
  <2> HIDE DEF D
  <2>3. x <= c
    BY <1>1, <2>1, <2>2, FS_Subset
  <2> QED BY <1>2, <2>1, <2>3
<1>4. D = 1..c
  <2> HIDE DEF D
  <2>1. D \in SUBSET (1..c)
    BY <1>3
  <2>2. IsFiniteSet(1..c) /\ Cardinality(1..c) = c
    BY <1>2, FS_Interval
  <2> QED BY <2>1, <2>2, FS_Subset
<1>5. CASE c = 0
  <2>1. PICK n \in N : TRUE
    OBVIOUS
  <2>2. ASSUME NEW k \in N PROVE k = 0
    <3>1. k \notin D
      <4> HIDE DEF D
      <4> QED BY <1>4, <1>5
    <3> QED BY <3>1
  <2> QED BY <2>1, <2>2
<1>6. CASE c # 0
  <2>1. c \in D
    <3> HIDE DEF c, D
    <3> QED BY <1>2, <1>4, <1>6
  <2>2. PICK n \in N : c <= n
    BY <2>1
  <2>3. ASSUME NEW k \in N PROVE k <= n
    <3>1. k = 0 \/ k \in D
      OBVIOUS
    <3>2. k = 0 \/ k <= c
      <4> HIDE DEF D
      <4> QED BY <1>2, <1>3, <3>1
    <3> HIDE DEF c
    <3> QED BY <1>2, <2>2, <3>2
  <2> QED BY <2>3
<1> QED BY <1>5, <1>6

\* Sequence s is a beginning of sequence t.
Heads(s, t) ==
    /\ s \in Seq(Entries) /\ t \in Seq(Entries) /\ Len(s) <= Len(t)
    /\ \A x \in 1..Len(s) : s[x] = t[x]

\* The log of the cluster is a chosen beginning, of which all the others, the machines and
\* what proposers were told are parts.
LogFits(log) ==
    /\ \A p \in Chosen : Heads(p.ents, log)
    /\ log = <<>> \/ \E p \in Chosen : p.ents = log
    /\ \A i \in Server : Heads(node[i].sm, log) /\ Len(node[i].sm) = node[i].applied
    /\ \A e \in Promised : \E x \in 1..Len(log) : log[x] = e

LEMMA LongestChosen ==
    ASSUME IsFiniteSet(Voters), ClusterInv, Chosen # {}
    PROVE  \E p \in Chosen : \A q \in Chosen : Len(q.ents) <= Len(p.ents)
<1> DEFINE f == [v \in Voters |-> Len(node[v].log.ents)]
           N == {Len(p.ents) : p \in Chosen}
<1>1. Voters \subseteq Server
  BY PeersAssumption DEF Voters
<1>2. \A v \in Voters : Len(node[v].log.ents) \in Nat
  BY <1>1, LogTypes DEF ClusterInv
<1>3. ASSUME NEW p \in Chosen
      PROVE  Len(p.ents) \in Nat /\ \E v \in Voters : Len(p.ents) <= Len(node[v].log.ents)
  <2>1. PICK Q \in SUBSET Voters : Majority(Q) /\ Backed(Q, p)
    BY DEF Chosen
  <2>2. Q # {}
    BY <2>1, MajoritiesMeet
  <2>3. PICK v \in Q : Begins(p, node[v].log)
    BY <2>1, <2>2 DEF Backed, Held
  <2>4. Len(p.ents) \in Nat
    BY ChosenBacked DEF ClusterInv
  <2> QED BY <2>3, <2>4 DEF Begins
<1>4. f \in [Voters -> Nat] /\ \A v \in Voters : f[v] = Len(node[v].log.ents)
  BY <1>2
<1> HIDE DEF f
<1>5. N \in SUBSET Nat /\ N # {} /\ \A n \in N : \E v \in Voters : n <= f[v]
  BY <1>3, <1>4
<1>6. \E n \in N : \A k \in N : k <= n
  <2> HIDE DEF N
  <2> QED BY <1>4, <1>5, LargestNumber
<1> QED BY <1>6

LEMMA ChosenHeads ==
    ASSUME IsFiniteSet(Voters), ClusterInv, NEW p \in Chosen, NEW q \in Chosen,
           Len(p.ents) <= Len(q.ents)
    PROVE  Heads(p.ents, q.ents)
<1>1. /\ p \in Logs /\ q \in Logs /\ Len(p.ents) \in Nat /\ Len(q.ents) \in Nat
  BY ChosenBacked DEF ClusterInv
<1>2. p.ents \in Seq(Entries) /\ q.ents \in Seq(Entries)
  BY <1>1 DEF Logs
<1>3. \A x \in 1..Len(p.ents) : x \in 1..Len(q.ents)
  BY <1>1
<1>4. \A x \in 1..Len(p.ents) : p.ents[x] = q.ents[x]
  BY <1>3, ChosenAgree
<1> QED BY <1>2, <1>4 DEF Heads

\* What is longest.
LEMMA LongestIs ==
    ASSUME IsFiniteSet(Voters), ClusterInv
    PROVE  \/ Chosen = {} /\ ChosenLog = <<>>
           \/ \E p \in Chosen : p.ents = ChosenLog /\ \A q \in Chosen : Heads(q.ents, ChosenLog)
<1> DEFINE S == {<<>>} \cup {p.ents : p \in Chosen}
<1>1. ChosenLog \in S /\ \A t \in S : Len(t) <= Len(ChosenLog)
  <2>1. \E s \in S : \A t \in S : Len(t) <= Len(s)
    <3>1. CASE Chosen = {}
      <4>1. S = {<<>>}
        BY <3>1
      <4>2. Len(<<>>) <= Len(<<>>)
        OBVIOUS
      <4> HIDE DEF S
      <4> QED BY <4>1, <4>2
    <3>2. CASE Chosen # {}
      <4>1. PICK p \in Chosen : \A q \in Chosen : Len(q.ents) <= Len(p.ents)
        BY <3>2, LongestChosen
      <4>2. Len(p.ents) \in Nat
        BY ChosenBacked DEF ClusterInv
      <4>3. Len(<<>>) <= Len(p.ents)
        BY <4>2
      <4>4. p.ents \in S
        OBVIOUS
      <4>5. \A t \in S : Len(t) <= Len(p.ents)
        BY <4>1, <4>3
      <4> HIDE DEF S
      <4> QED BY <4>4, <4>5
    <3> QED BY <3>1, <3>2
  <2>2. ChosenLog = CHOOSE s \in S : \A t \in S : Len(t) <= Len(s)
    BY DEF ChosenLog, Longest
  <2> HIDE DEF S
  <2> QED BY <2>1, <2>2
<1>2. CASE Chosen = {}
  BY <1>1, <1>2
<1>3. CASE Chosen # {}
  <2>1. PICK q \in Chosen : TRUE
    BY <1>3
  <2>2. Len(q.ents) \in Nat /\ Len(q.ents) > 0
    BY <2>1, ChosenBacked DEF ClusterInv
  <2>3. Len(q.ents) <= Len(ChosenLog)
    BY <1>1
  <2>4. ChosenLog # <<>>
    BY <2>2, <2>3
  <2>5. PICK p \in Chosen : p.ents = ChosenLog
    BY <1>1, <2>4
  <2>6. \A k \in Chosen : Len(k.ents) <= Len(p.ents)
    BY <1>1, <2>5
  <2>7. \A k \in Chosen : Heads(k.ents, p.ents)
    BY <2>6, ChosenHeads
  <2> QED BY <2>5, <2>7
<1> QED BY <1>2, <1>3

LEMMA ChosenLogFits ==
    ASSUME IsFiniteSet(Voters), ClusterInv
    PROVE  LogFits(ChosenLog)
<1> DEFINE log == ChosenLog
<1>1. \A p \in Chosen : Heads(p.ents, log)
  BY LongestIs
<1>2. log = <<>> \/ \E p \in Chosen : p.ents = log
  BY LongestIs
<1> HIDE DEF log
<1>3. log \in Seq(Entries)
  <2>1. <<>> \in Seq(Entries)
    OBVIOUS
  <2>2. ASSUME NEW p \in Chosen PROVE log \in Seq(Entries)
    BY <1>1 DEF Heads
  <2> QED BY <1>2, <2>1, <2>2, Zenon
<1>4. ASSUME NEW i \in Server
      PROVE  Heads(node[i].sm, log) /\ Len(node[i].sm) = node[i].applied
  <2> DEFINE es == node[i].log.ents
             a  == node[i].applied
  <2>1. es \in Seq(Entries) /\ Len(es) \in Nat /\ a \in Nat /\ node[i].commit \in Nat
        /\ node[i].sm \in Seq(Entries)
    BY LogTypes DEF ClusterInv, TypeOK, Nodes, Logs
  <2>2. a <= node[i].commit /\ node[i].commit <= Len(es) /\ node[i].sm = SubSeq(es, 1, a)
    BY DEF ClusterInv, CommitInv, CommitsChosen, AppliedCommitted
  <2> HIDE DEF es, a
  <2>3. a <= Len(es)
    BY <2>1, <2>2
  <2>4. Len(node[i].sm) = a /\ \A y \in 1..a : node[i].sm[y] = es[y]
    BY <2>1, <2>2, <2>3
  <2>5. ASSUME NEW x \in 1..a PROVE x \in 1..Len(log) /\ node[i].sm[x] = log[x]
    <3>1. x \in 1..node[i].commit
      BY <2>1, <2>2
    <3>2. PICK p \in Chosen : x \in 1..Len(p.ents) /\ p.ents[x] = es[x]
      BY <3>1, CommittedChosen DEF es
    <3>3. Len(p.ents) \in Nat /\ Len(log) \in Nat /\ Len(p.ents) <= Len(log)
          /\ p.ents[x] = log[x]
      BY <1>1, <1>3, <3>2 DEF Heads
    <3>4. x \in 1..Len(log)
      BY <3>2, <3>3
    <3> QED BY <2>4, <3>2, <3>3, <3>4
  <2>6. a <= Len(log)
    <3>1. Len(log) \in Nat
      BY <1>3
    <3>2. a = 0 \/ a \in 1..a
      BY <2>1
    <3>3. a = 0 \/ a <= Len(log)
      BY <2>1, <2>5, <3>1, <3>2
    <3> QED BY <2>1, <3>1, <3>3
  <2>7. Heads(node[i].sm, log)
    BY <1>3, <2>1, <2>4, <2>5, <2>6 DEF Heads
  <2> QED BY <2>4, <2>7 DEF a
<1>5. ASSUME NEW e \in Promised PROVE \E x \in 1..Len(log) : log[x] = e
  <2>1. PICK i \in Server : e \in node[i].acked
    BY DEF Promised
  <2>2. PICK p \in Chosen : e.index \in 1..Len(p.ents) /\ p.ents[e.index] = e
    BY <2>1 DEF ClusterInv, CommitInv, AppliedCommitted
  <2>3. e.index \in 1..Len(log) /\ log[e.index] = e
    BY <1>1, <1>3, <2>2 DEF Heads
  <2> QED BY <2>3
<1>6. LogFits(log)
  BY <1>1, <1>2, <1>4, <1>5 DEF LogFits
<1> QED BY <1>6 DEF log

LEMMA HeadIsBeginning ==
    ASSUME NEW s, NEW t, Heads(s, t)
    PROVE  s \in ChosenCluster!Beginnings(t) /\ s \in Cluster!Beginnings(t)
<1>1. /\ s \in Seq(Entries) /\ t \in Seq(Entries) /\ Len(s) \in Nat /\ Len(t) \in Nat
      /\ Len(s) <= Len(t) /\ \A x \in 1..Len(s) : s[x] = t[x]
  BY DEF Heads
<1>2. Len(s) \in 0..Len(t)
  BY <1>1
<1>3. s = SubSeq(t, 1, Len(s))
  BY <1>1
<1> QED BY <1>2, <1>3 DEF ChosenCluster!Beginnings, Cluster!Beginnings

LEMMA HeadsTrans ==
    ASSUME NEW s, NEW t, NEW u, Heads(s, t), Heads(t, u)
    PROVE  Heads(s, u)
<1>1. Len(s) \in Nat /\ Len(t) \in Nat /\ Len(u) \in Nat
  BY DEF Heads
<1>2. \A x \in 1..Len(s) : x \in 1..Len(t)
  BY <1>1 DEF Heads
<1> QED BY <1>1, <1>2 DEF Heads

LEMMA InitRefines == Init => ChosenCluster!Init
<1> SUFFICES ASSUME Init PROVE ChosenCluster!Init
  OBVIOUS
<1>1. \A i \in Server : node[i].log.ents = <<>> /\ node[i].sm = <<>> /\ node[i].acked = {}
  <2>1. \A i \in Server : node[i] = Booted(i, EmptyLog, NoSnapshot, 0, {}, {})
    BY DEF Init
  <2>2. NoSnapshot.index = 0 /\ NoSnapshot.sm = <<>> /\ EmptyLog.ents = <<>>
    BY DEF NoSnapshot, EmptyLog
  <2>3. ASSUME NEW i \in Server, NEW n, n = Booted(i, EmptyLog, NoSnapshot, 0, {}, {})
        PROVE  n.log.ents = <<>> /\ n.sm = <<>> /\ n.acked = {}
    BY <2>2, <2>3 DEF Booted
  <2> QED BY <2>1, <2>3
<1>2. Chosen = {}
  <2>1. ASSUME NEW i \in Server PROVE 1..Len(node[i].log.ents) = {}
    BY <1>1
  <2>2. Beginnings = {}
    BY <2>1 DEF Beginnings
  <2> QED BY <2>2 DEF Chosen
<1>3. ChosenLog = <<>>
  BY <1>2 DEF ChosenLog, Longest
<1>4. Promised = {}
  BY <1>1 DEF Promised
<1>5. [i \in Server |-> node[i].sm] = [i \in Server |-> <<>>]
  BY <1>1
<1> QED BY <1>3, <1>4, <1>5 DEF ChosenCluster!Init

\* What a step of node s makes of the chosen log and of a machine that does not start over.
LEMMA StepGrows ==
    ASSUME NEW s, Stepping(s), VotesAsked, CallsFresh, NEW a, NEW b, LogFits(a), LogFits(b)'
    PROVE  /\ Heads(a, b)
           /\ \A r \in Server : node'[r].applied >= node[r].applied => Heads(node[r].sm, node'[r].sm)
<1>0. s \in Server
  BY SteppingOthers
<1>1. /\ \A p \in Chosen' : Heads(p.ents, b)
      /\ \A i \in Server : Heads(node'[i].sm, b) /\ Len(node'[i].sm) = node'[i].applied
  BY DEF LogFits
<1>2. b \in Seq(Entries)
  BY <1>0, <1>1 DEF Heads
<1>3. Heads(a, b)
  <2>1. CASE a = <<>>
    BY <1>2, <2>1 DEF Heads
  <2>2. ASSUME NEW p \in Chosen, p.ents = a PROVE Heads(a, b)
    <3>1. p \in Chosen'
      BY ChosenStays
    <3> QED BY <1>1, <2>2, <3>1
  <2> QED BY <2>1, <2>2 DEF LogFits
<1>4. ASSUME NEW r \in Server, node'[r].applied >= node[r].applied
      PROVE  Heads(node[r].sm, node'[r].sm)
  <2>1. /\ node[r].sm \in Seq(Entries) /\ node'[r].sm \in Seq(Entries)
        /\ Len(node[r].sm) = node[r].applied /\ Len(node'[r].sm) = node'[r].applied
        /\ Len(node[r].sm) \in Nat /\ Len(node'[r].sm) \in Nat
    BY <1>1 DEF LogFits, Heads
  <2>2. Len(node[r].sm) <= Len(node'[r].sm)
    BY <1>4, <2>1
  <2>3. Heads(node[r].sm, a) /\ Heads(node'[r].sm, b)
    BY <1>1 DEF LogFits
  <2>4. ASSUME NEW x \in 1..Len(node[r].sm) PROVE node[r].sm[x] = node'[r].sm[x]
    <3>1. x \in 1..Len(node'[r].sm)
      BY <2>1, <2>2
    <3>2. x \in 1..Len(a)
      BY <2>1, <2>3 DEF Heads
    <3> QED BY <1>3, <2>3, <3>1, <3>2 DEF Heads
  <2> QED BY <2>1, <2>2, <2>4 DEF Heads
<1> QED BY <1>3, <1>4

\* What it makes of them all and of the answers.
LEMMA StepRefines ==
    ASSUME NEW s, Stepping(s), CommitStep(s), VotesAsked, CallsFresh,
           NEW a, a = ChosenLog, NEW b, b = ChosenLog', LogFits(a), LogFits(b)'
    PROVE  ChosenCluster!Next
<1> DEFINE st  == [i \in Server |-> node[i].sm]
           stn == [i \in Server |-> node'[i].sm]
<1>0. /\ s \in Server /\ \A i \in Server : i # s => node'[i] = node[i]
  BY SteppingOthers
<1>1. /\ \A p \in Chosen' : Heads(p.ents, b)
      /\ \A i \in Server : Heads(node'[i].sm, b) /\ Len(node'[i].sm) = node'[i].applied
      /\ \A e \in Promised' : \E x \in 1..Len(b) : b[x] = e
  BY DEF LogFits
<1>2. Heads(a, b)
  BY StepGrows
<1>3. a \in ChosenCluster!Beginnings(b)
  BY <1>2, HeadIsBeginning
<1>4. \A i \in Server : node'[i].sm \in ChosenCluster!Beginnings(b)
  BY <1>1, HeadIsBeginning
<1>5. /\ ChosenCluster!Next <=>
            \/ /\ {a} \cup {stn[r] : r \in Server} \subseteq ChosenCluster!Beginnings(b)
               /\ \A r \in Server : st[r] \in ChosenCluster!Beginnings(stn[r])
               /\ Promised \subseteq Promised'
               /\ \A c \in Promised' : \E x \in 1..Len(b) : b[x] = c
            \/ \E r \in Server :
               /\ a \in ChosenCluster!Beginnings(b)
               /\ stn[r] \in ChosenCluster!Beginnings(st[r])
               /\ \A k \in Server \ {r} : stn[k] = st[k]
               /\ Promised' = Promised
  BY DEF ChosenCluster!Next, ChosenCluster!Advance, ChosenCluster!FallBack
<1>6. CASE /\ node'[s].applied >= node[s].applied
           /\ node[s].acked \subseteq node'[s].acked
  <2>1. ASSUME NEW r \in Server PROVE node[r].sm \in ChosenCluster!Beginnings(node'[r].sm)
    <3>1. node[r].applied \in Nat
      BY SteppingTypes DEF Stepping, TypeOK, Nodes
    <3>2. node'[r].applied >= node[r].applied
      BY <1>0, <1>6, <3>1
    <3> QED BY <3>2, StepGrows, HeadIsBeginning
  <2>2. Promised \subseteq Promised'
    BY <1>0, <1>6 DEF Promised
  <2> QED BY <1>1, <1>3, <1>4, <1>5, <2>1, <2>2
<1>7. CASE node'[s].applied = 0 /\ node'[s].acked = node[s].acked
  <2>1. node'[s].sm = <<>>
    <3>1. node'[s].sm \in Seq(Entries) /\ Len(node'[s].sm) = 0
      BY <1>0, <1>1, <1>7 DEF Heads
    <3> QED BY <3>1
  <2>2. Heads(node'[s].sm, node[s].sm)
    <3>1. node[s].sm \in Seq(Entries)
      BY <1>0 DEF LogFits, Heads
    <3> QED BY <2>1, <3>1 DEF Heads
  <2>3. node'[s].sm \in ChosenCluster!Beginnings(node[s].sm)
    BY <2>2, HeadIsBeginning
  <2>4. Promised' = Promised
    BY <1>0, <1>7 DEF Promised
  <2> QED BY <1>0, <1>3, <1>5, <2>3, <2>4
<1> QED BY <1>6, <1>7 DEF CommitStep

LEMMA NextRefines ==
    ASSUME Ready, ElectionInv, TypeOK', LogInv', ElectionInv', ElectionSafety', MatchInv', CommitInv',
           FixedVoters', Uncompacted', NoBlanks', LogFits(ChosenLog), LogFits(ChosenLog)', [Next]_vars
    PROVE  [ChosenCluster!Next]_(ChosenCluster!vars)
<1>1. CASE Next
  <2>1. PICK s \in Server : Stepping(s) /\ CommitStep(s)
    BY <1>1, NextCommitStep
  <2>2. VotesAsked /\ CallsFresh
    BY DEF Ready, CommitInv
  <2>3. PICK a : a = ChosenLog
    OBVIOUS
  <2>4. PICK b : b = ChosenLog'
    OBVIOUS
  <2>5. LogFits(a) /\ LogFits(b)'
    BY <2>3, <2>4 DEF LogFits
  <2> QED BY <2>1, <2>2, <2>3, <2>4, <2>5, StepRefines
<1>2. CASE UNCHANGED vars
  <2>1. Chosen' = Chosen /\ node' = node
    BY <1>2, SameChosen DEF vars
  <2>2. ChosenLog' = ChosenLog /\ Promised' = Promised
    BY <2>1 DEF ChosenLog, Longest, Promised
  <2> QED BY <2>1, <2>2 DEF ChosenCluster!vars
<1> QED BY <1>1, <1>2

\* The cluster is one replicated log that only grows: elections and truncations take
\* nothing away that a majority has agreed upon, every machine applies it in order, also
\* one that starts over after a crash in the middle of a handler, and proposers are
\* told of nothing else (maybeCommit, applyCommitted, New).
THEOREM ClusterImplementsLog ==
    ASSUME IsFiniteSet(Voters)
    PROVE  Spec /\ []FixedVoters /\ []Uncompacted /\ []NoBlanks => ImplementsThroughCrashes
<1>1. Init => ChosenCluster!Init
  BY InitRefines
<1>2. TypeOK /\ LogInv /\ ElectionInv /\ MatchInv /\ CommitInv => LogFits(ChosenLog)
  BY ChosenLogFits DEF ClusterInv
<1>3. TypeOK /\ ElectionInv => ElectionSafety
  BY InvElectionSafety
<1>4. /\ FixedVoters /\ Uncompacted /\ TypeOK /\ LogInv /\ MatchInv /\ CommitInv /\ ElectionInv
      /\ LogFits(ChosenLog)
      /\ TypeOK' /\ LogInv' /\ ElectionInv' /\ ElectionSafety' /\ MatchInv' /\ CommitInv'
      /\ FixedVoters' /\ Uncompacted' /\ NoBlanks' /\ LogFits(ChosenLog)' /\ [Next]_vars
      => [ChosenCluster!Next]_(ChosenCluster!vars)
  BY NextRefines DEF Ready
<1>5. Spec /\ []FixedVoters /\ []Uncompacted /\ []NoBlanks
         => [](TypeOK /\ LogInv /\ ElectionInv /\ MatchInv /\ CommitInv)
  BY CommitInvariant
<1> QED BY <1>1, <1>2, <1>3, <1>4, <1>5, PTL DEF Spec, ImplementsThroughCrashes, ChosenCluster!Spec

-----------------------------------------------------------------------------
(***************************************************************************)
(* The same without restarts, where the longest machine is the log.        *)
(***************************************************************************)

\* No node has ever been restarted.
NoRestarts == restarts = 0

\* What a node was told is in its machine, as long as no node starts over.
ToldApplied ==
    \A i \in Server : \A e \in node[i].acked : \E x \in 1..Len(node[i].sm) : node[i].sm[x] = e

\* One of the machines has all that the others have.
AgreedFits ==
    /\ \A i \in Server : Heads(node[i].sm, Agreed)
    /\ \E j \in Server : Agreed = node[j].sm

LEMMA AgreedIs ==
    ASSUME Server # {}, NEW log, LogFits(log)
    PROVE  AgreedFits
<1> DEFINE N == {Len(node[i].sm) : i \in Server}
           V == {0}
           f == [v \in V |-> Len(log)]
           Top(j) == \A i \in Server : Len(node[i].sm) <= Len(node[j].sm)
<1>1. \A i \in Server : /\ Heads(node[i].sm, log) /\ node[i].sm \in Seq(Entries)
                        /\ Len(node[i].sm) \in Nat /\ Len(log) \in Nat
                        /\ Len(node[i].sm) <= Len(log)
  BY DEF LogFits, Heads
<1>2. \E j \in Server : Top(j)
  <2>1. N \in SUBSET Nat /\ N # {} /\ f \in [V -> Nat] /\ \A n \in N : \E v \in V : n <= f[v]
    BY <1>1
  <2>2. IsFiniteSet(V)
    BY FS_Singleton
  <2> HIDE DEF V, f
  <2>3. \E n \in N : \A k \in N : k <= n
    <3> HIDE DEF N
    <3> QED BY <2>1, <2>2, LargestNumber
  <2> QED BY <2>3
<1>3. PICK j \in Server : Top(j) /\ Agreed = node[j].sm
  <2>1. Agreed = node[CHOOSE j \in Server : Top(j)].sm
    BY DEF Agreed
  <2> HIDE DEF Top
  <2> QED BY <1>2, <2>1
<1>4. ASSUME NEW i \in Server PROVE Heads(node[i].sm, node[j].sm)
  <2>1. Len(node[i].sm) <= Len(node[j].sm)
    BY <1>3
  <2>2. ASSUME NEW x \in 1..Len(node[i].sm) PROVE node[i].sm[x] = node[j].sm[x]
    <3>1. x \in 1..Len(node[j].sm)
      BY <1>1, <2>1
    <3> QED BY <1>1, <3>1 DEF Heads
  <2> QED BY <1>1, <2>1, <2>2 DEF Heads
<1> QED BY <1>3, <1>4 DEF AgreedFits

LEMMA ToldStep ==
    ASSUME NEW s, Stepping(s), CommitStep(s), VotesAsked, CallsFresh, ToldApplied,
           restarts' = restarts, NEW a, NEW b, LogFits(a), LogFits(b)'
    PROVE  ToldApplied'
<1>0. /\ s \in Server /\ \A i \in Server : i # s => node'[i] = node[i]
  BY SteppingOthers
<1>1. Heads(node[s].sm, node'[s].sm)
  BY <1>0, StepGrows DEF CommitStep
<1>2. ASSUME NEW e \in node'[s].acked
      PROVE  \E x \in 1..Len(node'[s].sm) : node'[s].sm[x] = e
  <2>1. CASE e \in node[s].acked
    <3>1. PICK x \in 1..Len(node[s].sm) : node[s].sm[x] = e
      BY <1>0, <2>1 DEF ToldApplied
    <3>2. x \in 1..Len(node'[s].sm)
      BY <1>1 DEF Heads
    <3> QED BY <1>1, <3>1, <3>2 DEF Heads
  <2>2. ASSUME NEW x \in 1..node'[s].applied, e = node'[s].log.ents[x]
        PROVE  \E y \in 1..Len(node'[s].sm) : node'[s].sm[y] = e
    <3>1. /\ node'[s].sm = SubSeq(node'[s].log.ents, 1, node'[s].applied)
          /\ Len(node'[s].sm) = node'[s].applied
      BY <1>0 DEF CommitStep, Sound, LogFits
    <3>2. node'[s].sm[x] = node'[s].log.ents[x]
      <4>1. node'[s].applied \in Nat /\ node'[s].log.ents \in Seq(Entries)
        BY <1>0, SteppingTypes DEF Nodes, Logs
      <4> QED BY <3>1, <4>1
    <3> QED BY <2>2, <3>1, <3>2
  <2> QED BY <2>1, <2>2 DEF CommitStep
<1> QED BY <1>0, <1>2 DEF ToldApplied

LEMMA QuietStepRefines ==
    ASSUME NEW s, Stepping(s), CommitStep(s), VotesAsked, CallsFresh, ToldApplied',
           AgreedFits, AgreedFits', restarts' = restarts, NEW a, NEW b, LogFits(a), LogFits(b)'
    PROVE  Cluster!Next
<1> DEFINE st  == [i \in Server |-> node[i].sm]
           stn == [i \in Server |-> node'[i].sm]
<1>0. /\ s \in Server /\ \A i \in Server : i # s => node'[i] = node[i]
  BY SteppingOthers
<1>1. \A r \in Server : Heads(node[r].sm, node'[r].sm)
  <2>1. ASSUME NEW r \in Server PROVE node'[r].applied >= node[r].applied
    <3>1. node[r].applied \in Nat
      BY SteppingTypes DEF Stepping, TypeOK, Nodes
    <3> QED BY <1>0, <3>1 DEF CommitStep
  <2> QED BY <2>1, StepGrows
<1>2. PICK g : g = Agreed
  OBVIOUS
<1>3. PICK h : h = Agreed'
  OBVIOUS
<1>4. PICK j \in Server : g = node[j].sm
  BY <1>2 DEF AgreedFits
<1>5. \A i \in Server : Heads(node'[i].sm, h)
  BY <1>3 DEF AgreedFits
<1>6. Heads(g, h)
  BY <1>1, <1>4, <1>5, HeadsTrans
<1>7. {g} \cup {stn[r] : r \in Server} \subseteq Cluster!Beginnings(h)
  BY <1>5, <1>6, HeadIsBeginning
<1>8. \A r \in Server : st[r] \in Cluster!Beginnings(stn[r])
  BY <1>1, HeadIsBeginning
<1>9. Promised \subseteq Promised'
  BY <1>0 DEF CommitStep, Promised
<1>10. ASSUME NEW c \in Promised' PROVE \E x \in 1..Len(h) : h[x] = c
  <2>1. PICK i \in Server : c \in node'[i].acked
    BY DEF Promised
  <2>2. PICK x \in 1..Len(node'[i].sm) : node'[i].sm[x] = c
    BY <2>1 DEF ToldApplied
  <2>3. Heads(node'[i].sm, h)
    BY <1>5
  <2>4. x \in 1..Len(h) /\ h[x] = c
    BY <2>2, <2>3 DEF Heads
  <2> QED BY <2>4
<1> QED BY <1>2, <1>3, <1>7, <1>8, <1>9, <1>10 DEF Cluster!Next, Cluster!Advance

LEMMA QuietNext ==
    ASSUME Ready, ElectionInv, TypeOK', LogInv', ElectionInv', ElectionSafety', MatchInv', CommitInv',
           FixedVoters', Uncompacted', NoBlanks', LogFits(ChosenLog), LogFits(ChosenLog)',
           AgreedFits, AgreedFits', NoRestarts, NoRestarts', ToldApplied, [Next]_vars
    PROVE  ToldApplied' /\ [Cluster!Next]_(Cluster!vars)
<1>1. CASE Next
  <2>1. PICK s \in Server : Stepping(s) /\ CommitStep(s)
    BY <1>1, NextCommitStep
  <2>2. VotesAsked /\ CallsFresh /\ restarts' = restarts
    BY DEF Ready, CommitInv, NoRestarts
  <2>3. PICK a : a = ChosenLog
    OBVIOUS
  <2>4. PICK b : b = ChosenLog'
    OBVIOUS
  <2>5. LogFits(a) /\ LogFits(b)'
    BY <2>3, <2>4 DEF LogFits
  <2>6. ToldApplied'
    BY <2>1, <2>2, <2>5, ToldStep
  <2>7. Cluster!Next
    BY <2>1, <2>2, <2>5, <2>6, QuietStepRefines
  <2> QED BY <2>6, <2>7
<1>2. CASE UNCHANGED vars
  <2>1. node' = node
    BY <1>2 DEF vars
  <2>2. Agreed' = Agreed /\ Promised' = Promised /\ ToldApplied'
    BY <2>1 DEF Agreed, Promised, ToldApplied
  <2> QED BY <2>1, <2>2 DEF Cluster!vars
<1> QED BY <1>1, <1>2

LEMMA InitAgreed == Server # {} /\ Init => ToldApplied /\ Cluster!Init
<1> SUFFICES ASSUME Server # {}, Init PROVE ToldApplied /\ Cluster!Init
  OBVIOUS
<1>1. \A i \in Server : node[i].sm = <<>> /\ node[i].acked = {}
  <2>1. \A i \in Server : node[i] = Booted(i, EmptyLog, NoSnapshot, 0, {}, {})
    BY DEF Init
  <2>2. NoSnapshot.index = 0 /\ NoSnapshot.sm = <<>>
    BY DEF NoSnapshot
  <2>3. ASSUME NEW i \in Server, NEW n, n = Booted(i, EmptyLog, NoSnapshot, 0, {}, {})
        PROVE  n.sm = <<>> /\ n.acked = {}
    BY <2>2, <2>3 DEF Booted
  <2> QED BY <2>1, <2>3
<1>2. Agreed = <<>>
  <2>1. \E j \in Server : \A i \in Server : Len(node[i].sm) <= Len(node[j].sm)
    <3>1. Len(<<>>) <= Len(<<>>)
      OBVIOUS
    <3> QED BY <1>1, <3>1
  <2> QED BY <1>1, <2>1 DEF Agreed
<1>3. Promised = {} /\ ToldApplied
  BY <1>1 DEF Promised, ToldApplied
<1>4. [i \in Server |-> node[i].sm] = [i \in Server |-> <<>>]
  BY <1>1
<1> QED BY <1>2, <1>3, <1>4 DEF Cluster!Init

\* As long as no node starts over, what the longest machine has applied is the log: the
\* others have applied beginnings of it, and whoever was told of an entry, some node has
\* applied it (applyCommitted).
THEOREM MachinesImplementLog ==
    ASSUME IsFiniteSet(Voters), Server # {}
    PROVE  Spec /\ []FixedVoters /\ []Uncompacted /\ []NoBlanks /\ []NoRestarts
              => ImplementsReplicatedLog
<1>1. Init => ToldApplied /\ Cluster!Init
  BY InitAgreed
<1>2. TypeOK /\ LogInv /\ ElectionInv /\ MatchInv /\ CommitInv => LogFits(ChosenLog)
  BY ChosenLogFits DEF ClusterInv
<1>3. LogFits(ChosenLog) => AgreedFits
  <2> SUFFICES ASSUME LogFits(ChosenLog) PROVE AgreedFits
    OBVIOUS
  <2>1. PICK a : a = ChosenLog
    OBVIOUS
  <2>2. LogFits(a)
    BY <2>1
  <2> QED BY <2>2, AgreedIs
<1>4. TypeOK /\ ElectionInv => ElectionSafety
  BY InvElectionSafety
<1>5. /\ FixedVoters /\ Uncompacted /\ TypeOK /\ LogInv /\ MatchInv /\ CommitInv /\ ElectionInv
      /\ LogFits(ChosenLog) /\ AgreedFits /\ NoRestarts /\ ToldApplied
      /\ TypeOK' /\ LogInv' /\ ElectionInv' /\ ElectionSafety' /\ MatchInv' /\ CommitInv'
      /\ FixedVoters' /\ Uncompacted' /\ NoBlanks' /\ LogFits(ChosenLog)' /\ AgreedFits' /\ NoRestarts'
      /\ [Next]_vars
      => ToldApplied' /\ [Cluster!Next]_(Cluster!vars)
  BY QuietNext DEF Ready
<1>6. Spec /\ []FixedVoters /\ []Uncompacted /\ []NoBlanks
         => [](TypeOK /\ LogInv /\ ElectionInv /\ MatchInv /\ CommitInv)
  BY CommitInvariant
<1> QED BY <1>1, <1>2, <1>3, <1>4, <1>5, <1>6, PTL
        DEF Spec, ImplementsReplicatedLog, Cluster!Spec
=============================================================================
