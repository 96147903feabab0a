---------------------------- MODULE MatchProofs ----------------------------
(***************************************************************************)
(* What a leader believes of its followers is true: as long as the voters  *)
(* stay the same, no node has taken a snapshot, and no node is stopped     *)
(* while it serves an AppendEntries call.                                  *)
(***************************************************************************)
EXTENDS RaftProofs

-----------------------------------------------------------------------------
(***************************************************************************)
(* Two logs: where they fork, and what a call copied from one of them      *)
(* makes of the other.  In this section a and b are the logs of a follower *)
(* and of its leader.                                                      *)
(***************************************************************************)
Sorted(log) ==
    \A x, y \in 1..Len(log.ents) : x <= y => log.ents[x].term <= log.ents[y].term

\* Logs that have an entry of the same term at the same place are equal up to there.
Agree(a, b) ==
    \A x \in 1..Len(a.ents) :
        x <= Len(b.ents) /\ a.ents[x].term = b.ents[x].term =>
            \A y \in 1..x : a.ents[y] = b.ents[y]

LEMMA FinitePlaces ==
    ASSUME NEW len \in Nat
    PROVE  IsFiniteSet(1..len)
BY FS_Interval

LEMMA NeighboursSort ==
    ASSUME NEW log \in Logs,
           \A x \in 1..Len(log.ents) : x # 1 => log.ents[x - 1].term <= log.ents[x].term
    PROVE  Sorted(log)
<1> DEFINE e == log.ents
           len == Len(e)
<1>1. e \in Seq(Entries) /\ len \in Nat /\ \A x \in 1..len : e[x].term \in Nat
  BY DEF Logs, Entries
<1> HIDE DEF e, len
<1> SUFFICES ASSUME NEW x \in 1..len, NEW y \in 1..len, x <= y, ~(e[x].term <= e[y].term)
             PROVE  FALSE
  BY DEF Sorted, e, len
<1> DEFINE D == {z \in x..y : e[z].term >= e[x].term}
<1>2. x \in Int /\ y \in Int /\ e[x].term \in Nat
  BY <1>1
<1>3. D \in SUBSET Int /\ D # {} /\ IsFiniteSet(D)
  <2>1. IsFiniteSet(x..y)
    BY <1>2, FS_Interval
  <2>2. x \in D
    BY <1>2
  <2> QED BY <1>2, <2>1, <2>2, FS_Subset
<1>4. PICK z \in D : \A u \in D : u <= z
  BY <1>3, MaxExists
<1>5. z \in x..y /\ e[z].term >= e[x].term /\ z # y
  <2>1. z \in x..y /\ e[z].term >= e[x].term
    OBVIOUS
  <2>2. e[y].term \in Nat
    BY <1>1
  <2> QED BY <1>2, <2>1, <2>2
<1>6. /\ z \in 1..len /\ z + 1 \in 1..len /\ z + 1 \in x..y /\ z + 1 # 1 /\ (z + 1) - 1 = z
      /\ ~(z + 1 <= z)
  BY <1>1, <1>2, <1>5
<1>7. e[z].term <= e[z + 1].term
  BY <1>6 DEF e, len
<1>8. z + 1 \in D
  <2>1. e[z].term \in Nat /\ e[z + 1].term \in Nat
    BY <1>1, <1>6
  <2> QED BY <1>2, <1>5, <1>6, <1>7, <2>1
<1> QED BY <1>4, <1>6, <1>8

\* The beginning of a log is where the log is.
LEMMA BeginsGrows ==
    ASSUME NEW a \in Logs, NEW b \in Logs, NEW c \in Logs, NEW term, Begins(a, b), Longer(b, c, term)
    PROVE  Begins(a, c)
<1>1. Len(a.ents) \in Nat /\ Len(b.ents) \in Nat /\ Len(c.ents) \in Nat
  BY DEF Logs
<1> QED BY <1>1 DEF Begins, Longer

\* A copy stays a copy when the log grows.
LEMMA CopyGrows ==
    ASSUME NEW a \in Logs, NEW b \in Logs, Aligned(a), Aligned(b), NEW term, Longer(a, b, term),
           NEW c, CopyOf(c, a), Len(c.ents) \in Nat
    PROVE  CopyOf(c, b)
<1> DEFINE p == c.prevIndex
           m == Len(c.ents)
           len == Len(a.ents)
           new == Len(b.ents)
<1>1. len \in Nat /\ new \in Nat /\ p \in 0..len /\ p + m <= len /\ m \in Nat /\ len <= new
  BY DEF Logs, CopyOf, Longer
<1>2. /\ \A x \in 1..len : b.ents[x] = a.ents[x]
      /\ \A k \in 1..m : c.ents[k] = a.ents[p + k]
  BY DEF CopyOf, Longer
<1>3. /\ Term(a, p) = IF p \in 1..len THEN a.ents[p].term ELSE 0
      /\ Term(b, p) = IF p \in 1..new THEN b.ents[p].term ELSE 0
  <2>1. p \in Int
    BY <1>1
  <2> QED BY <2>1, AlignedReads
<1> HIDE DEF p, m, len, new
<1>4. Term(a, p) = Term(b, p)
  <2>1. p \in 1..new <=> p \in 1..len
    BY <1>1
  <2> QED BY <1>2, <1>3, <2>1
<1>5. \A k \in 1..m : c.ents[k] = b.ents[p + k]
  <2>1. \A k \in 1..m : p + k \in 1..len
    BY <1>1
  <2> QED BY <1>2, <2>1
<1>6. p \in 0..new /\ p + m <= new
  BY <1>1
<1> QED BY <1>4, <1>5, <1>6 DEF CopyOf, p, m, len, new

\* What the follower's log becomes when it takes the first entries es of a call.
LEMMA TakenBegins ==
    ASSUME NEW a \in Logs, NEW b \in Logs, Aligned(a), Aligned(b), Agree(a, b),
           NEW prev \in Nat, prev <= Len(a.ents), prev <= Len(b.ents),
           prev # 0 => a.ents[prev].term = b.ents[prev].term,
           NEW es \in Seq(Entries), prev + Len(es) <= Len(b.ents),
           \A k \in 1..Len(es) : es[k] = b.ents[prev + k],
           NEW new, Spliced(a, prev, es, new),
           \/ Begins(a, b)
           \/ /\ PastFork(a, b, prev)
              /\ es = <<>> => Len(a.ents) = prev
    PROVE  /\ Begins(new, b)
           /\ prev + Len(es) <= Len(new.ents)
           /\ Begins(a, b) => Len(a.ents) <= Len(new.ents)
<1> DEFINE la == Len(a.ents)
           lb == Len(b.ents)
           m  == Len(es)
<1>1. la \in Nat /\ lb \in Nat /\ m \in Nat /\ prev <= la /\ prev + m <= lb /\ new \in Logs
  BY DEF Logs, Spliced
<1>2. \A y \in 1..prev : a.ents[y] = b.ents[y]
  <2>1. CASE prev = 0
    BY <2>1
  <2>2. CASE prev # 0
    <3>1. prev \in 1..la
      BY <1>1, <2>2
    <3> QED BY <2>2, <3>1 DEF Agree
  <2> QED BY <2>1, <2>2
<1>3. m = 0 => es = <<>>
  OBVIOUS
<1>4. \A k \in 1..m : es[k] = b.ents[prev + k]
  OBVIOUS
<1>5. CASE new = a /\ Kept(a, prev, es)
  <2>1. prev + m <= la /\ \A k \in 1..m : a.ents[prev + k].term = es[k].term
    BY <1>5 DEF Kept
  <2>2. CASE Begins(a, b)
    BY <1>1, <1>5, <2>1, <2>2
  <2>3. CASE ~Begins(a, b)
    <3>1. PastFork(a, b, prev) /\ (es = <<>> => la = prev)
      BY <2>3
    <3>2. m = 0
      <4> SUFFICES ASSUME m # 0 PROVE FALSE
        OBVIOUS
      <4>1. 1 \in 1..m /\ prev + 1 \in 1..la /\ prev + 1 <= lb /\ ~(prev + 1 <= prev)
        BY <1>1, <2>1
      <4>2. a.ents[prev + 1].term = b.ents[prev + 1].term
        BY <1>4, <2>1, <4>1
      <4> QED BY <3>1, <4>1, <4>2 DEF PastFork
    <3>3. la = prev
      BY <1>3, <3>1, <3>2
    <3> QED BY <1>1, <1>2, <2>3, <3>3 DEF Begins
  <2> QED BY <2>2, <2>3
<1>6. ASSUME NEW f \in 1..m, Overwritten(a, prev, es, new, f)
      PROVE  /\ Begins(new, b) /\ prev + m <= Len(new.ents)
             /\ Begins(a, b) => la <= Len(new.ents)
  <2> DEFINE ln == Len(new.ents)
  <2>1. /\ prev + f <= la + 1
        /\ \A k \in 1..f - 1 : a.ents[prev + k].term = es[k].term
        /\ prev + f <= la => a.ents[prev + f].term # es[f].term
        /\ ln = prev + m
        /\ \A x \in 1..(prev + f) - 1 : new.ents[x] = a.ents[x]
        /\ \A k \in f..m : new.ents[prev + k] = es[k]
    BY <1>6 DEF Overwritten
  <2>2. prev + f <= lb /\ prev + f \in 1..lb /\ f \in Nat /\ f >= 1 /\ f <= m
    BY <1>1
  <2>3. \A x \in 1..(prev + f) - 1 : a.ents[x] = b.ents[x]
    <3>1. CASE f = 1
      BY <1>1, <1>2, <3>1
    <3>2. CASE f # 1
      <4> DEFINE z == (prev + f) - 1
      <4>1. f - 1 \in 1..f - 1 /\ f - 1 \in 1..m /\ prev + (f - 1) = z /\ z \in 1..la /\ z <= lb
        BY <1>1, <2>1, <2>2, <3>2
      <4>2. a.ents[z].term = es[f - 1].term /\ es[f - 1] = b.ents[z]
        BY <1>4, <2>1, <4>1
      <4> QED BY <4>1, <4>2 DEF Agree
    <3> QED BY <3>1, <3>2
  <2>4. ASSUME NEW x \in 1..ln PROVE new.ents[x] = b.ents[x]
    <3>1. CASE x <= (prev + f) - 1
      <4>1. x \in 1..(prev + f) - 1
        BY <1>1, <2>2, <3>1
      <4> QED BY <2>1, <2>3, <4>1
    <3>2. CASE ~(x <= (prev + f) - 1)
      <4>1. x - prev \in f..m /\ x - prev \in 1..m /\ prev + (x - prev) = x
        BY <1>1, <2>1, <2>2, <3>2
      <4> QED BY <1>4, <2>1, <4>1
    <3> QED BY <3>1, <3>2
  <2>5. Begins(a, b) => la <= ln
    <3>1. ASSUME Begins(a, b), prev + f <= la PROVE FALSE
      <4>1. prev + f \in 1..la /\ f \in 1..m
        BY <1>1, <2>2, <3>1
      <4>2. a.ents[prev + f] = b.ents[prev + f] /\ es[f] = b.ents[prev + f]
        BY <1>4, <3>1, <4>1 DEF Begins
      <4> QED BY <2>1, <3>1, <4>2
    <3> QED BY <1>1, <2>1, <2>2, <3>1
  <2> QED BY <1>1, <2>1, <2>4, <2>5 DEF Begins
<1>7. (new = a /\ Kept(a, prev, es)) \/ \E f \in 1..m : Overwritten(a, prev, es, new, f)
  BY DEF Spliced
<1> QED BY <1>5, <1>6, <1>7

-----------------------------------------------------------------------------
(***************************************************************************)
(* Where a rejection sends the leader.                                     *)
(***************************************************************************)

\* NextIndex after the rejection m, at a leader with log b.
BackTo(b, m) ==
    LET last == LastIndexOfTerm(b, m.conflictTerm)
    IN  IF m.conflictTerm # 0 /\ last > 0 THEN last + 1 ELSE m.conflictIndex

LEMMA FirstOfTerm ==
    ASSUME NEW a \in Logs, Aligned(a), NEW t \in Nat, t # 0, NEW p \in 1..Len(a.ents),
           a.ents[p].term = t
    PROVE  LET first == FirstIndexOfTerm(a, t)
           IN  first \in 1..Len(a.ents) /\ a.ents[first].term = t
<1> DEFINE len == Len(a.ents)
           X == {x \in a.snapIndex + 1 .. LastIndex(a) : Has(a, x) /\ Term(a, x) = t}
<1>1. len \in Nat /\ a.snapIndex = 0 /\ LastIndex(a) = len
  BY AlignedReads DEF Aligned
<1>2. X = {x \in 1..len : a.ents[x].term = t}
  <2>1. \A x \in 1..len : x \in Int /\ Has(a, x) /\ Term(a, x) = a.ents[x].term
    <3>1. \A x \in 1..len : x \in Int
      BY <1>1
    <3> QED BY <3>1, AlignedReads
  <2>2. a.snapIndex + 1 = 1
    BY <1>1
  <2> QED BY <1>1, <2>1, <2>2
<1>3. FirstIndexOfTerm(a, t) = CHOOSE x \in X : \A y \in X : x <= y
  <2>1. X # {}
    BY <1>2
  <2> QED BY <2>1 DEF FirstIndexOfTerm
<1> HIDE DEF X
<1>4. X \in SUBSET Int /\ X # {} /\ IsFiniteSet(X)
  <2>1. IsFiniteSet(1..len)
    BY <1>1, FinitePlaces
  <2> QED BY <1>1, <1>2, <2>1, FS_Subset
<1>5. \E x \in X : \A y \in X : x <= y
  BY <1>4, MinExists
<1>6. FirstIndexOfTerm(a, t) \in X
  BY <1>3, <1>5
<1> QED BY <1>2, <1>6

LEMMA RejectionReports ==
    ASSUME NEW a \in Logs, NEW b \in Logs, Aligned(a), Aligned(b), NEW m \in AppendCalls,
           CopyOf(m, b), Conflicts(a, m), PastFork(a, b, m.prevIndex), NEW term
    PROVE  Reports(Rejection(a, m, term), a, b)
<1> DEFINE r == Rejection(a, m, term)
           p == m.prevIndex
           t == Term(a, p)
           first == FirstIndexOfTerm(a, t)
           la == Len(a.ents)
           lb == Len(b.ents)
<1>1. la \in Nat /\ lb \in Nat /\ p \in Nat /\ p <= lb /\ LastIndex(a) = la
  BY AlignedReads DEF CopyOf, AppendCalls
<1>2. ASSUME p > la PROVE Reports(r, a, b)
  <2>1. r.conflictTerm = 0 /\ r.conflictIndex = la + 1
    BY <1>1, <1>2 DEF Rejection, AppendReply
  <2> HIDE DEF r
  <2> QED BY <1>1, <2>1 DEF Reports
<1>3. ASSUME ~(p > la) PROVE Reports(r, a, b)
  <2>1. p > 0 /\ ~(KnowsTerm(a, p) /\ t = m.prevTerm)
    BY <1>1, <1>3 DEF Conflicts
  <2>2. p \in 1..la /\ p \in 1..lb /\ p \in Int
    BY <1>1, <1>3, <2>1
  <2>3. KnowsTerm(a, p) /\ t = a.ents[p].term /\ Term(b, p) = b.ents[p].term
    <3>1. p \in 0..la
      BY <2>2
    <3> QED BY <2>2, <3>1, AlignedReads
  <2>4. t \in Nat /\ a.ents[p].term # b.ents[p].term
    <3>1. a.ents[p].term \in Nat
      BY <2>2 DEF Logs, Entries
    <3>2. m.prevTerm = Term(b, p)
      BY DEF CopyOf
    <3> HIDE DEF p, t
    <3> QED BY <2>1, <2>3, <3>1, <3>2
  <2>5. r.conflictTerm = t /\ r.conflictIndex = IF first = 0 THEN p ELSE first
    BY <1>1, <1>3 DEF Rejection, AppendReply
  <2> HIDE DEF r
  <2>6. CASE t = 0
    <3>1. first = la + 1
      BY <1>1, <2>6 DEF FirstIndexOfTerm
    <3>2. r.conflictTerm = 0 /\ r.conflictIndex > la
      BY <1>1, <2>5, <2>6, <3>1
    <3> QED BY <3>2 DEF Reports
  <2>7. CASE t # 0
    <3> HIDE DEF t
    <3>1. first \in 1..la /\ a.ents[first].term = t
      BY <2>2, <2>3, <2>4, <2>7, FirstOfTerm
    <3>2. r.conflictIndex = first /\ r.conflictTerm # 0
      BY <1>1, <2>5, <2>7, <3>1
    <3>3. PastFork(a, b, p - 1)
      <4> SUFFICES ASSUME NEW x \in 1..la, x <= lb, a.ents[x].term = b.ents[x].term
                   PROVE  x <= p - 1
        BY DEF PastFork
      <4>1. x <= p
        BY DEF PastFork
      <4>2. x # p
        BY <2>4
      <4> QED BY <1>1, <4>1, <4>2
    <3> QED BY <2>2, <2>3, <2>5, <3>1, <3>2, <3>3 DEF Reports
  <2> QED BY <2>6, <2>7
<1> QED BY <1>2, <1>3

LEMMA BackToFork ==
    ASSUME NEW a \in Logs, NEW b \in Logs, Aligned(a), Aligned(b), Sorted(a), Sorted(b),
           NEW m \in AppendReplies, Reports(m, a, b)
    PROVE  /\ m.conflictIndex > 0 /\ BackTo(b, m) \in Nat /\ BackTo(b, m) > 0
           /\ PastFork(a, b, BackTo(b, m) - 1)
<1> DEFINE la == Len(a.ents)
           lb == Len(b.ents)
           t  == m.conflictTerm
           c  == m.conflictIndex
           last == LastIndexOfTerm(b, t)
           X == {x \in 1..lb : b.ents[x].term = t /\ \A y \in 1..lb : y > x => b.ents[y].term > t}
<1>1. /\ la \in Nat /\ lb \in Nat /\ t \in Nat /\ c \in Nat
      /\ b.snapIndex = 0 /\ LastIndex(b) = lb
      /\ \A x \in 1..la : a.ents[x].term \in Nat
      /\ \A x \in 1..lb : b.ents[x].term \in Nat
  BY AlignedReads DEF AppendReplies, Aligned, Logs, Entries
<1>2. last = IF X = {} THEN 0 ELSE CHOOSE x \in X : TRUE
  <2> DEFINE Known == {x \in b.snapIndex + 1 .. LastIndex(b) : Has(b, x)}
  <2>1. \A x \in 1..lb : x \in Int /\ Has(b, x) /\ Term(b, x) = b.ents[x].term
    <3>1. \A x \in 1..lb : x \in Int
      BY <1>1
    <3> QED BY <3>1, AlignedReads
  <2>2. b.snapIndex + 1 = 1
    BY <1>1
  <2>3. Known = 1..lb
    BY <1>1, <2>1, <2>2
  <2> DEFINE Y == {x \in Known : Term(b, x) = t /\ \A y \in Known : y > x => Term(b, y) > t}
  <2>4. last = IF Y = {} THEN 0 ELSE CHOOSE x \in Y : TRUE
    BY DEF LastIndexOfTerm
  <2> HIDE DEF Known, last, lb, t
  <2>5. Y = X
    BY <2>1, <2>3
  <2> HIDE DEF X, Y
  <2> QED BY <2>4, <2>5
<1>3. X = {} \/ last \in X
  <2> HIDE DEF X, last
  <2> QED BY <1>2
<1>4. BackTo(b, m) = IF t # 0 /\ last > 0 THEN last + 1 ELSE c
  BY DEF BackTo
<1>5. X = {} => last = 0
  <2> HIDE DEF X, last
  <2> QED BY <1>2
<1> HIDE DEF last
<1>6. CASE t = 0 /\ c > la
  <2>1. BackTo(b, m) = c /\ c > 0
    BY <1>1, <1>4, <1>6
  <2>2. \A x \in 1..la : x <= c - 1
    BY <1>1, <1>6
  <2> QED BY <1>1, <2>1, <2>2 DEF PastFork
<1>7. ASSUME t # 0, c \in 1..la, a.ents[c].term = t,
             NEW p \in 1..la, a.ents[p].term = t, PastFork(a, b, p - 1)
      PROVE  /\ c > 0 /\ BackTo(b, m) \in Nat /\ BackTo(b, m) > 0
             /\ PastFork(a, b, BackTo(b, m) - 1)
  <2>1. CASE X # {}
    <3>1. last \in 1..lb /\ \A y \in 1..lb : y > last => b.ents[y].term > t
      BY <1>3, <2>1
    <3>2. BackTo(b, m) = last + 1
      BY <1>1, <1>4, <1>7, <3>1
    <3>3. ASSUME NEW x \in 1..la, x <= lb, a.ents[x].term = b.ents[x].term, ~(x <= last)
          PROVE  FALSE
      <4>1. x \in 1..lb /\ x > last /\ x <= p - 1 /\ x <= p
        BY <1>1, <1>7, <3>1, <3>3 DEF PastFork
      <4>2. a.ents[x].term <= t
        BY <1>7, <4>1 DEF Sorted
      <4>3. a.ents[x].term > t
        BY <3>1, <3>3, <4>1
      <4> QED BY <1>1, <4>2, <4>3
    <3>4. PastFork(a, b, last)
      BY <3>3 DEF PastFork
    <3>5. BackTo(b, m) \in Nat /\ BackTo(b, m) > 0 /\ BackTo(b, m) - 1 = last
      BY <1>1, <3>1, <3>2
    <3> QED BY <1>1, <1>7, <3>4, <3>5
  <2>2. CASE X = {}
    <3>1. BackTo(b, m) = c /\ c > 0
      BY <1>1, <1>4, <1>5, <1>7, <2>2
    <3>2. ASSUME NEW x \in 1..la, x <= lb, a.ents[x].term = b.ents[x].term, ~(x <= c - 1)
          PROVE  FALSE
      <4>1. x \in 1..lb /\ c <= x /\ x <= p - 1 /\ x <= p
        BY <1>1, <1>7, <3>2 DEF PastFork
      <4> DEFINE D == {z \in 1..lb : b.ents[z].term = t}
      <4>2. a.ents[x].term = t
        <5>1. a.ents[x].term <= t
          BY <1>7, <4>1 DEF Sorted
        <5>2. a.ents[c].term <= a.ents[x].term
          BY <1>7, <4>1 DEF Sorted
        <5> QED BY <1>1, <1>7, <5>1, <5>2
      <4>3. D \in SUBSET Int /\ D # {} /\ IsFiniteSet(D)
        <5>1. IsFiniteSet(1..lb)
          BY <1>1, FinitePlaces
        <5>2. x \in D
          BY <3>2, <4>1, <4>2
        <5>3. D \subseteq 1..lb
          OBVIOUS
        <5> HIDE DEF D, lb
        <5>4. IsFiniteSet(D)
          BY <5>1, <5>3, FS_Subset
        <5> QED BY <1>1, <5>2, <5>3, <5>4
      <4>4. PICK z \in D : \A u \in D : u <= z
        BY <4>3, MaxExists
      <4>5. z \in 1..lb /\ b.ents[z].term = t
        OBVIOUS
      <4>6. ASSUME NEW y \in 1..lb, y > z PROVE b.ents[y].term > t
        <5>1. z <= y /\ ~(y <= z)
          BY <1>1, <4>5, <4>6
        <5>2. y \notin D
          BY <4>4, <5>1
        <5>3. t <= b.ents[y].term
          BY <4>5, <5>1 DEF Sorted
        <5> QED BY <1>1, <5>2, <5>3
      <4> QED BY <2>2, <4>5, <4>6
    <3>3. PastFork(a, b, c - 1)
      BY <3>2 DEF PastFork
    <3> QED BY <1>1, <3>1, <3>3
  <2> QED BY <2>1, <2>2
<1> QED BY <1>6, <1>7 DEF Reports

-----------------------------------------------------------------------------
(***************************************************************************)
(* What a step of node s does, as far as MatchInv is concerned.            *)
(***************************************************************************)

\* The calls a leader starts.
StartsCalls(s) ==
    \A m \in msgs' : m.type = "AppendEntries" =>
        \/ m \in msgs
        \/ /\ role'[s] = "leader"
           /\ m.from = s /\ m.to # s /\ m.term = hs'[s].term
           /\ CopyOf(m, node'[s].log)
           /\ m.ents = <<>> => m.prevIndex > 0 /\ m.prevTerm = m.term

\* Node s has taken the entries es, the first ones or all of call c.
Takes(s, c, es) ==
    /\ c \in AppendsUnderWay /\ c.to = s /\ hs'[s].term = c.term
    /\ ~Conflicts(node[s].log, c)
    /\ es \in Seq(Entries) /\ Len(es) <= Len(c.ents)
    /\ \A k \in 1..Len(es) : es[k] = c.ents[k]
    /\ es = <<>> => c.ents = <<>>
    /\ Spliced(node[s].log, c.prevIndex, es, node'[s].log)

\* Reply r of node s answers call c: too late, by a rejection, or by success.
Answers(s, c, r) ==
    /\ c \in AppendsUnderWay /\ c.to = s
    /\ r.from = s /\ r.to = c.from /\ r.sent = c.term /\ r.term = hs'[s].term
    /\ \/ r.term > r.sent /\ ~r.success
       \/ /\ r.term = r.sent /\ ~r.success
          /\ Conflicts(node[s].log, c) /\ node'[s].log = node[s].log
          /\ \E term \in Nat : r = Rejection(node[s].log, c, term)
       \/ /\ r.term = r.sent /\ Takes(s, c, c.ents)
          /\ r.match = Len(node'[s].log.ents) /\ r.hint = c.prevIndex + 1 + Len(c.ents)

SendsReplies(s) ==
    \A r \in msgs' : r.type = "AppendEntriesReply" =>
        r \in msgs \/ \E c \in msgs : Answers(s, c, r)

\* Leader s calls node j at p or behind it.
CallsFrom(s, j, p) ==
    /\ NextOf(node'[s], j) - 1 >= p
    /\ \A m \in msgs' : m.type = "AppendEntries" /\ m.from = s /\ m.to = j =>
          m \in msgs \/ m.prevIndex >= p

\* What leader s knows of node j: the same as before, or as a reply of j says.
Keeps(s, j) ==
    /\ node'[s].match[j] = node[s].match[j]
    /\ CallsFrom(s, j, NextOf(node[s], j) - 1)

Advances(s, j) ==
    \E m \in Replies(s, j) :
        /\ m.success /\ m.term <= hs[s].term
        /\ node'[s].match[j] \in {m.match, m.hint - 1, node[s].match[j]}

BacksUp(s, j) ==
    \E m \in Replies(s, j) :
        /\ ~m.success /\ m.term <= hs[s].term
        /\ node'[s].match[j] = node[s].match[j]
        /\ m.conflictIndex > 0 => CallsFrom(s, j, BackTo(node[s].log, m) - 1)

Leads(s) ==
    /\ Len(node'[s].log.ents) > 0
    /\ node'[s].log.ents[Len(node'[s].log.ents)].term = hs'[s].term
    /\ node'[s].match[s] <= Len(node'[s].log.ents)
    /\ \A j \in Server : j # s =>
          IF role[s] = "leader" /\ hs'[s].term = hs[s].term
          THEN Keeps(s, j) \/ Advances(s, j) \/ BacksUp(s, j)
          ELSE node'[s].match[j] = 0 /\ CallsFrom(s, j, Len(node[s].log.ents))

Follows(s) == node'[s].log = node[s].log \/ \E c \in msgs : \E es : Takes(s, c, es)

MatchStep(s) ==
    /\ LogStep(s)
    /\ StartsCalls(s)
    /\ SendsReplies(s)
    /\ role'[s] = "leader" => Leads(s)
    /\ role'[s] # "leader" => Follows(s)

\* The types of what such a step looks at.
LEMMA StepTypes ==
    ASSUME TypeOK, TypeOK', LogInv, LogInv', NEW i \in Server
    PROVE  /\ node[i] \in Nodes /\ node[i].log \in Logs /\ Aligned(node[i].log)
           /\ node'[i] \in Nodes /\ node'[i].log \in Logs /\ Aligned(node'[i].log)
           /\ Len(node[i].log.ents) \in Nat /\ Len(node'[i].log.ents) \in Nat
           /\ hs[i].term \in Nat /\ hs'[i].term \in Nat
           /\ \A x \in 1..Len(node[i].log.ents) : node[i].log.ents[x].term \in Nat
           /\ \A x \in 1..Len(node'[i].log.ents) : node'[i].log.ents[x].term \in Nat
<1>1. node[i] \in Nodes /\ node'[i] \in Nodes /\ hs[i].term \in Nat /\ hs'[i].term \in Nat
  BY DEF TypeOK
<1>2. Aligned(node[i].log) /\ Aligned(node'[i].log)
  BY DEF LogInv, LogsPlain
<1>3. node[i].log \in Logs /\ node'[i].log \in Logs
  BY <1>1 DEF Nodes
<1>4. \A log \in Logs : Len(log.ents) \in Nat /\ \A x \in 1..Len(log.ents) : log.ents[x].term \in Nat
  BY DEF Logs, Entries
<1> QED BY <1>1, <1>2, <1>3, <1>4

LEMMA CallTypes ==
    ASSUME TypeOK, NEW m \in AppendsUnderWay
    PROVE  /\ m \in AppendCalls /\ m \in msgs /\ m.type = "AppendEntries"
           /\ m.from \in Server /\ m.to \in Server /\ m.term \in Nat
           /\ m.prevIndex \in Nat /\ m.prevTerm \in Nat
           /\ m.ents \in Seq(Entries) /\ Len(m.ents) \in Nat
           /\ \A k \in 1..Len(m.ents) : m.ents[k].term \in Nat
<1>1. m \in AppendCalls
  BY MessageFields DEF TypeOK, AppendsUnderWay
<1>2. \A es \in Seq(Entries) : Len(es) \in Nat /\ \A k \in 1..Len(es) : es[k].term \in Nat
  BY DEF Entries
<1> QED BY <1>1, <1>2 DEF AppendCalls, AppendsUnderWay

LEMMA TermsStep ==
    ASSUME TypeOK, TypeOK', LogInv, LogInv', TermsOrdered, NEW s \in Server, MatchStep(s)
    PROVE  TermsOrdered'
<1> DEFINE a == node[s].log
           b == node'[s].log
<1>0. LogStep(s) /\ \A j \in Server : j # s => hs'[j] = hs[j] /\ node'[j] = node[j]
  BY DEF MatchStep, LogStep
<1>1. /\ a \in Logs /\ b \in Logs /\ Len(a.ents) \in Nat /\ Len(b.ents) \in Nat
      /\ hs[s].term \in Nat /\ hs'[s].term \in Nat /\ hs'[s].term >= hs[s].term
      /\ \A x \in 1..Len(a.ents) : a.ents[x].term \in Nat
      /\ \A x \in 1..Len(b.ents) : b.ents[x].term \in Nat
  BY StepTypes DEF MatchStep, LogStep
<1>2. \A x \in 1..Len(a.ents) : a.ents[x].term <= hs[s].term
  BY DEF TermsOrdered
<1>3. ASSUME Longer(a, b, hs'[s].term), NEW x \in 1..Len(b.ents) PROVE b.ents[x].term <= hs'[s].term
  <2>1. CASE x <= Len(a.ents)
    <3>1. x \in 1..Len(a.ents)
      BY <1>1, <2>1
    <3>2. b.ents[x] = a.ents[x] /\ a.ents[x].term <= hs[s].term
      BY <1>2, <1>3, <3>1 DEF Longer
    <3> QED BY <1>1, <3>1, <3>2
  <2>2. CASE ~(x <= Len(a.ents))
    <3>1. x \in Len(a.ents) + 1 .. Len(b.ents)
      BY <1>1, <2>2
    <3> QED BY <1>1, <1>3, <3>1 DEF Longer
  <2> QED BY <2>1, <2>2
<1>4. ASSUME NEW l \in Links' PROVE l.before <= l.entry.term
  <2>1. CASE l \in Links
    BY <2>1 DEF TermsOrdered
  <2>2. ASSUME Longer(a, b, hs'[s].term), l.entry.term = hs'[s].term,
               l.entry.index \in Len(a.ents) + 1 .. Len(b.ents), l = LogLink(b, l.entry.index)
        PROVE  l.before <= l.entry.term
    <3> DEFINE x == l.entry.index
    <3>1. l.before = IF x = 1 THEN 0 ELSE b.ents[x - 1].term
      BY <2>2 DEF LogLink, LinkOf
    <3>2. x # 1 => x - 1 \in 1..Len(b.ents)
      BY <1>1, <2>2
    <3> HIDE DEF x
    <3>3. x # 1 => b.ents[x - 1].term <= hs'[s].term
      BY <1>3, <2>2, <3>2
    <3> QED BY <1>1, <2>2, <3>1, <3>3
  <2> QED BY <1>0, <2>1, <2>2, LinksGrow
<1>5. ASSUME NEW j \in Server, NEW x \in 1..Len(node'[j].log.ents)
      PROVE  node'[j].log.ents[x].term <= hs'[j].term
  <2>1. CASE j # s
    BY <1>0, <2>1 DEF TermsOrdered
  <2>2. CASE j = s /\ role'[s] = "leader"
    BY <1>3, <2>2 DEF MatchStep, LogStep, Continues
  <2>3. CASE j = s /\ b = a
    BY <1>1, <1>2, <2>3
  <2>4. ASSUME j = s, NEW c, NEW es, Takes(s, c, es) PROVE b.ents[x].term <= hs'[s].term
    <3>1. /\ c \in AppendsUnderWay /\ c.term = hs'[s].term /\ Spliced(a, c.prevIndex, es, b)
          /\ \A k \in 1..Len(es) : es[k] = c.ents[k]
          /\ Len(es) \in Nat /\ Len(es) <= Len(c.ents)
      BY <2>4 DEF Takes
    <3>2. Len(c.ents) \in Nat /\ \A k \in 1..Len(c.ents) : c.ents[k].term <= c.term
      BY <3>1, CallTypes DEF TermsOrdered
    <3>3. CASE x \in 1..Len(a.ents) /\ LogLink(b, x) = LogLink(a, x)
      <4>1. b.ents[x] = a.ents[x]
        BY <3>3 DEF LogLink, LinkOf
      <4> QED BY <1>1, <1>2, <3>3, <4>1
    <3>4. ASSUME NEW k \in 1..Len(es), LogLink(b, x) = LinkOf(es[k], Before(a, c.prevIndex, es, k))
          PROVE  b.ents[x].term <= hs'[s].term
      <4>1. b.ents[x] = es[k]
        BY <3>4 DEF LogLink, LinkOf
      <4>2. k \in 1..Len(c.ents)
        BY <3>1, <3>2
      <4> QED BY <3>1, <3>2, <4>1, <4>2
    <3> QED BY <2>4, <3>1, <3>3, <3>4 DEF Spliced
  <2> QED BY <2>1, <2>2, <2>3, <2>4 DEF MatchStep, Follows
<1>6. ASSUME NEW m \in AppendsUnderWay', NEW k \in 1..Len(m.ents) PROVE m.ents[k].term <= m.term
  <2>1. CASE m \in msgs
    BY <2>1 DEF TermsOrdered, AppendsUnderWay
  <2>2. CASE m \notin msgs
    <3>1. role'[s] = "leader" /\ m.term = hs'[s].term /\ CopyOf(m, b)
      BY <2>2 DEF MatchStep, StartsCalls, AppendsUnderWay
    <3>2. m \in AppendCalls
      BY MessageFields DEF TypeOK, AppendsUnderWay
    <3>3. /\ Len(m.ents) \in Nat /\ m.prevIndex \in Nat
      BY <3>2 DEF AppendCalls
    <3>4. m.ents[k] = b.ents[m.prevIndex + k] /\ m.prevIndex + k \in 1..Len(b.ents)
      BY <1>1, <3>1, <3>3 DEF CopyOf
    <3> QED BY <1>5, <3>1, <3>4
  <2> QED BY <2>1, <2>2
<1> QED BY <1>4, <1>5, <1>6 DEF TermsOrdered

LEMMA CallsStep ==
    ASSUME TypeOK, TypeOK', CallsElected, ElectionInv', NEW s \in Server, MatchStep(s)
    PROVE  CallsElected'
<1>1. /\ \A j \in Server : j # s => hs'[j] = hs[j] /\ role'[j] = role[j]
      /\ hs'[s].term >= hs[s].term /\ granted \subseteq granted' /\ RoleStep(s)
      /\ \A j \in Server : hs[j].term \in Nat /\ hs'[j].term \in Nat
  BY DEF MatchStep, LogStep, TypeOK
<1> SUFFICES ASSUME NEW m \in AppendsUnderWay'
             PROVE  /\ m.from # m.to
                    /\ m.ents = <<>> => m.prevIndex > 0 /\ m.prevTerm = m.term
                    /\ hs'[m.from].term >= m.term
                    /\ hs'[m.from].term = m.term => role'[m.from] # "candidate"
                    /\ \E Q \in SUBSET Voters :
                          /\ Cardinality(Q) > Cardinality(Voters) \div 2
                          /\ \A v \in Q : Vote(v, m.term, m.from) \in granted'
  BY DEF CallsElected
<1>2. m \in msgs' /\ m.type = "AppendEntries" /\ m.from \in Server /\ m.term \in Nat
  BY MessageFields DEF AppendsUnderWay, TypeOK
<1>3. CASE m \in msgs
  <2>1. /\ m.from # m.to
        /\ m.ents = <<>> => m.prevIndex > 0 /\ m.prevTerm = m.term
        /\ hs[m.from].term >= m.term
        /\ hs[m.from].term = m.term => role[m.from] # "candidate"
        /\ \E Q \in SUBSET Voters :
              /\ Cardinality(Q) > Cardinality(Voters) \div 2
              /\ \A v \in Q : Vote(v, m.term, m.from) \in granted
    BY <1>2, <1>3 DEF CallsElected, AppendsUnderWay
  <2>2. hs'[m.from].term >= m.term
    BY <1>1, <1>2, <2>1
  <2>3. ASSUME hs'[m.from].term = m.term PROVE role'[m.from] # "candidate"
    <3>1. hs[m.from].term = m.term /\ role[m.from] # "candidate"
      BY <1>1, <1>2, <2>1, <2>3
    <3> QED BY <1>1, <1>2, <2>3, <3>1 DEF RoleStep
  <2> QED BY <1>1, <2>1, <2>2, <2>3
<1>4. CASE m \notin msgs
  <2>1. /\ role'[s] = "leader"
        /\ m.from = s /\ m.to # s /\ m.term = hs'[s].term
        /\ m.ents = <<>> => m.prevIndex > 0 /\ m.prevTerm = m.term
    BY <1>2, <1>4 DEF MatchStep, StartsCalls
  <2>2. votes'[s] \in SUBSET Voters
    BY <2>1 DEF ElectionInv, VotesGenuine
  <2>3. /\ Cardinality(votes'[s]) > Cardinality(Voters) \div 2
        /\ \A v \in votes'[s] : Vote(v, m.term, m.from) \in granted'
    BY <2>1 DEF ElectionInv, VotesGenuine, LeadersElected
  <2>4. hs'[m.from].term >= m.term
    BY <1>1, <2>1
  <2> QED BY <2>1, <2>2, <2>3, <2>4
<1> QED BY <1>3, <1>4

LEMMA RepliesStep ==
    ASSUME TypeOK, TypeOK', CallsElected, RepliesCurrent, NEW s \in Server, MatchStep(s)
    PROVE  RepliesCurrent'
<1> SUFFICES ASSUME NEW r \in msgs', r.type = "AppendEntriesReply"
             PROVE  r.from # r.to /\ r.term >= r.sent /\ (r.success => r.term = r.sent)
  BY DEF RepliesCurrent
<1>1. CASE r \in msgs
  BY <1>1 DEF RepliesCurrent
<1>2. ASSUME NEW c \in msgs, Answers(s, c, r)
      PROVE  r.from # r.to /\ r.term >= r.sent /\ (r.success => r.term = r.sent)
  <2>1. c.from # c.to
    BY <1>2 DEF Answers, CallsElected
  <2>2. r \in AppendReplies
    BY MessageFields DEF TypeOK
  <2>3. r.term \in Nat /\ r.sent \in Nat /\ r.from # r.to
    BY <1>2, <2>1, <2>2 DEF Answers, AppendReplies
  <2> QED BY <1>2, <2>3 DEF Answers
<1> QED BY <1>1, <1>2 DEF MatchStep, SendsReplies

\* A node that has just been elected has called nobody, and nobody has replied.
LEMMA FreshLeader ==
    ASSUME TypeOK, TypeOK', LogInv, CallsElected, NEW s \in Server, MatchStep(s),
           role'[s] = "leader", ~(role[s] = "leader" /\ hs'[s].term = hs[s].term)
    PROVE  /\ \A m \in AppendsUnderWay : ~(m.from = s /\ m.term = hs'[s].term)
           /\ \A m \in msgs' : m.type = "AppendEntriesReply" /\ m.to = s => m \notin msgs
<1>1. /\ hs'[s].term >= hs[s].term /\ hs[s].term \in Nat /\ hs'[s].term \in Nat
      /\ RoleStep(s) /\ NoTransfers'
  BY DEF MatchStep, LogStep, TypeOK
<1>2. ASSUME NEW m \in AppendsUnderWay, m.from = s, m.term = hs'[s].term PROVE FALSE
  <2>1. hs[s].term >= m.term /\ (hs[s].term = m.term => role[s] # "candidate")
    BY <1>2 DEF CallsElected
  <2>2. hs[s].term = hs'[s].term
    BY <1>1, <1>2, <2>1
  <2> QED BY <1>1, <1>2, <2>1, <2>2 DEF RoleStep
<1>3. ASSUME NEW m \in msgs', m.type = "AppendEntriesReply", m.to = s, m \in msgs PROVE FALSE
  <2>1. hs[s].term = m.sent /\ role[s] = "leader"
    BY <1>3 DEF LogInv, NoTransfers
  <2>2. hs'[s].term = m.sent
    BY <1>1, <1>3 DEF NoTransfers
  <2> QED BY <2>1, <2>2
<1> QED BY <1>2, <1>3

LEMMA LeadersStep ==
    ASSUME TypeOK, TypeOK', LogInv, LogInv', ElectionInv', ElectionSafety', IsFiniteSet(Voters),
           CallsElected, LeadersHold, NEW s \in Server, MatchStep(s)
    PROVE  LeadersHold'
<1> DEFINE Holds(i, log, L, C) ==
               /\ Len(log.ents) > 0 /\ log.ents[Len(log.ents)].term = hs'[i].term
               /\ node'[i].match[i] <= Len(log.ents)
               /\ \A l \in L : l.entry.term = hs'[i].term =>
                     \E x \in 1..Len(log.ents) : l = LogLink(log, x)
               /\ \A m \in C : m.from = i /\ m.term = hs'[i].term => CopyOf(m, log)
<1>0. LogStep(s)
  BY DEF MatchStep
<1>1. /\ \A j \in Server : j # s => hs'[j] = hs[j] /\ role'[j] = role[j] /\ node'[j] = node[j]
      /\ hs'[s].term >= hs[s].term
  BY <1>0 DEF LogStep
<1>2. ASSUME NEW i \in Server, role'[i] = "leader", i # s
      PROVE  Holds(i, node'[i].log, Links', AppendsUnderWay')
  <2>1. role[i] = "leader" /\ hs'[i] = hs[i] /\ node'[i] = node[i]
    BY <1>1, <1>2
  <2>2. Holds(i, node[i].log, Links, AppendsUnderWay)
    BY <2>1 DEF LeadersHold
  <2>3. \A l \in Links' : l.entry.term = hs'[i].term => l \in Links
    BY <1>0, <1>2, LinksGrow DEF ElectionSafety
  <2>4. \A m \in AppendsUnderWay' : m.from = i => m \in AppendsUnderWay
    BY <1>2 DEF MatchStep, StartsCalls, AppendsUnderWay
  <2> QED BY <2>1, <2>2, <2>3, <2>4
<1>3. ASSUME role'[s] = "leader" PROVE Holds(s, node'[s].log, Links', AppendsUnderWay')
  <2> DEFINE a == node[s].log
             b == node'[s].log
             T == hs'[s].term
  <2>1. Longer(a, b, T)
    BY <1>3, <1>0 DEF LogStep, Continues
  <2>2. /\ a \in Logs /\ b \in Logs /\ Aligned(a) /\ Aligned(b)
        /\ Len(a.ents) \in Nat /\ Len(b.ents) \in Nat /\ Len(a.ents) <= Len(b.ents)
    BY <2>1, StepTypes DEF Longer
  <2>3. Len(b.ents) > 0 /\ b.ents[Len(b.ents)].term = T /\ node'[s].match[s] <= Len(b.ents)
    BY <1>3 DEF MatchStep, Leads
  <2>4. ASSUME NEW l \in Links', l.entry.term = T PROVE \E x \in 1..Len(b.ents) : l = LogLink(b, x)
    <3>1. CASE l \in Links
      <4>1. role[s] = "leader" /\ T = hs[s].term
        BY <1>0, <1>3, <2>4, <3>1, NewLeader
      <4>2. PICK x \in 1..Len(a.ents) : l = LogLink(a, x)
        BY <2>4, <3>1, <4>1 DEF LeadersHold
      <4>3. x \in 1..Len(b.ents) /\ LogLink(b, x) = LogLink(a, x)
        <5>1. x # 1 => x - 1 \in 1..Len(a.ents)
          BY <2>2
        <5>2. x \in 1..Len(b.ents) /\ \A y \in 1..Len(a.ents) : b.ents[y] = a.ents[y]
          BY <2>1, <2>2 DEF Longer
        <5>3. b.ents[x] = a.ents[x] /\ (x # 1 => b.ents[x - 1] = a.ents[x - 1])
          BY <5>1, <5>2
        <5> HIDE DEF a, b
        <5> QED BY <5>2, <5>3 DEF LogLink
      <4> QED BY <4>2, <4>3
    <3>2. ASSUME l.entry.index \in Len(a.ents) + 1 .. Len(b.ents), l = LogLink(b, l.entry.index)
          PROVE  \E x \in 1..Len(b.ents) : l = LogLink(b, x)
      <4>1. l.entry.index \in 1..Len(b.ents)
        BY <2>2, <3>2
      <4> QED BY <3>2, <4>1
    <3> QED BY <1>0, <3>1, <3>2, LinksGrow
  <2>5. ASSUME NEW m \in AppendsUnderWay', m.from = s, m.term = T PROVE CopyOf(m, b)
    <3>1. CASE m \in msgs
      <4>1. m \in AppendsUnderWay /\ role[s] = "leader" /\ T = hs[s].term
        BY <1>3, <2>5, <3>1, FreshLeader DEF AppendsUnderWay
      <4>2. CopyOf(m, a) /\ Len(m.ents) \in Nat
        BY <2>5, <4>1, CallTypes DEF LeadersHold
      <4> QED BY <2>1, <2>2, <4>2, CopyGrows
    <3> QED BY <2>5, <3>1 DEF MatchStep, StartsCalls, AppendsUnderWay
  <2> QED BY <2>3, <2>4, <2>5
<1>4. \A i \in Server : role'[i] = "leader" => Holds(i, node'[i].log, Links', AppendsUnderWay')
  BY <1>2, <1>3
<1> QED BY <1>4 DEF LeadersHold

-----------------------------------------------------------------------------
(***************************************************************************)
(* What a leader i knows of a node j, after a step of i.                   *)
(***************************************************************************)

\* An entry of a leader's term is in the leader's log.
LEMMA LeaderHas ==
    ASSUME TypeOK, LogInv, LeadersHold, NEW i \in Server, role[i] = "leader", NEW j \in Server,
           NEW x \in 1..Len(node[j].log.ents), node[j].log.ents[x].term = hs[i].term
    PROVE  x <= Len(node[i].log.ents) /\ node[i].log.ents[x].term = hs[i].term
<1> DEFINE a == node[j].log
           b == node[i].log
           l == LogLink(a, x)
<1>1. l \in Links /\ l.entry = a.ents[x] /\ l.entry.index = x /\ l.entry.term = hs[i].term
  BY LogLinks DEF LogInv, LogsPlain, Aligned, LogLink, LinkOf
<1>2. PICK y \in 1..Len(b.ents) : l = LogLink(b, y)
  BY <1>1 DEF LeadersHold
<1>3. l.entry = b.ents[y] /\ b.ents[y].index = y
  BY <1>2 DEF LogInv, LogsPlain, Aligned, LogLink, LinkOf
<1>4. x = y
  BY <1>1, <1>3
<1> QED BY <1>1, <1>3, <1>4

LEMMA PastForkTrans ==
    ASSUME NEW a \in Logs, NEW b, NEW p \in Int, NEW q \in Int, p <= q, PastFork(a, b, p)
    PROVE  PastFork(a, b, q)
<1>1. Len(a.ents) \in Nat
  BY DEF Logs
<1> QED BY <1>1 DEF PastFork

LEMMA PastOlderTrans ==
    ASSUME NEW a \in Logs, NEW term, NEW p \in Int, NEW q \in Int, p <= q, PastOlder(a, term, p)
    PROVE  PastOlder(a, term, q)
<1>1. Len(a.ents) \in Nat
  BY DEF Logs
<1> QED BY <1>1 DEF PastOlder

\* The positions of calls are numbers.
LEMMA SentTypes ==
    ASSUME TypeOK, NEW i \in Server, NEW j \in Server
    PROVE  Sent(i, j) \subseteq Int
<1>1. NextOf(node[i], j) - 1 \in Int
  BY NextOfType DEF TypeOK
<1>2. \A m \in AppendsUnderWay : m.prevIndex \in Int
  BY CallTypes
<1> QED BY <1>1, <1>2 DEF Sent

\* Where s calls j after its step: where it did, or at p or behind it.
LEMMA SentStep ==
    ASSUME TypeOK, TypeOK', NEW s \in Server, NEW j \in Server,
           hs'[s].term = hs[s].term \/ \A m \in AppendsUnderWay : ~(m.from = s /\ m.term = hs'[s].term),
           NEW p \in Int, CallsFrom(s, j, p), NEW q \in Sent(s, j)'
    PROVE  q \in Int /\ (q >= p \/ (q \in Sent(s, j) /\ hs'[s].term = hs[s].term))
<1>1. Sent(s, j)' \subseteq Int
  <2>1. NextOf(node'[s], j) - 1 \in Int
    BY NextOfType DEF TypeOK
  <2>2. \A m \in AppendsUnderWay' : m.prevIndex \in Int
    <3> SUFFICES ASSUME NEW m \in AppendsUnderWay' PROVE m.prevIndex \in Int
      OBVIOUS
    <3>1. m \in AppendCalls
      BY MessageFields DEF TypeOK, AppendsUnderWay
    <3> QED BY <3>1 DEF AppendCalls
  <2> QED BY <2>1, <2>2 DEF Sent
<1>2. CASE q = NextOf(node'[s], j) - 1
  BY <1>1, <1>2 DEF CallsFrom
<1>3. ASSUME NEW m \in AppendsUnderWay', m.from = s, m.to = j, m.term = hs'[s].term, q = m.prevIndex
      PROVE  q >= p \/ (q \in Sent(s, j) /\ hs'[s].term = hs[s].term)
  <2>1. CASE m \in msgs
    <3>1. m \in AppendsUnderWay /\ hs'[s].term = hs[s].term
      BY <1>3, <2>1 DEF AppendsUnderWay
    <3> QED BY <1>3, <3>1 DEF Sent
  <2>2. CASE m \notin msgs
    BY <1>3, <2>2 DEF CallsFrom, AppendsUnderWay
  <2> QED BY <2>1, <2>2
<1> QED BY <1>1, <1>2, <1>3 DEF Sent

\* Only s sends replies.
LEMMA RepliesShrink ==
    ASSUME NEW s \in Server, MatchStep(s), NEW i \in Server, NEW j \in Server, j # s
    PROVE  Replies(i, j)' \subseteq Replies(i, j)
BY DEF MatchStep, SendsReplies, Answers, Replies

LEMMA ElectedProgress ==
    ASSUME TypeOK, TypeOK', LogInv, LogInv', ElectionInv', IsFiniteSet(Voters), CallsElected,
           NEW s \in Server, MatchStep(s), role'[s] = "leader",
           ~(role[s] = "leader" /\ hs'[s].term = hs[s].term),
           NEW j \in Server, j # s
    PROVE  Unreached(s, j)' /\ (hs'[j].term = hs'[s].term => Forked(s, j)')
<1> DEFINE a == node[s].log
           b == node'[s].log
           T == hs'[s].term
           la == Len(a.ents)
<1>0. LogStep(s) /\ node'[j] = node[j] /\ Longer(a, b, T)
  BY DEF MatchStep, LogStep, Continues
<1>1. /\ a \in Logs /\ b \in Logs /\ la \in Nat /\ Len(b.ents) \in Nat /\ T \in Nat
      /\ node[j].log \in Logs /\ Len(node[j].log.ents) \in Nat
  BY StepTypes
<1>2. node'[s].match[j] = 0 /\ CallsFrom(s, j, la)
  BY DEF MatchStep, Leads
<1>3. Replies(s, j)' = {}
  BY RepliesShrink, FreshLeader DEF Replies
<1>4. \A q \in Sent(s, j)' : q \in Int /\ q >= la
  <2>1. \A m \in AppendsUnderWay : ~(m.from = s /\ m.term = hs'[s].term)
    BY FreshLeader
  <2>2. \A q \in Sent(s, j)' : ~(q \in Sent(s, j) /\ hs'[s].term = hs[s].term) \/ q >= la
    <3> SUFFICES ASSUME NEW q \in Sent(s, j)', q \in Sent(s, j), hs'[s].term = hs[s].term, ~(q >= la)
                 PROVE  FALSE
      OBVIOUS
    <3>1. CASE q = NextOf(node'[s], j) - 1
      BY <1>2, <3>1 DEF CallsFrom
    <3>2. ASSUME NEW m \in AppendsUnderWay', m.from = s, m.to = j, m.term = T, q = m.prevIndex
          PROVE  FALSE
      <4>1. m \notin msgs
        BY <2>1, <3>2 DEF AppendsUnderWay
      <4> QED BY <1>2, <3>2, <4>1 DEF CallsFrom, AppendsUnderWay
    <3> QED BY <3>1, <3>2 DEF Sent
  <2> QED BY <1>1, <1>2, <2>1, <2>2, SentStep
<1>5. \A q \in Sent(s, j)' : PastOlder(b, T, q)
  <2> SUFFICES ASSUME NEW q \in Sent(s, j)', NEW x \in 1..Len(b.ents), b.ents[x].term < T
               PROVE  x <= q
    BY DEF PastOlder
  <2>1. x <= la
    <3>1. CASE x \in la + 1 .. Len(b.ents)
      <4>1. b.ents[x].term = T
        BY <1>0, <3>1 DEF Longer
      <4> QED BY <1>1, <4>1
    <3> QED BY <1>1, <3>1
  <2> QED BY <1>1, <1>4, <2>1
<1>6. Unreached(s, j)'
  BY <1>2, <1>3, <1>5 DEF Unreached
<1>7. \A q \in Sent(s, j)' : PastFork(node[j].log, b, q)
  <2> SUFFICES ASSUME NEW q \in Sent(s, j)', NEW x \in 1..Len(node[j].log.ents),
                      x <= Len(b.ents), node[j].log.ents[x].term = b.ents[x].term, ~(x <= q)
               PROVE  FALSE
    BY DEF PastFork
  <2>1. x \in la + 1 .. Len(b.ents)
    BY <1>1, <1>4
  <2>2. node[j].log.ents[x].term = T
    BY <1>0, <2>1 DEF Longer
  <2>3. LogLink(node[j].log, x) \in Links /\ LogLink(node[j].log, x).entry.term = T
    BY <2>2, LogLinks DEF LogLink, LinkOf
  <2> QED BY <1>0, <2>3, NewLeader
<1>8. Forked(s, j)'
  BY <1>0, <1>2, <1>3, <1>7 DEF Forked
<1> QED BY <1>6, <1>8

LEMMA LogsSorted ==
    ASSUME TypeOK, LogInv, TermsOrdered, NEW i \in Server
    PROVE  Sorted(node[i].log)
<1> DEFINE a == node[i].log
<1>1. a \in Logs
  BY DEF TypeOK, Nodes
<1>2. ASSUME NEW x \in 1..Len(a.ents), x # 1 PROVE a.ents[x - 1].term <= a.ents[x].term
  <2>1. LogLink(a, x) \in Links
    BY LogLinks
  <2>2. LogLink(a, x).before <= LogLink(a, x).entry.term
    BY <2>1 DEF TermsOrdered
  <2> QED BY <1>2, <2>2 DEF LogLink, LinkOf
<1> QED BY <1>1, <1>2, NeighboursSort

LEMMA LogsAgree ==
    ASSUME TypeOK, LogInv, NEW i \in Server, NEW j \in Server
    PROVE  Agree(node[j].log, node[i].log)
<1> DEFINE a == node[j].log
           b == node[i].log
<1>1. a \in Logs /\ b \in Logs /\ Aligned(a) /\ Aligned(b)
  BY DEF TypeOK, Nodes, LogInv, LogsPlain
<1>2. /\ Len(a.ents) \in Nat /\ Len(b.ents) \in Nat
      /\ LastIndex(a) = Len(a.ents) /\ LastIndex(b) = Len(b.ents)
      /\ \A x \in Int : Has(a, x) <=> x \in 1..Len(a.ents)
      /\ \A x \in Int : Has(b, x) <=> x \in 1..Len(b.ents)
      /\ \A x \in Int : At(a, x) = a.ents[x] /\ At(b, x) = b.ents[x]
      /\ \A x \in Int : Term(a, x) = IF x \in 1..Len(a.ents) THEN a.ents[x].term ELSE 0
      /\ \A x \in Int : Term(b, x) = IF x \in 1..Len(b.ents) THEN b.ents[x].term ELSE 0
  BY <1>1, AlignedReads
<1>3. \A x \in 1..MinOf(LastIndex(a), LastIndex(b)) :
          Has(a, x) /\ Has(b, x) /\ Term(a, x) = Term(b, x) =>
              \A y \in 1..x : Has(a, y) /\ Has(b, y) => At(a, y) = At(b, y)
  BY InvLogMatching DEF LogMatching
<1> HIDE DEF a, b
<1> SUFFICES ASSUME NEW x \in 1..Len(a.ents), x <= Len(b.ents), a.ents[x].term = b.ents[x].term,
                    NEW y \in 1..x
             PROVE  a.ents[y] = b.ents[y]
  BY DEF Agree, a, b
<1>4. /\ x \in Int /\ y \in Int /\ x \in 1..Len(a.ents) /\ x \in 1..Len(b.ents)
      /\ y \in 1..Len(a.ents) /\ y \in 1..Len(b.ents)
      /\ x \in 1..MinOf(LastIndex(a), LastIndex(b))
  BY <1>2 DEF MinOf
<1>5. Has(a, x) /\ Has(b, x) /\ Term(a, x) = Term(b, x) /\ Has(a, y) /\ Has(b, y)
  BY <1>2, <1>4
<1>6. At(a, y) = At(b, y)
  BY <1>3, <1>4, <1>5
<1> QED BY <1>2, <1>4, <1>6

LEMMA LeaderProgress ==
    ASSUME TypeOK, TypeOK', LogInv, LogInv', TermsOrdered, RepliesCurrent, LeadersHold, ProgressKnown,
           NEW s \in Server, MatchStep(s), role'[s] = "leader",
           role[s] = "leader", hs'[s].term = hs[s].term,
           NEW j \in Server, j # s
    PROVE  /\ hs'[j].term < hs'[s].term => Unreached(s, j)'
           /\ hs'[j].term = hs'[s].term => Following(s, j)' \/ Forked(s, j)'
<1> DEFINE a == node[j].log
           b == node[s].log
           c == node'[s].log
           T == hs[s].term
           lb == Len(b.ents)
           R == Replies(s, j)
<1>0. LogStep(s) /\ node'[j] = node[j] /\ hs'[j] = hs[j] /\ Longer(b, c, T)
  BY DEF MatchStep, LogStep, Continues
<1>1. /\ a \in Logs /\ b \in Logs /\ c \in Logs /\ Aligned(a) /\ Aligned(b)
      /\ lb \in Nat /\ Len(c.ents) \in Nat /\ Len(a.ents) \in Nat /\ T \in Nat
      /\ \A x \in 1..Len(a.ents) : a.ents[x].term \in Nat
  BY StepTypes
<1>2. Keeps(s, j) \/ Advances(s, j) \/ BacksUp(s, j)
  BY DEF MatchStep, Leads
<1>3. R' \subseteq R
  BY RepliesShrink
<1>4. \A m \in R : m \in AppendReplies /\ m.sent = T /\ m.term >= T /\ (m.success => m.term = T)
  <2> SUFFICES ASSUME NEW m \in R
               PROVE  m \in AppendReplies /\ m.sent = T /\ m.term >= T /\ (m.success => m.term = T)
    OBVIOUS
  <2>1. m \in msgs /\ m.type = "AppendEntriesReply" /\ m.to = s
    BY DEF Replies
  <2> QED BY <2>1, MessageFields DEF TypeOK, LogInv, NoTransfers, RepliesCurrent
\* The log of the leader has grown by entries of its term.
<1>5. \A q \in Int : PastOlder(b, T, q) => PastOlder(c, T, q)
  <2> SUFFICES ASSUME NEW q \in Int, PastOlder(b, T, q), NEW x \in 1..Len(c.ents), c.ents[x].term < T
               PROVE  x <= q
    BY DEF PastOlder
  <2>1. CASE x \in lb + 1 .. Len(c.ents)
    <3>1. c.ents[x].term = T
      BY <1>0, <2>1 DEF Longer
    <3> QED BY <1>1, <3>1
  <2>2. CASE x \in 1..lb
    <3>1. c.ents[x] = b.ents[x]
      BY <1>0, <2>2 DEF Longer
    <3> QED BY <2>2, <3>1 DEF PastOlder
  <2> QED BY <1>1, <2>1, <2>2
<1>6. \A q \in Int : PastFork(a, b, q) => PastFork(a, c, q)
  <2> SUFFICES ASSUME NEW q \in Int, PastFork(a, b, q), NEW x \in 1..Len(a.ents),
                      x <= Len(c.ents), a.ents[x].term = c.ents[x].term
               PROVE  x <= q
    BY DEF PastFork
  <2>1. CASE x \in lb + 1 .. Len(c.ents)
    <3>1. a.ents[x].term = T
      BY <1>0, <2>1 DEF Longer
    <3>2. x <= lb
      BY <3>1, LeaderHas
    <3> QED BY <1>1, <2>1, <3>2
  <2>2. CASE x \in 1..lb
    <3>1. c.ents[x] = b.ents[x]
      BY <1>0, <2>2 DEF Longer
    <3> QED BY <1>1, <2>2, <3>1 DEF PastFork
  <2> QED BY <1>1, <2>1, <2>2
\* Where the leader calls.
<1>7. ASSUME NEW p \in Int, CallsFrom(s, j, p)
      PROVE  \A q \in Sent(s, j)' : q \in Int /\ (q >= p \/ q \in Sent(s, j))
  BY <1>7, SentStep
<1>8. NextOf(node[s], j) - 1 \in Sent(s, j) /\ NextOf(node[s], j) - 1 \in Int
  BY NextOfType DEF TypeOK, Sent
<1>9. ASSUME hs[j].term < T PROVE Unreached(s, j)'
  <2>1. node[s].match[j] = 0 /\ R = {} /\ \A q \in Sent(s, j) : PastOlder(b, T, q)
    BY <1>9 DEF ProgressKnown, Unreached
  <2>2. Keeps(s, j)
    BY <1>2, <2>1 DEF Advances, BacksUp
  <2>3. \A q \in Sent(s, j)' : PastOlder(c, T, q)
    <3> SUFFICES ASSUME NEW q \in Sent(s, j)' PROVE PastOlder(c, T, q)
      OBVIOUS
    <3>1. q \in Int /\ (q >= NextOf(node[s], j) - 1 \/ q \in Sent(s, j))
      BY <1>7, <1>8, <2>2 DEF Keeps
    <3>2. PastOlder(b, T, q)
      BY <1>1, <1>8, <2>1, <3>1, PastOlderTrans
    <3> QED BY <1>5, <3>1, <3>2
  <2> QED BY <1>3, <2>1, <2>2, <2>3 DEF Unreached, Keeps
<1>10. ASSUME Following(s, j) PROVE Following(s, j)'
  <2>1. Begins(a, c)
    BY <1>0, <1>1, <1>10, BeginsGrows DEF Following
  <2>2. node'[s].match[j] <= Len(a.ents)
    <3>1. node[s].match[j] <= Len(a.ents)
      BY <1>10 DEF Following
    <3>2. CASE Keeps(s, j) \/ BacksUp(s, j)
      BY <3>1, <3>2 DEF Keeps, BacksUp
    <3>3. CASE Advances(s, j)
      <4>1. PICK m \in R : m.success /\ node'[s].match[j] \in {m.match, m.hint - 1, node[s].match[j]}
        BY <3>3 DEF Advances
      <4>2. m.match <= Len(a.ents) /\ m.hint - 1 <= Len(a.ents)
        BY <1>10, <4>1 DEF Following
      <4> QED BY <3>1, <4>1, <4>2
    <3> QED BY <1>2, <3>2, <3>3
  <2> QED BY <1>0, <1>3, <1>10, <2>1, <2>2 DEF Following
<1>11. ASSUME Forked(s, j) PROVE Forked(s, j)'
  <2>1. /\ node[s].match[j] = 0
        /\ \A q \in Sent(s, j) : PastFork(a, b, q)
        /\ \A m \in R : m.term = m.sent => ~m.success /\ Reports(m, a, b)
    BY <1>11 DEF Forked
  <2>2. node'[s].match[j] = 0
    <3>1. ~Advances(s, j)
      BY <1>4, <2>1 DEF Advances
    <3> QED BY <1>2, <2>1, <3>1 DEF Keeps, BacksUp
  <2>3. \E p \in Int : CallsFrom(s, j, p) /\ PastFork(a, b, p)
    <3>1. CASE Keeps(s, j)
      BY <1>8, <2>1, <3>1 DEF Keeps
    <3>2. CASE BacksUp(s, j)
      <4>1. PICK m \in R : /\ ~m.success /\ m.term <= T
                           /\ m.conflictIndex > 0 => CallsFrom(s, j, BackTo(b, m) - 1)
        BY <3>2 DEF BacksUp
      <4>2. m \in AppendReplies /\ m.term = m.sent
        <5>1. m \in AppendReplies /\ m.sent = T /\ m.term >= T /\ m.term \in Nat
          BY <1>4 DEF AppendReplies
        <5> QED BY <1>1, <4>1, <5>1
      <4>3. Reports(m, a, b)
        BY <2>1, <4>2
      <4>4. /\ m.conflictIndex > 0 /\ BackTo(b, m) \in Nat /\ BackTo(b, m) > 0
            /\ PastFork(a, b, BackTo(b, m) - 1)
        BY <1>1, <4>2, <4>3, LogsSorted, BackToFork
      <4>5. BackTo(b, m) - 1 \in Int
        BY <4>4
      <4> QED BY <4>1, <4>4, <4>5
    <3>3. ~Advances(s, j)
      BY <1>4, <2>1 DEF Advances
    <3> QED BY <1>2, <3>1, <3>2, <3>3
  <2>4. PICK p \in Int : CallsFrom(s, j, p) /\ PastFork(a, b, p)
    BY <2>3
  <2>5. \A q \in Sent(s, j)' : PastFork(a, c, q)
    <3> SUFFICES ASSUME NEW q \in Sent(s, j)' PROVE PastFork(a, c, q)
      OBVIOUS
    <3>1. q \in Int /\ (q >= p \/ q \in Sent(s, j))
      BY <1>7, <2>4
    <3>2. PastFork(a, b, q)
      BY <1>1, <2>1, <2>4, <3>1, PastForkTrans
    <3> QED BY <1>6, <3>1, <3>2
  <2>6. ASSUME NEW m \in R, m.term = m.sent PROVE ~m.success /\ Reports(m, a, c)
    <3>1. ~m.success /\ Reports(m, a, b)
      BY <2>1, <2>6
    <3>2. \A x \in 1..Len(a.ents) : x - 1 \in Int
      BY <1>1
    <3> QED BY <1>6, <3>1, <3>2 DEF Reports
  <2> QED BY <1>0, <1>3, <2>2, <2>5, <2>6 DEF Forked
<1>12. hs'[j].term = hs'[s].term => Following(s, j) \/ Forked(s, j)
  BY <1>0 DEF ProgressKnown
<1>13. hs'[j].term < hs'[s].term => hs[j].term < T
  BY <1>0
<1> QED BY <1>9, <1>10, <1>11, <1>12, <1>13

-----------------------------------------------------------------------------
(***************************************************************************)
(* What a leader i knows of a node s, after a step of s.                   *)
(***************************************************************************)

\* A call of a leader's term is a call of the leader.
LEMMA CallOfLeader ==
    ASSUME TypeOK, ElectionInv, IsFiniteSet(Voters), CallsElected,
           NEW i \in Server, role[i] = "leader", NEW m \in AppendsUnderWay, m.term = hs[i].term
    PROVE  m.from = i
<1>1. PICK Q \in SUBSET Voters : /\ Cardinality(Q) > Cardinality(Voters) \div 2
                                 /\ \A v \in Q : Vote(v, m.term, m.from) \in granted
  BY DEF CallsElected
<1>2. /\ votes[i] \in SUBSET Voters
      /\ Cardinality(votes[i]) > Cardinality(Voters) \div 2
      /\ \A v \in votes[i] : Vote(v, hs[i].term, i) \in granted
  BY DEF ElectionInv, VotesGenuine, LeadersElected
<1>3. PICK v \in Q : v \in votes[i]
  <2> DEFINE W == votes[i]
  <2>1. W \subseteq Voters /\ Cardinality(W) > Cardinality(Voters) \div 2
    BY <1>2
  <2> HIDE DEF W
  <2>2. Q \cap W # {}
    <3>1. IsFiniteSet(Q) /\ IsFiniteSet(W)
      BY <2>1, FS_Subset
    <3>2. Cardinality(Q) \in Nat /\ Cardinality(W) \in Nat /\ Cardinality(Voters) \in Nat
      BY <3>1, FS_CardinalityType
    <3>3. Cardinality(Q) + Cardinality(W) > Cardinality(Voters)
      BY <1>1, <2>1, <3>2
    <3> QED BY <2>1, <3>3, FS_MajoritiesIntersect
  <2> QED BY <2>2 DEF W
<1>4. Vote(v, hs[i].term, m.from) \in granted /\ Vote(v, hs[i].term, i) \in granted
  BY <1>1, <1>2, <1>3
<1> QED BY <1>4 DEF ElectionInv, OneVote, Vote

\* A node that takes a call of leader i, or the first entries of one, follows.
LEMMA TakesFollows ==
    ASSUME TypeOK, TypeOK', LogInv, LogInv', ElectionInv, IsFiniteSet(Voters),
           TermsOrdered, CallsElected, LeadersHold,
           NEW s \in Server, NEW i \in Server, i # s, role[i] = "leader",
           hs[s].term <= hs[i].term,
           NEW c, NEW es, Takes(s, c, es), c.term = hs[i].term,
           \/ Begins(node[s].log, node[i].log)
           \/ \A p \in Sent(i, s) : PastFork(node[s].log, node[i].log, p)
    PROVE  /\ Begins(node'[s].log, node[i].log)
           /\ c.prevIndex + Len(es) <= Len(node'[s].log.ents)
           /\ Begins(node[s].log, node[i].log) => Len(node[s].log.ents) <= Len(node'[s].log.ents)
<1> DEFINE a == node[s].log
           b == node[i].log
           new == node'[s].log
           T == hs[i].term
           prev == c.prevIndex
           la == Len(a.ents)
           lb == Len(b.ents)
<1>1. /\ a \in Logs /\ b \in Logs /\ Aligned(a) /\ Aligned(b) /\ la \in Nat /\ lb \in Nat
      /\ T \in Nat /\ hs[s].term \in Nat
      /\ \A x \in 1..la : a.ents[x].term \in Nat
  BY StepTypes
<1>2. /\ c \in AppendsUnderWay /\ c.to = s /\ ~Conflicts(a, c)
      /\ es \in Seq(Entries) /\ Len(es) <= Len(c.ents)
      /\ \A k \in 1..Len(es) : es[k] = c.ents[k]
      /\ es = <<>> => c.ents = <<>>
      /\ Spliced(a, prev, es, new)
  BY DEF Takes
<1>3. /\ prev \in Nat /\ c.prevTerm \in Nat /\ Len(c.ents) \in Nat /\ Len(es) \in Nat
  BY <1>2, CallTypes
<1>4. c.from = i
  BY <1>2, CallOfLeader
<1>5. CopyOf(c, b)
  BY <1>2, <1>4 DEF LeadersHold
<1>6. prev \in Sent(i, s)
  BY <1>2, <1>4 DEF Sent
<1>7. /\ prev <= lb /\ prev + Len(c.ents) <= lb /\ c.prevTerm = Term(b, prev)
      /\ \A k \in 1..Len(c.ents) : c.ents[k] = b.ents[prev + k]
  BY <1>5 DEF CopyOf
<1>8. /\ Term(b, prev) = IF prev \in 1..lb THEN b.ents[prev].term ELSE 0
      /\ Term(a, prev) = IF prev \in 1..la THEN a.ents[prev].term ELSE 0
      /\ LastIndex(a) = la
  <2>1. prev \in Int
    BY <1>3
  <2> HIDE DEF prev, a, b, la, lb
  <2> QED BY <1>1, <2>1, AlignedReads DEF a, b, la, lb
<1>9. prev <= la /\ (prev > 0 => Term(a, prev) = c.prevTerm)
  BY <1>2, <1>8, <1>1, <1>3 DEF Conflicts
<1>10. prev # 0 => a.ents[prev].term = b.ents[prev].term
  <2> HIDE DEF prev, a, b, la, lb
  <2> QED BY <1>1, <1>3, <1>7, <1>8, <1>9
<1>11. prev + Len(es) <= lb /\ \A k \in 1..Len(es) : es[k] = b.ents[prev + k]
  <2> HIDE DEF prev, b, lb
  <2>1. \A k \in 1..Len(es) : k \in 1..Len(c.ents)
    BY <1>2, <1>3
  <2> QED BY <1>1, <1>2, <1>3, <1>7, <2>1
<1>12. ASSUME PastFork(a, b, prev), es = <<>> PROVE la = prev
  <2>1. prev > 0 /\ c.prevTerm = T
    BY <1>2, <1>12 DEF CallsElected
  <2>2. a.ents[prev].term = T /\ prev \in 1..la
    <3> HIDE DEF prev, a, b, la, lb
    <3> QED BY <1>1, <1>3, <1>8, <1>9, <2>1
  <2>3. ASSUME la # prev PROVE FALSE
    <3>1. la \in 1..la /\ la > prev
      BY <1>1, <1>3, <1>9, <2>2, <2>3
    <3>2. a.ents[prev].term <= a.ents[la].term
      BY <2>2, <3>1, LogsSorted DEF Sorted
    <3>3. a.ents[la].term <= hs[s].term
      BY <3>1 DEF TermsOrdered
    <3>4. a.ents[la].term = T
      <4>1. a.ents[la].term \in Nat
        BY <1>1, <3>1
      <4>2. T <= a.ents[la].term /\ hs[s].term <= T
        BY <2>2, <3>2
      <4> HIDE DEF T
      <4> QED BY <1>1, <3>3, <4>1, <4>2
    <3>5. la <= lb /\ b.ents[la].term = T
      BY <3>1, <3>4, LeaderHas
    <3>6. la <= prev
      BY <1>12, <3>1, <3>4, <3>5 DEF PastFork
    <3> QED BY <1>1, <1>3, <3>1, <3>6
  <2> QED BY <2>3
<1>13. \/ Begins(a, b)
       \/ PastFork(a, b, prev) /\ (es = <<>> => la = prev)
  BY <1>6, <1>12
<1>14. Agree(a, b)
  BY LogsAgree
<1>15. new \in Logs /\ Aligned(new)
  BY <1>2 DEF Spliced
<1> HIDE DEF a, b, new, T, prev
<1> QED BY <1>1, <1>2, <1>3, <1>7, <1>9, <1>10, <1>11, <1>13, <1>14, <1>15, TakenBegins
        DEF a, b, new, prev

LEMMA FollowerProgress ==
    ASSUME TypeOK, TypeOK', LogInv, LogInv', ElectionInv, ElectionSafety', IsFiniteSet(Voters),
           MatchInv, NEW s \in Server, MatchStep(s),
           NEW i \in Server, i # s, role'[i] = "leader"
    PROVE  /\ hs'[s].term < hs'[i].term => Unreached(i, s)'
           /\ hs'[s].term = hs'[i].term => Following(i, s)' \/ Forked(i, s)'
<1> DEFINE a == node[s].log
           new == node'[s].log
           b == node[i].log
           T == hs[i].term
           R == Replies(i, s)
<1>0. /\ LogStep(s) /\ TermsOrdered /\ CallsElected /\ RepliesCurrent /\ LeadersHold /\ ProgressKnown
      /\ NoTransfers'
  BY DEF MatchStep, LogStep, MatchInv
<1>1. role[i] = "leader" /\ hs'[i] = hs[i] /\ node'[i] = node[i]
  BY <1>0 DEF LogStep
<1>2. /\ a \in Logs /\ b \in Logs /\ Len(a.ents) \in Nat /\ Len(b.ents) \in Nat /\ T \in Nat
      /\ Aligned(a) /\ Aligned(b)
      /\ hs[s].term \in Nat /\ hs'[s].term \in Nat /\ hs'[s].term >= hs[s].term
      /\ \A x \in 1..Len(a.ents) : a.ents[x].term \in Nat
  BY <1>0, StepTypes DEF LogStep
<1>3. Sent(i, s)' \subseteq Sent(i, s)
  <2>1. \A m \in AppendsUnderWay' : m.from = i => m \in AppendsUnderWay
    BY DEF MatchStep, StartsCalls, AppendsUnderWay
  <2> QED BY <1>1, <2>1 DEF Sent
\* A reply of s to i is an old one, or answers a call of the term.
<1>4. \A r \in R' : r \in R \/ \E c \in AppendsUnderWay : Answers(s, c, r) /\ c.from = i /\ c.term = T
  <2> SUFFICES ASSUME NEW r \in R', r \notin R
               PROVE  \E c \in AppendsUnderWay : Answers(s, c, r) /\ c.from = i /\ c.term = T
    OBVIOUS
  <2>1. r \in msgs' /\ r \notin msgs /\ r.type = "AppendEntriesReply" /\ r.to = i
    BY DEF Replies
  <2>2. PICK c \in msgs : Answers(s, c, r)
    BY <2>1 DEF MatchStep, SendsReplies
  <2>3. c.from = i /\ r.sent = T
    BY <1>0, <1>1, <2>1, <2>2 DEF Answers, NoTransfers
  <2> QED BY <2>2, <2>3 DEF Answers
<1>5. ASSUME hs'[s].term < T PROVE Unreached(i, s)'
  <2>1. Unreached(i, s)
    BY <1>0, <1>1, <1>2, <1>5 DEF ProgressKnown
  <2>2. ASSUME NEW c \in AppendsUnderWay, NEW r, Answers(s, c, r), c.term = T PROVE FALSE
    <3>1. r.sent = T /\ r.term = hs'[s].term
      BY <2>2 DEF Answers
    <3>2. r.term > r.sent \/ r.term = r.sent
      BY <2>2 DEF Answers
    <3> QED BY <1>2, <1>5, <3>1, <3>2
  <2>3. R' = {}
    BY <1>4, <2>1, <2>2 DEF Unreached
  <2> QED BY <1>1, <1>3, <2>1, <2>3 DEF Unreached
<1>6. ASSUME hs'[s].term = T PROVE Following(i, s)' \/ Forked(i, s)'
  <2>1. hs[s].term <= T
    BY <1>2, <1>6
  <2>2. Following(i, s) \/ Forked(i, s)
    <3>1. CASE hs[s].term = T
      BY <1>0, <1>1, <3>1 DEF ProgressKnown
    <3>2. CASE hs[s].term # T
      <4>1. Unreached(i, s)
        BY <1>0, <1>1, <1>2, <2>1, <3>2 DEF ProgressKnown
      <4>2. \A x \in 1..Len(a.ents) : a.ents[x].term < T
        <5>1. \A x \in 1..Len(a.ents) : a.ents[x].term <= hs[s].term
          BY <1>0 DEF TermsOrdered
        <5> HIDE DEF a, T
        <5> QED BY <1>2, <2>1, <3>2, <5>1 DEF a, T
      <4>3. \A p \in Sent(i, s) : PastFork(a, b, p)
        <5> SUFFICES ASSUME NEW p \in Sent(i, s), NEW x \in 1..Len(a.ents),
                            x <= Len(b.ents), a.ents[x].term = b.ents[x].term
                     PROVE  x <= p
          BY DEF PastFork
        <5>1. x \in 1..Len(b.ents) /\ b.ents[x].term < T
          BY <1>2, <4>2
        <5> QED BY <4>1, <5>1 DEF Unreached, PastOlder
      <4> QED BY <4>1, <4>3 DEF Unreached, Forked
    <3> QED BY <3>1, <3>2
  <2>3. role'[s] # "leader" /\ Follows(s)
    BY <1>1, <1>6 DEF ElectionSafety, MatchStep
  <2>4. Begins(a, b) \/ \A p \in Sent(i, s) : PastFork(a, b, p)
    BY <2>2 DEF Following, Forked
  <2>5. ASSUME NEW c, NEW es, Takes(s, c, es)
        PROVE  /\ Begins(new, b)
               /\ c.prevIndex + Len(es) <= Len(new.ents)
               /\ Begins(a, b) => Len(a.ents) <= Len(new.ents)
    <3>1. c.term = T
      BY <1>6, <2>5 DEF Takes
    <3> QED BY <1>0, <1>1, <2>1, <2>4, <2>5, <3>1, TakesFollows
  <2>6. ASSUME NEW r \in R, r.success
        PROVE  Following(i, s) /\ r.match <= Len(a.ents) /\ r.hint - 1 <= Len(a.ents)
    <3>1. r.term = r.sent
      BY <1>0, <2>6 DEF RepliesCurrent, Replies
    <3> QED BY <2>2, <2>6, <3>1 DEF Following, Forked
  <2>7. ASSUME NEW c, NEW es, Takes(s, c, es) PROVE Following(i, s)'
    <3> DEFINE ln == Len(new.ents)
    <3>1. Begins(new, b) /\ (Begins(a, b) => Len(a.ents) <= ln)
      BY <2>5, <2>7
    <3>2. ln \in Nat
      BY StepTypes
    <3>3. node[i].match[s] \in Nat
      BY DEF TypeOK, Nodes
    <3>4. node[i].match[s] <= ln
      <4>1. CASE Following(i, s)
        <5>1. node[i].match[s] <= Len(a.ents) /\ Len(a.ents) <= ln
          BY <3>1, <4>1 DEF Following
        <5> HIDE DEF a, ln
        <5> QED BY <1>2, <3>2, <3>3, <5>1
      <4>2. CASE Forked(i, s)
        BY <3>2, <4>2 DEF Forked
      <4> QED BY <2>2, <4>1, <4>2
    <3>5. ASSUME NEW r \in R', r.success PROVE r.match <= ln /\ r.hint - 1 <= ln
      <4>1. r \in AppendReplies
        BY MessageFields DEF TypeOK, Replies
      <4>2. r.match \in Nat /\ r.hint \in Nat
        BY <4>1 DEF AppendReplies
      <4>3. CASE r \in R
        <5>1. r.match <= Len(a.ents) /\ r.hint - 1 <= Len(a.ents) /\ Len(a.ents) <= ln
          BY <2>6, <3>1, <3>5, <4>3 DEF Following
        <5> HIDE DEF a, ln
        <5> QED BY <1>2, <3>2, <4>2, <5>1
      <4>4. ASSUME NEW d \in AppendsUnderWay, Answers(s, d, r) PROVE r.match <= ln /\ r.hint - 1 <= ln
        <5>1. Takes(s, d, d.ents) /\ r.match = ln /\ r.hint = d.prevIndex + 1 + Len(d.ents)
          BY <3>5, <4>4 DEF Answers
        <5>2. d.prevIndex + Len(d.ents) <= ln
          BY <2>5, <5>1
        <5>3. d.prevIndex \in Nat /\ Len(d.ents) \in Nat
          BY CallTypes
        <5> HIDE DEF ln
        <5> QED BY <3>2, <5>1, <5>2, <5>3
      <4> QED BY <1>4, <4>3, <4>4
    <3> QED BY <1>1, <3>1, <3>4, <3>5 DEF Following
  <2>8. ASSUME \A c : \A es : ~Takes(s, c, es) PROVE Following(i, s)' \/ Forked(i, s)'
    <3>1. new = a
      BY <2>3, <2>8 DEF Follows
    <3>2. \A r \in R' : r \in R \/
             /\ ~r.success
             /\ r.term = r.sent =>
                   \E c \in AppendsUnderWay, term \in Nat :
                      c.from = i /\ c.to = s /\ c.term = T /\ Conflicts(a, c) /\ r = Rejection(a, c, term)
      <4> SUFFICES ASSUME NEW r, NEW c \in AppendsUnderWay, Answers(s, c, r), c.from = i, c.term = T
                   PROVE  /\ ~r.success
                          /\ r.term = r.sent =>
                                \E d \in AppendsUnderWay, term \in Nat :
                                   d.from = i /\ d.to = s /\ d.term = T /\ Conflicts(a, d) /\ r = Rejection(a, d, term)
        BY <1>4
      <4>1. r.term = hs'[s].term /\ r.sent = T /\ c.to = s
        BY DEF Answers
      <4>2. r.term = r.sent /\ ~(r.term > r.sent)
        BY <1>2, <1>6, <4>1
      <4> QED BY <2>8, <4>1, <4>2 DEF Answers
    <3>3. CASE Following(i, s)
      BY <1>1, <3>1, <3>2, <3>3 DEF Following
    <3>4. CASE Forked(i, s)
      <4>1. ASSUME NEW c \in AppendsUnderWay, c.from = i, c.to = s, c.term = T, Conflicts(a, c), NEW term \in Nat
            PROVE  Reports(Rejection(a, c, term), a, b)
        <5>1. CopyOf(c, b)
          BY <1>0, <1>1, <4>1 DEF LeadersHold
        <5>2. c.prevIndex \in Sent(i, s)
          BY <4>1 DEF Sent
        <5>3. PastFork(a, b, c.prevIndex)
          BY <3>4, <5>2 DEF Forked
        <5>4. c \in AppendCalls
          BY CallTypes
        <5> QED BY <1>2, <4>1, <5>1, <5>3, <5>4, RejectionReports
      <4>2. ASSUME NEW r \in R', r.term = r.sent PROVE ~r.success /\ Reports(r, a, b)
        <5>1. CASE r \in R
          BY <3>4, <4>2, <5>1 DEF Forked
        <5>2. CASE r \notin R
          BY <3>2, <4>1, <4>2, <5>2
        <5> QED BY <5>1, <5>2
      <4>3. node'[i].match[s] = 0 /\ \A p \in Sent(i, s)' : PastFork(a, b, p)
        BY <1>1, <1>3, <3>4 DEF Forked
      <4> QED BY <1>1, <3>1, <4>2, <4>3 DEF Forked
    <3> QED BY <2>2, <3>3, <3>4
  <2> QED BY <2>7, <2>8
<1> QED BY <1>1, <1>5, <1>6

-----------------------------------------------------------------------------
\* Such a step keeps the invariant.
LEMMA MatchStepKeeps ==
    ASSUME TypeOK, TypeOK', LogInv, LogInv', ElectionInv, ElectionInv', ElectionSafety',
           IsFiniteSet(Voters), MatchInv, NEW s \in Server, MatchStep(s)
    PROVE  MatchInv'
<1>1. TermsOrdered /\ CallsElected /\ RepliesCurrent /\ LeadersHold /\ ProgressKnown
  BY DEF MatchInv
<1>2. TermsOrdered' /\ CallsElected' /\ RepliesCurrent' /\ LeadersHold'
  BY <1>1, TermsStep, CallsStep, RepliesStep, LeadersStep
<1>3. ASSUME NEW i \in Server, NEW j \in Server, role'[i] = "leader", i # j
      PROVE  /\ hs'[j].term < hs'[i].term => Unreached(i, j)'
             /\ hs'[j].term = hs'[i].term => Following(i, j)' \/ Forked(i, j)'
  <2>1. CASE i = s /\ role[s] = "leader" /\ hs'[s].term = hs[s].term
    BY <1>1, <1>3, <2>1, LeaderProgress
  <2>2. CASE i = s /\ ~(role[s] = "leader" /\ hs'[s].term = hs[s].term)
    BY <1>1, <1>3, <2>2, ElectedProgress
  <2>3. CASE j = s
    BY <1>3, <2>3, FollowerProgress
  <2>4. CASE i # s /\ j # s
    <3>1. /\ hs'[i] = hs[i] /\ role[i] = "leader" /\ node'[i] = node[i]
          /\ hs'[j] = hs[j] /\ node'[j] = node[j]
      BY <1>3, <2>4 DEF MatchStep, LogStep
    <3>2. Replies(i, j)' \subseteq Replies(i, j)
      BY <2>4, RepliesShrink
    <3>3. Sent(i, j)' \subseteq Sent(i, j)
      <4>1. \A m \in AppendsUnderWay' : m.from = i => m \in AppendsUnderWay
        BY <2>4 DEF MatchStep, StartsCalls, AppendsUnderWay
      <4> QED BY <3>1, <4>1 DEF Sent
    <3>4. hs[j].term < hs[i].term => Unreached(i, j)
      BY <1>1, <1>3, <3>1 DEF ProgressKnown
    <3>5. hs[j].term = hs[i].term => Following(i, j) \/ Forked(i, j)
      BY <1>1, <1>3, <3>1 DEF ProgressKnown
    <3>6. Unreached(i, j) => Unreached(i, j)'
      BY <3>1, <3>2, <3>3 DEF Unreached
    <3>7. Following(i, j) => Following(i, j)'
      BY <3>1, <3>2 DEF Following
    <3>8. Forked(i, j) => Forked(i, j)'
      BY <3>1, <3>2, <3>3 DEF Forked
    <3> QED BY <3>1, <3>4, <3>5, <3>6, <3>7, <3>8
  <2> QED BY <1>3, <2>1, <2>2, <2>3, <2>4
<1>4. ProgressKnown'
  BY <1>3 DEF ProgressKnown
<1> QED BY <1>2, <1>4 DEF MatchInv

LEMMA InitMatch == Init => MatchInv
<1> SUFFICES ASSUME Init PROVE MatchInv
  OBVIOUS
<1>1. /\ msgs = {} /\ \A i \in Server : node[i].log.ents = <<>> /\ role[i] = "follower"
  BY DEF Init, Booted, NoSnapshot, EmptyLog
<1>2. AppendsUnderWay = {} /\ Links = {}
  <2>1. AppendsUnderWay = {}
    BY <1>1 DEF AppendsUnderWay
  <2>2. \A i \in Server : 1..Len(node[i].log.ents) = {}
    BY <1>1
  <2> QED BY <2>1, <2>2 DEF Links
<1> QED BY <1>1, <1>2 DEF MatchInv, TermsOrdered, CallsElected, RepliesCurrent, LeadersHold, ProgressKnown

\* What the invariant says of MatchIndex.
LEMMA InvMatchIndex ==
    ASSUME TypeOK, LogInv, MatchInv
    PROVE  MatchIndexSound
<1> SUFFICES ASSUME NEW i \in Server, NEW j \in Server,
                    role[i] = "leader", hs[j].term = hs[i].term,
                    NEW x \in 1..node[i].match[j]
             PROVE  /\ Has(node[j].log, x) /\ Has(node[i].log, x)
                    /\ At(node[j].log, x) = At(node[i].log, x)
  BY DEF MatchIndexSound
<1> DEFINE a == node[j].log
           b == node[i].log
<1>1. a \in Logs /\ b \in Logs /\ Aligned(a) /\ Aligned(b) /\ node[i].match[j] \in Nat
  BY DEF TypeOK, Nodes, LogInv, LogsPlain
<1>2. /\ \A y \in Int : Has(a, y) <=> y \in 1..Len(a.ents)
      /\ \A y \in Int : Has(b, y) <=> y \in 1..Len(b.ents)
      /\ \A y \in Int : At(a, y) = a.ents[y] /\ At(b, y) = b.ents[y]
      /\ Len(a.ents) \in Nat /\ Len(b.ents) \in Nat
  BY <1>1, AlignedReads
<1>3. Begins(a, b) /\ node[i].match[j] <= Len(a.ents)
  <2>1. CASE i = j
    BY <1>2, <2>1 DEF MatchInv, LeadersHold, Begins
  <2>2. CASE i # j
    <3>1. Following(i, j) \/ Forked(i, j)
      BY <2>2 DEF MatchInv, ProgressKnown
    <3>2. node[i].match[j] # 0
      BY <1>1
    <3> QED BY <3>1, <3>2 DEF Following, Forked
  <2> QED BY <2>1, <2>2
<1> HIDE DEF a, b
<1>4. x \in Int /\ x \in 1..Len(a.ents) /\ x \in 1..Len(b.ents)
  BY <1>1, <1>2, <1>3 DEF Begins
<1>5. a.ents[x] = b.ents[x]
  BY <1>3, <1>4 DEF Begins
<1> QED BY <1>2, <1>4, <1>5 DEF a, b

-----------------------------------------------------------------------------
(***************************************************************************)
(* What the steps of a leader's handler do to its progress.                *)
(***************************************************************************)

\* Leader i of term starts call c to a node that record n is about to call at or
\* before it.
Begun(n, i, term, c) ==
    /\ c.from = i /\ c.to # i /\ c.to \in Server /\ c.term = term
    /\ c.prevIndex >= NextOf(n, c.to) - 1
    /\ c.ents = <<>> => c.prevIndex > 0 /\ c.prevTerm = term

\* Record b comes after n in a handler of i that sends, appends and commits.
Pushed(n, b, i, term) ==
    /\ Grown(n, b, term)
    /\ n.match[i] <= Len(n.log.ents) => b.match[i] <= Len(b.log.ents)
    /\ \A j \in Server : j # i => b.match[j] = n.match[j] /\ NextOf(b, j) >= NextOf(n, j)
    /\ \A c \in b.out : c \in n.out \/ Begun(n, i, term, c)

\* A leader's log ends in its term.
Ends(n, term) == Len(n.log.ents) > 0 /\ n.log.ents[Len(n.log.ents)].term = term

\* Neither the log nor the progress has changed.
Still(n, b) == Quiet(n, b) /\ b.match = n.match /\ b.next = n.next

LEMMA StillTrans ==
    ASSUME NEW n, NEW b, NEW c, Still(n, b), Still(b, c)
    PROVE  Still(n, c)
BY DEF Still, Quiet

LEMMA StillPushes ==
    ASSUME NEW n, Plain(n), NEW b \in Nodes, Still(n, b), NEW i \in Server, NEW term
    PROVE  Pushed(n, b, i, term)
<1>1. Grown(n, b, term)
  BY QuietGrows DEF Still
<1>2. \A j \in Server : NextOf(b, j) = NextOf(n, j) /\ NextOf(n, j) \in Nat
  BY NextOfType DEF Still, Quiet, NextOf, Plain
<1> QED BY <1>1, <1>2 DEF Pushed, Still, Quiet

LEMMA PushedTrans ==
    ASSUME NEW n, Plain(n), NEW i \in Server, NEW term, NEW b, NEW c,
           Pushed(n, b, i, term), Pushed(b, c, i, term)
    PROVE  Pushed(n, c, i, term)
<1>1. Grown(n, c, term)
  BY GrownTrans DEF Pushed
<1>2. \A j \in Server : NextOf(n, j) \in Nat /\ NextOf(b, j) \in Nat /\ NextOf(c, j) \in Nat
  BY NextOfType DEF Plain, Pushed, Grown
<1>3. ASSUME NEW d, Begun(b, i, term, d), d.prevIndex \in Nat PROVE Begun(n, i, term, d)
  <2>1. NextOf(b, d.to) >= NextOf(n, d.to)
    BY <1>3 DEF Begun, Pushed
  <2> QED BY <1>2, <1>3, <2>1 DEF Begun
<1>4. \A d \in c.out : d.prevIndex \in Nat
  BY DEF Pushed, Grown, Plain, CopyOf, Logs
<1>5. \A j \in Server : j # i => c.match[j] = n.match[j] /\ NextOf(c, j) >= NextOf(n, j)
  BY <1>2 DEF Pushed
<1>6. n.match[i] <= Len(n.log.ents) => c.match[i] <= Len(c.log.ents)
  BY DEF Pushed
<1> QED BY <1>1, <1>3, <1>4, <1>5, <1>6 DEF Pushed

LEMMA EndsGrow ==
    ASSUME NEW n, Plain(n), NEW b, NEW term, Grown(n, b, term), Ends(n, term)
    PROVE  Ends(b, term)
<1> DEFINE la == Len(n.log.ents)
           lb == Len(b.log.ents)
<1>1. la \in Nat /\ lb \in Nat /\ la <= lb /\ la > 0
  BY PlainLog DEF Grown, Longer, Ends
<1>2. CASE la = lb
  <2>1. la \in 1..la
    BY <1>1
  <2> QED BY <1>1, <1>2, <2>1 DEF Grown, Longer, Ends
<1>3. CASE la # lb
  <2>1. lb \in la + 1 .. lb
    BY <1>1, <1>3
  <2> QED BY <1>1, <2>1 DEF Grown, Longer, Ends
<1> QED BY <1>2, <1>3

\* Answering, applying and committing.
LEMMA StillSteps ==
    ASSUME NEW n \in Nodes, NEW i \in Server, NEW term \in Nat
    PROVE  /\ Still(n, TryFinishReads(n)) /\ Still(n, MaybeApply(n))
           /\ \A j \in Server : Still(n, AckReads(n, j))
           /\ Still(n, MaybeCommit(n, i, term)) /\ Still(n, FailPending(n))
<1> DEFINE Same(a, b) == b.match = a.match /\ b.next = a.next
<1>1. \A b \in Nodes : Same(b, TryFinishReads(b))
  BY DEF TryFinishReads, Nodes
<1>2. \A b \in Nodes : Same(b, ApplyCommitted(b))
  BY DEF ApplyCommitted, Nodes
<1>3. \A b \in Nodes : Same(b, MaybeApply(b))
  BY <1>1, <1>2, ApplyCommittedType DEF MaybeApply
<1>4. ASSUME NEW j \in Server PROVE Same(n, AckReads(n, j))
  <2> DEFINE b == [n EXCEPT !.reads = {[r EXCEPT !.acks = @ \cup {j}] : r \in @}]
  <2>1. Same(n, b)
    BY DEF Nodes
  <2>2. Same(b, TryFinishReads(b))
    BY DEF TryFinishReads, Nodes
  <2> HIDE DEF b
  <2>3. AckReads(n, j) = TryFinishReads(b)
    BY DEF AckReads, b
  <2> QED BY <2>1, <2>2, <2>3
<1>5. ASSUME NEW c \in Nat PROVE Same(n, MaybeApply([n EXCEPT !.commit = c]))
  <2> DEFINE b == [n EXCEPT !.commit = c]
  <2>1. b \in Nodes /\ Same(n, b)
    BY DEF Nodes
  <2> HIDE DEF b
  <2>2. Same(n, MaybeApply(b))
    BY <2>1, <1>3
  <2> QED BY <2>2 DEF b
<1>6. Same(n, MaybeCommit(n, i, term))
  BY <1>5, CommittablePick DEF MaybeCommit
<1>7. Same(n, FailPending(n))
  BY DEF FailPending, Nodes
<1> QED BY <1>1, <1>3, <1>4, <1>6, <1>7, QuietSteps DEF Still

\* sendAppend: without snapshots every node of J is called.
LEMMA SendPushes ==
    ASSUME NEW n, Plain(n), NEW i \in Server, NEW term \in Nat, Ends(n, term),
           NEW J \in SUBSET Server, i \notin J
    PROVE  Pushed(n, SendTo(n, i, term, J), i, term)
<1> DEFINE b == SendTo(n, i, term, J)
<1>1. n \in Nodes /\ Grown(n, b, term)
  BY SendToGrows DEF Plain
<1>2. /\ b.log = n.log /\ b.match = n.match
      /\ b.next = [j \in Server |-> IF j \in J THEN NextOf(n, j) ELSE n.next[j]]
      /\ b.out = n.out \cup UNION {CallTo(n, i, term, j) : j \in J}
  BY <1>1 DEF SendTo, Nodes
<1>3. \A j \in Server : NextOf(n, j) \in Nat \ {0}
  BY <1>1, NextOfType
<1> HIDE DEF b
<1>4. \A j \in Server : NextOf(b, j) = NextOf(n, j)
  BY <1>2, <1>3 DEF NextOf
<1>5. ASSUME NEW j \in J, NEW c \in CallTo(n, i, term, j) PROVE Begun(n, i, term, c)
  <2> DEFINE prev == NextOf(n, j) - 1
             len  == Len(n.log.ents)
  <2>1. CopyOf(c, n.log)
    BY CallsAreCopies
  <2>2. c = AppendCall(n, i, term, j)
    BY DEF CallTo, Plain
  <2>3. c.from = i /\ c.to = j /\ c.term = term /\ c.prevIndex = prev /\ c.prevTerm = Term(n.log, prev)
    BY <2>2 DEF AppendCall
  <2>4. /\ n.log \in Logs /\ Aligned(n.log) /\ n.log.ents \in Seq(Entries) /\ len \in Nat
        /\ LastIndex(n.log) = len /\ n.log.snapIndex = 0 /\ prev \in 0..len
    <3>1. n.log \in Logs /\ Aligned(n.log)
      BY PlainLog
    <3>2. prev \in 0..len
      BY <2>1, <2>3 DEF CopyOf
    <3> QED BY <3>1, <3>2, AlignedReads DEF Aligned
  <2>5. ASSUME c.ents = <<>> PROVE prev = len
    <3> DEFINE all == Slice(n.log, prev + 1, LastIndex(n.log))
               cut == MinOf(Len(all), MaxBatch)
    <3>1. c.ents = SubSeq(all, 1, cut)
      BY <2>2 DEF AppendCall
    <3>2. ASSUME prev # len PROVE FALSE
      <4>1. all = SubSeq(n.log.ents, prev + 1, len)
        <5> HIDE DEF prev, len
        <5>1. prev \in Nat /\ len \in Nat /\ prev < len /\ prev + 1 >= 0 + 1
          BY <2>4, <3>2
        <5>2. MaxOf(prev + 1, n.log.snapIndex + 1) = prev + 1
          BY <2>4, <5>1 DEF MaxOf
        <5>3. MinOf(MinOf(len, len), n.log.snapIndex + Len(n.log.ents)) = len
          BY <2>4, <5>1 DEF MinOf, len
        <5> QED BY <2>4, <5>1, <5>2, <5>3 DEF Slice
      <4>2. Len(all) = len - prev /\ Len(all) > 0
        BY <2>4, <3>2, <4>1
      <4>3. cut \in Nat /\ cut > 0 /\ cut <= Len(all)
        BY <2>4, <4>2, LimitsAssumption DEF MinOf
      <4>4. all \in Seq(Entries)
        <5>1. prev + 1 \in Int /\ LastIndex(n.log) \in Int
          BY <2>4
        <5> HIDE DEF prev
        <5> QED BY <2>4, <5>1, SliceType
      <4> HIDE DEF all, cut
      <4>5. Len(SubSeq(all, 1, cut)) = cut
        BY <4>3, <4>4
      <4> QED BY <2>5, <3>1, <4>3, <4>5
    <3> QED BY <3>2
  <2>6. c.ents = <<>> => c.prevIndex > 0 /\ c.prevTerm = term
    <3> SUFFICES ASSUME c.ents = <<>> PROVE c.prevIndex > 0 /\ c.prevTerm = term
      OBVIOUS
    <3>1. prev = len /\ len > 0 /\ n.log.ents[len].term = term
      BY <2>5 DEF Ends
    <3>2. Term(n.log, len) = n.log.ents[len].term
      <4>1. len \in Int /\ len \in 1..len
        BY <2>4, <3>1
      <4> QED BY <2>4, <4>1, AlignedReads
    <3> QED BY <2>3, <3>1, <3>2
  <2>7. c.prevIndex >= NextOf(n, j) - 1
    BY <2>3, <2>4
  <2> QED BY <2>3, <2>6, <2>7 DEF Begun
<1>6. \A c \in b.out : c \in n.out \/ Begun(n, i, term, c)
  BY <1>2, <1>5
<1>7. \A j \in Server : NextOf(b, j) >= NextOf(n, j)
  BY <1>3, <1>4
<1> QED BY <1>1, <1>2, <1>6, <1>7 DEF Pushed, b

\* appendData: the leader's own match is the new entry.
LEMMA AppendPushes ==
    ASSUME NEW n, Plain(n), NEW i \in Server, NEW term \in Nat, NEW type, NEW data,
           <<type, data>> \in Payloads
    PROVE  LET b == AppendData(n, i, term, type, data)
           IN  Pushed(n, b, i, term) /\ Ends(b, term)
<1> DEFINE len == Len(n.log.ents)
           e   == Entry(LastIndex(n.log) + 1, term, type, data)
           new == AppendTo(n.log, <<e>>)
           match == [n.match EXCEPT ![i] = IF n.next[i] # 0 THEN e.index ELSE @]
           next  == [n.next EXCEPT ![i] = IF @ # 0 THEN e.index + 1 ELSE 0]
           a == [n EXCEPT !.log = new, !.wal = Replay(@, <<e>>), !.match = match, !.next = next]
           b == AppendData(n, i, term, type, data)
<1>1. /\ n \in Nodes /\ n.log \in Logs /\ Aligned(n.log) /\ n.log.ents \in Seq(Entries) /\ len \in Nat
      /\ LastIndex(n.log) = len
  BY PlainLog, AlignedReads
<1>2. b \in Nodes /\ Grown(n, b, term)
  BY <1>1, AppendDataType, AppendDataGrows
<1>3. a.log = new /\ a.match = match /\ a.next = next /\ a.out = n.out
  <2> HIDE DEF new, match, next
  <2> QED BY <1>1 DEF Nodes
<1>4. b = IF type = "config" THEN [ApplyConfig(a, data) EXCEPT !.pending = e.index] ELSE a
  BY <1>1 DEF AppendData, Nodes
<1>5. /\ b.log = new /\ b.match = match /\ b.out = n.out
      /\ b.next = next \/ b.next = [j \in Server |-> IF j \in Members(data) THEN NextOf(a, j) ELSE next[j]]
  <2>1. DOMAIN a = DOMAIN n
    BY <1>1 DEF Nodes
  <2> HIDE DEF a, new, match, next
  <2> QED BY <1>1, <1>3, <1>4, <2>1 DEF ApplyConfig, Nodes
<1>6. e.index = len + 1 /\ e.term = term
  BY <1>1 DEF Entry
<1>7. Len(new.ents) = len + 1 /\ new.ents[len + 1] = e
  <2> HIDE DEF e
  <2>1. new.ents = Append(n.log.ents, e)
    BY <1>1 DEF AppendTo, Logs
  <2> QED BY <1>1, <2>1
<1>8. Ends(b, term)
  <2> HIDE DEF b, new, e
  <2> QED BY <1>1, <1>5, <1>6, <1>7 DEF Ends
<1>9. LastIndex(new) = len + 1
  <2>1. new.ents # <<>>
    BY <1>1, <1>7
  <2> HIDE DEF new, e
  <2> QED BY <1>6, <1>7, <2>1 DEF LastIndex
<1>10. n.match[i] <= len => b.match[i] <= Len(b.log.ents)
  <2>1. n.match[i] \in Nat
    BY <1>1 DEF Nodes
  <2>2. match[i] = e.index \/ match[i] = n.match[i]
    BY <1>1 DEF Nodes
  <2> HIDE DEF b, new, e, match, len
  <2> QED BY <1>1, <1>5, <1>6, <1>7, <2>1, <2>2
<1>11. ASSUME NEW j \in Server, j # i PROVE b.match[j] = n.match[j] /\ NextOf(b, j) >= NextOf(n, j)
  <2>1. match[j] = n.match[j] /\ next[j] = n.next[j] /\ n.next[j] \in Nat
    BY <1>1, <1>11 DEF Nodes
  <2> HIDE DEF a, b, new, e, match, next, len
  <2>2. NextOf(a, j) = IF n.next[j] = 0 THEN len + 2 ELSE n.next[j]
    BY <1>1, <1>3, <1>9, <2>1 DEF NextOf
  <2>3. NextOf(n, j) = IF n.next[j] = 0 THEN len + 1 ELSE n.next[j]
    BY <1>1 DEF NextOf
  <2>4. b.next[j] = n.next[j] \/ b.next[j] = NextOf(a, j)
    BY <1>5, <2>1
  <2>5. NextOf(b, j) = IF b.next[j] = 0 THEN len + 2 ELSE b.next[j]
    BY <1>1, <1>5, <1>9 DEF NextOf
  <2>6. NextOf(b, j) = NextOf(a, j)
    BY <1>1, <2>1, <2>2, <2>4, <2>5
  <2> QED BY <1>1, <1>5, <2>1, <2>2, <2>3, <2>6
<1>12. \A c \in b.out : c \in n.out
  BY <1>5
<1> HIDE DEF b
<1> QED BY <1>2, <1>8, <1>10, <1>11, <1>12 DEF Pushed, b

LEMMA BcastPushes ==
    ASSUME NEW n, Plain(n), NEW i \in Server, NEW term \in Nat, Ends(n, term)
    PROVE  Pushed(n, Bcast(n, i, term), i, term)
<1>1. Members(n.conf) \ {i} \in SUBSET Server /\ i \notin Members(n.conf) \ {i}
  BY DEF Plain, Nodes, Membership, Members
<1> QED BY <1>1, SendPushes DEF Bcast

LEMMA CommitPushes ==
    ASSUME NEW n, Plain(n), NEW i \in Server, NEW term \in Nat
    PROVE  Pushed(n, MaybeCommit(n, i, term), i, term)
<1>1. n \in Nodes /\ MaybeCommit(n, i, term) \in Nodes
  BY MaybeCommitType DEF Plain
<1>2. Still(n, MaybeCommit(n, i, term))
  BY <1>1, StillSteps
<1> QED BY <1>1, <1>2, StillPushes

LEMMA AcceptPushes ==
    ASSUME NEW n, Plain(n), NEW i \in Server, NEW term \in Nat, NEW type, NEW data,
           <<type, data>> \in Payloads
    PROVE  LET b == Accept(n, i, term, type, data)
           IN  Pushed(n, b, i, term) /\ Ends(b, term)
<1> DEFINE a == AppendData(n, i, term, type, data)
           c == MaybeCommit(a, i, term)
           b == Bcast(c, i, term)
<1>1. Pushed(n, a, i, term) /\ Ends(a, term) /\ Plain(a)
  BY AppendPushes, AppendDataGrows DEF Grown
<1> HIDE DEF a
<1>2. Pushed(a, c, i, term) /\ Plain(c) /\ Ends(c, term)
  BY <1>1, CommitPushes, MaybeCommitGrows, EndsGrow DEF Grown
<1> HIDE DEF c
<1>3. Pushed(c, b, i, term) /\ Ends(b, term)
  BY <1>2, BcastPushes, BcastGrows, EndsGrow
<1> HIDE DEF b
<1>4. Pushed(n, c, i, term)
  BY <1>1, <1>2, PushedTrans
<1>5. Pushed(n, b, i, term)
  BY <1>3, <1>4, PushedTrans
<1> QED BY <1>3, <1>5 DEF Accept, a, b, c

LEMMA PromotePushes ==
    ASSUME NEW n, Plain(n), NEW i \in Server, NEW term \in Nat, NEW j \in Server
    PROVE  Pushed(n, MaybePromoteLearner(n, i, term, j), i, term)
<1>1. <<"config", Promoted(n.conf, j)>> \in Payloads
  BY DEF Payloads, Promoted, Membership, Nodes, Plain
<1>2. Pushed(n, n, i, term)
  BY PlainLog, StillPushes DEF Still, Quiet
<1> QED BY <1>1, <1>2, AcceptPushes DEF MaybePromoteLearner

\* A new leader calls every node at the end of the log it was elected with.
LEMMA ElectedPushes ==
    ASSUME NEW n, Plain(n), NEW i \in Server, NEW term \in Nat
    PROVE  LET b == Elected(n, i, term)
               r == ResetProgress(n, i)
           IN  /\ Plain(r) /\ Quiet(n, r) /\ Pushed(r, b, i, term) /\ Ends(b, term)
               /\ r.match[i] <= Len(r.log.ents)
               /\ \A j \in Server : j # i => r.match[j] = 0 /\ NextOf(r, j) = Len(n.log.ents) + 1
<1> DEFINE len == Len(n.log.ents)
           r == ResetProgress(n, i)
           b == Accept(r, i, term, "noop", None)
<1>1. n \in Nodes /\ len \in Nat /\ LastIndex(n.log) = len
  BY PlainLog, AlignedReads
<1>2. Plain(r) /\ Quiet(n, r)
  BY <1>1, QuietSteps, ResetProgressType, QuietGrows DEF Grown
<1>3. /\ r.next = [j \in Server |-> IF j \in Members(n.conf) THEN len + 1 ELSE 0]
      /\ r.match = [j \in Server |-> IF j = i /\ i \in Members(n.conf) THEN len ELSE 0]
      /\ r.log = n.log
  BY <1>1 DEF ResetProgress, Nodes
<1> HIDE DEF r
<1>4. r.match[i] <= Len(r.log.ents)
  BY <1>1, <1>3
<1>5. \A j \in Server : j # i => r.match[j] = 0 /\ NextOf(r, j) = len + 1
  BY <1>1, <1>3 DEF NextOf
<1>6. Pushed(r, b, i, term) /\ Ends(b, term)
  <2>1. <<"noop", None>> \in Payloads
    BY DEF Payloads
  <2> QED BY <1>2, <2>1, AcceptPushes
<1> QED BY <1>2, <1>4, <1>5, <1>6 DEF Elected, r

\* The end of a tick after which there is still no snapshot.
LEMMA HousekeepingPushes ==
    ASSUME NEW n, Plain(n), NEW i \in Server, NEW term, Housekeeping(n).snap.index = 0
    PROVE  Pushed(n, Housekeeping(n), i, term)
<1> DEFINE a == MaybeApply(n)
           b == Housekeeping(n)
<1>0. 0 \in Nat
  OBVIOUS
<1>1. Quiet(n, b) /\ b \in Nodes
  BY HousekeepingQuiet
<1>2. a \in Nodes /\ a.match = n.match /\ a.next = n.next
  BY <1>0, MaybeApplyType, StillSteps DEF Plain, Still
<1>3. b.match = a.match /\ b.next = a.next
  <2> HIDE DEF a
  <2>1. b = MaybeSnapshot(a)
    BY DEF Housekeeping, a
  <2> HIDE DEF b
  <2> QED BY <1>2, <2>1 DEF MaybeSnapshot, Nodes
<1> HIDE DEF a, b
<1>4. Still(n, b)
  BY <1>1, <1>2, <1>3 DEF Still
<1> QED BY <1>1, <1>4, StillPushes DEF b

-----------------------------------------------------------------------------
(***************************************************************************)
(* What a reply of node j does to the progress of leader i: first that of  *)
(* j changes, then the leader sends, commits and promotes.                 *)
(***************************************************************************)
Moved(n, k, j) ==
    /\ Plain(k) /\ Quiet(n, k)
    /\ \A l \in Server : l # j => k.match[l] = n.match[l] /\ k.next[l] = n.next[l]

LEMMA AcknowledgedPushes ==
    ASSUME NEW n, Plain(n), NEW i \in Server, NEW term \in Nat, NEW m \in AppendReplies, m.from # i,
           Ends(n, term)
    PROVE  \E k : /\ Moved(n, k, m.from)
                  /\ k.match[m.from] \in {m.match, m.hint - 1, n.match[m.from]}
                  /\ Pushed(k, Acknowledged(n, i, term, m), i, term)
<1> DEFINE j     == m.from
           match == CASE m.match > n.match[j]                             -> m.match
                      [] m.match <= n.match[j] /\ m.hint - 1 > n.match[j] -> m.hint - 1
                      [] OTHER                                            -> n.match[j]
           c == [n EXCEPT !.match[j] = match, !.next[j] = match + 1]
           k == AckReads(c, j)
           a == MaybeCommit(k, i, term)
           b == IF match + 1 <= LastIndex(a.log) THEN SendTo(a, i, term, {j}) ELSE a
           p == MaybePromoteLearner(b, i, term, j)
<1>1. n \in Nodes /\ j \in Server /\ m.match \in Nat /\ m.hint \in Nat /\ n.match[j] \in Nat
  BY DEF AppendReplies, Nodes, Plain
<1>2. match \in Nat /\ match \in {m.match, m.hint - 1, n.match[j]}
  BY <1>1
<1> HIDE DEF match
<1>3. c \in Nodes
  <2> DEFINE next == match + 1
  <2>1. next \in Nat
    BY <1>2
  <2> HIDE DEF next
  <2>2. [n EXCEPT !.match[j] = match, !.next[j] = next] \in Nodes
    BY <1>1, <1>2, <2>1, ProgressType
  <2> QED BY <2>2 DEF next
<1>4. /\ Quiet(n, c) /\ c.match[j] = match
      /\ \A l \in Server : l # j => c.match[l] = n.match[l] /\ c.next[l] = n.next[l]
  BY <1>1 DEF Quiet, Nodes
<1> HIDE DEF c
<1>5. Still(c, k) /\ k \in Nodes
  BY <1>1, <1>3, StillSteps, AckReadsType
<1> HIDE DEF k
<1>6. Moved(n, k, j) /\ k.match[j] = match /\ Plain(k)
  <2>1. Quiet(n, k) /\ k.match = c.match /\ k.next = c.next
    BY <1>4, <1>5, QuietTrans DEF Still
  <2>2. Plain(k)
    BY <1>5, <2>1, QuietGrows DEF Grown
  <2> QED BY <1>4, <2>1, <2>2 DEF Moved
<1>7. Ends(k, term)
  BY <1>6 DEF Ends, Moved, Quiet
<1>8. Pushed(k, a, i, term) /\ Plain(a) /\ Ends(a, term)
  BY <1>6, <1>7, CommitPushes, MaybeCommitGrows, EndsGrow DEF Grown
<1> HIDE DEF a
<1>9. Pushed(a, b, i, term) /\ Plain(b)
  <2>1. Pushed(a, a, i, term)
    BY <1>8, PlainLog, StillPushes DEF Still, Quiet
  <2>2. Pushed(a, SendTo(a, i, term, {j}), i, term)
    BY <1>1, <1>8, SendPushes
  <2> QED BY <2>1, <2>2 DEF Pushed, Grown
<1> HIDE DEF b
<1>10. Pushed(b, p, i, term)
  BY <1>1, <1>9, PromotePushes
<1> HIDE DEF p
<1>11. Pushed(k, p, i, term)
  <2>1. Pushed(k, b, i, term)
    BY <1>6, <1>8, <1>9, PushedTrans
  <2> QED BY <1>6, <1>10, <2>1, PushedTrans
<1>12. p = Acknowledged(n, i, term, m)
  BY DEF Acknowledged, p, b, a, k, c, match
<1> QED BY <1>2, <1>6, <1>11, <1>12

LEMMA BackedUpPushes ==
    ASSUME NEW n, Plain(n), NEW i \in Server, NEW term \in Nat, NEW m \in AppendReplies, m.from # i,
           Ends(n, term)
    PROVE  \E k : /\ Moved(n, k, m.from)
                  /\ k.match = n.match
                  /\ m.conflictIndex > 0 => NextOf(k, m.from) = BackTo(n.log, m)
                  /\ Pushed(k, BackedUp(n, i, term, m), i, term)
<1> DEFINE j    == m.from
           last == LastIndexOfTerm(n.log, m.conflictTerm)
           next == CASE m.conflictTerm # 0 /\ last > 0 -> last + 1
                     [] ~(m.conflictTerm # 0 /\ last > 0) /\ m.conflictIndex > 0 -> m.conflictIndex
                     [] OTHER -> MaxOf(NextOf(n, j) - 1, 1)
           k == [n EXCEPT !.next[j] = next]
           b == SendTo(k, i, term, {j})
<1>1. n \in Nodes /\ j \in Server /\ m.conflictIndex \in Nat
  BY DEF AppendReplies, Plain
<1>2. next \in Nat
  BY <1>1, BackedUpNext
<1>3. m.conflictIndex > 0 => next = BackTo(n.log, m) /\ next # 0
  <2>1. last > 0 => last + 1 # 0
    <3>1. last \in Int
      <4> DEFINE Known == {x \in n.log.snapIndex + 1 .. LastIndex(n.log) : Has(n.log, x)}
                 X == {x \in Known : /\ Term(n.log, x) = m.conflictTerm
                                     /\ \A y \in Known : y > x => Term(n.log, y) > m.conflictTerm}
      <4>1. last = IF X = {} THEN 0 ELSE CHOOSE x \in X : TRUE
        BY DEF LastIndexOfTerm
      <4>2. X \subseteq Int
        <5>1. n.log.snapIndex \in Int /\ LastIndex(n.log) \in Int
          BY <1>1, LogReads DEF Nodes, Logs
        <5> QED BY <5>1
      <4> HIDE DEF X
      <4>3. X = {} \/ (CHOOSE x \in X : TRUE) \in X
        OBVIOUS
      <4> HIDE DEF last
      <4>4. CASE X = {}
        BY <4>1, <4>4
      <4>5. CASE X # {}
        BY <4>1, <4>2, <4>3, <4>5
      <4> QED BY <4>4, <4>5
    <3> HIDE DEF last
    <3> QED BY <3>1
  <2> HIDE DEF last
  <2> QED BY <2>1 DEF BackTo, last
<1> HIDE DEF next
<1>4. /\ k \in Nodes /\ Quiet(n, k) /\ k.match = n.match /\ k.next[j] = next
      /\ \A l \in Server : l # j => k.next[l] = n.next[l]
  <2>1. k \in Nodes
    BY <1>1, <1>2, ProgressType
  <2>2. Quiet(n, k) /\ k.match = n.match
    BY <1>1 DEF Quiet, Nodes
  <2>3. k.next[j] = next /\ \A l \in Server : l # j => k.next[l] = n.next[l]
    BY <1>1 DEF Nodes
  <2> QED BY <2>1, <2>2, <2>3
<1> HIDE DEF k
<1>5. Moved(n, k, j) /\ Plain(k)
  <2>1. Plain(k)
    BY <1>4, QuietGrows DEF Grown
  <2> QED BY <1>4, <2>1 DEF Moved
<1>6. Ends(k, term)
  BY <1>4 DEF Ends, Quiet
<1>7. Pushed(k, b, i, term)
  BY <1>1, <1>5, <1>6, SendPushes
<1> HIDE DEF b
<1>8. b = BackedUp(n, i, term, m)
  BY DEF BackedUp, b, k, next, last
<1>9. m.conflictIndex > 0 => NextOf(k, j) = BackTo(n.log, m)
  BY <1>3, <1>4 DEF NextOf
<1> QED BY <1>4, <1>5, <1>7, <1>8, <1>9

-----------------------------------------------------------------------------
(***************************************************************************)
(* The end of a handler.                                                   *)
(***************************************************************************)

\* Neither a call nor a reply of log replication.
Unrelated(M) == \A m \in M : m.type \notin {"AppendEntries", "AppendEntriesReply"}

LEMMA FinishProgress ==
    ASSUME TypeOK, NEW i \in Server, NEW n \in Nodes, NEW done, NEW replies, NEW calls,
           Finish(i, n, done, replies, calls)
    PROVE  /\ node'[i].log = n.log /\ node'[i].match = n.match
           /\ \A j \in Server : NextOf(node'[i], j) = NextOf(n, j)
           /\ \A m \in msgs' : m \in msgs \cup replies \cup calls \cup n.out
<1> DEFINE rest == [n EXCEPT !.out = {}]
           sent == {x \in (msgs \ done) \cup replies : Live(x)}
<1>1. rest.log = n.log /\ rest.match = n.match /\ rest.next = n.next
  BY DEF Nodes
<1>2. node' = [node EXCEPT ![i] = rest] /\ msgs' \in Networks(sent, calls \cup n.out)
  BY DEF Finish
<1> HIDE DEF rest
<1>3. node'[i] = rest
  BY <1>2 DEF TypeOK
<1>4. sent \subseteq msgs \cup replies
  OBVIOUS
<1> HIDE DEF sent
<1>5. msgs' \subseteq sent \cup (calls \cup n.out)
  BY <1>2, NetworksBound
<1> QED BY <1>1, <1>3, <1>4, <1>5 DEF NextOf

\* A handler of a leader that sends, appends and commits after record k.
LEMMA PushedEnd ==
    ASSUME TypeOK, NEW i \in Server, role'[i] = "leader", LogStep(i),
           NEW k, Plain(k), k.out = {},
           NEW n, Pushed(k, n, i, hs'[i].term), Ends(n, hs'[i].term),
           k.match[i] <= Len(k.log.ents),
           NEW done, NEW replies, NEW calls, Finish(i, n, done, replies, calls),
           Unrelated(replies), Unrelated(calls)
    PROVE  /\ StartsCalls(i) /\ SendsReplies(i)
           /\ Len(node'[i].log.ents) > 0
           /\ node'[i].log.ents[Len(node'[i].log.ents)].term = hs'[i].term
           /\ node'[i].match[i] <= Len(node'[i].log.ents)
           /\ \A j \in Server : j # i => /\ node'[i].match[j] = k.match[j]
                                         /\ CallsFrom(i, j, NextOf(k, j) - 1)
<1>1. n \in Nodes /\ \A c \in n.out : CopyOf(c, n.log) /\ Begun(k, i, hs'[i].term, c)
  BY DEF Pushed, Grown, Plain
<1>2. /\ node'[i].log = n.log /\ node'[i].match = n.match
      /\ \A j \in Server : NextOf(node'[i], j) = NextOf(n, j)
      /\ \A m \in msgs' : m \in msgs \cup replies \cup calls \cup n.out
  BY <1>1, FinishProgress
<1>3. \A c \in n.out : c.type = "AppendEntries"
  BY <1>1 DEF CopyOf
<1>4. \A m \in msgs' : m.type = "AppendEntries" => m \in msgs \/ m \in n.out
  BY <1>2 DEF Unrelated
<1>5. StartsCalls(i)
  BY <1>1, <1>2, <1>4 DEF StartsCalls, Begun
<1>6. \A m \in msgs' : m.type = "AppendEntriesReply" => m \in msgs
  BY <1>2, <1>3 DEF Unrelated
<1>7. SendsReplies(i)
  BY <1>6 DEF SendsReplies
<1>8. /\ Len(node'[i].log.ents) > 0
      /\ node'[i].log.ents[Len(node'[i].log.ents)].term = hs'[i].term
      /\ node'[i].match[i] <= Len(node'[i].log.ents)
  BY <1>2 DEF Ends, Pushed
<1>9. ASSUME NEW j \in Server, j # i
      PROVE  node'[i].match[j] = k.match[j] /\ CallsFrom(i, j, NextOf(k, j) - 1)
  <2>1. NextOf(n, j) >= NextOf(k, j) /\ n.match[j] = k.match[j]
    BY <1>9 DEF Pushed
  <2>2. NextOf(n, j) \in Nat /\ NextOf(k, j) \in Nat
    BY <1>1, NextOfType DEF Plain
  <2>4. NextOf(node'[i], j) - 1 >= NextOf(k, j) - 1
    BY <1>2, <2>1, <2>2
  <2>3. \A m \in msgs' : m.type = "AppendEntries" /\ m.from = i /\ m.to = j =>
            m \in msgs \/ m.prevIndex >= NextOf(k, j) - 1
    BY <1>1, <1>4 DEF Begun
  <2> QED BY <1>2, <2>1, <2>2, <2>3, <2>4 DEF CallsFrom
<1> QED BY <1>5, <1>7, <1>8, <1>9

\* What leader i makes of the replies before it sends: record k.
Credits(i, k) ==
    /\ Plain(k) /\ Quiet(node[i], k) /\ k.match[i] = node[i].match[i]
    /\ \A j \in Server : j # i =>
          \/ k.match[j] = node[i].match[j] /\ NextOf(k, j) = NextOf(node[i], j)
          \/ \E m \in Replies(i, j) :
                /\ m.success /\ m.term <= hs[i].term
                /\ k.match[j] \in {m.match, m.hint - 1, node[i].match[j]}
          \/ \E m \in Replies(i, j) :
                /\ ~m.success /\ m.term <= hs[i].term
                /\ k.match[j] = node[i].match[j]
                /\ m.conflictIndex > 0 => NextOf(k, j) = BackTo(node[i].log, m)

\* Who leads on.
LEMMA LeaderEnd ==
    ASSUME TypeOK, LogInv, Uncompacted, LeadersHold, NEW i \in Server, LogStep(i),
           role[i] = "leader", role'[i] = "leader", hs'[i].term = hs[i].term,
           NEW k, Credits(i, k), NEW n, Pushed(k, n, i, hs[i].term),
           NEW done, NEW replies, NEW calls, Finish(i, n, done, replies, calls),
           Unrelated(replies), Unrelated(calls)
    PROVE  MatchStep(i)
<1>1. k.out = {} /\ k.log = node[i].log /\ Plain(k)
  BY PlainNode DEF Credits, Quiet
<1>2. Ends(k, hs[i].term) /\ k.match[i] <= Len(k.log.ents)
  BY <1>1 DEF Credits, LeadersHold, Ends
<1>3. Ends(n, hs[i].term)
  BY <1>1, <1>2, EndsGrow DEF Pushed
<1>4. /\ StartsCalls(i) /\ SendsReplies(i)
      /\ Len(node'[i].log.ents) > 0
      /\ node'[i].log.ents[Len(node'[i].log.ents)].term = hs'[i].term
      /\ node'[i].match[i] <= Len(node'[i].log.ents)
      /\ \A j \in Server : j # i => /\ node'[i].match[j] = k.match[j]
                                    /\ CallsFrom(i, j, NextOf(k, j) - 1)
  BY <1>1, <1>2, <1>3, PushedEnd
<1>5. ASSUME NEW j \in Server, j # i PROVE Keeps(i, j) \/ Advances(i, j) \/ BacksUp(i, j)
  <2>1. node'[i].match[j] = k.match[j] /\ CallsFrom(i, j, NextOf(k, j) - 1)
    BY <1>4, <1>5
  <2>2. CASE k.match[j] = node[i].match[j] /\ NextOf(k, j) = NextOf(node[i], j)
    BY <2>1, <2>2 DEF Keeps
  <2>3. ASSUME NEW m \in Replies(i, j), m.success, m.term <= hs[i].term,
               k.match[j] \in {m.match, m.hint - 1, node[i].match[j]}
        PROVE  Advances(i, j)
    BY <2>1, <2>3 DEF Advances
  <2>4. ASSUME NEW m \in Replies(i, j), ~m.success, m.term <= hs[i].term,
               k.match[j] = node[i].match[j],
               m.conflictIndex > 0 => NextOf(k, j) = BackTo(node[i].log, m)
        PROVE  BacksUp(i, j)
    BY <2>1, <2>4 DEF BacksUp
  <2> QED BY <1>5, <2>2, <2>3, <2>4 DEF Credits
<1>6. Leads(i)
  BY <1>4, <1>5 DEF Leads
<1> QED BY <1>4, <1>6 DEF MatchStep

\* The same for a handler in which no reply counts.
LEMMA SameCredits ==
    ASSUME TypeOK, LogInv, Uncompacted, NEW i \in Server, NEW k \in Nodes, Still(node[i], k)
    PROVE  Credits(i, k) /\ Plain(k)
<1>1. Plain(node[i]) /\ Quiet(node[i], k) /\ k.match = node[i].match /\ k.next = node[i].next
  BY PlainNode DEF Still
<1>2. Plain(k)
  BY <1>1, QuietGrows DEF Grown
<1>3. \A j \in Server : NextOf(k, j) = NextOf(node[i], j)
  BY <1>1 DEF NextOf, Quiet
<1> QED BY <1>1, <1>2, <1>3 DEF Credits

\* Who has just been elected.
LEMMA ElectedEnd ==
    ASSUME TypeOK, LogInv, Uncompacted, NEW i \in Server, LogStep(i),
           role'[i] = "leader", ~(role[i] = "leader" /\ hs'[i].term = hs[i].term),
           hs'[i].term \in Nat,
           NEW n, Pushed(Elected(node[i], i, hs'[i].term), n, i, hs'[i].term),
           NEW done, NEW replies, NEW calls, Finish(i, n, done, replies, calls),
           Unrelated(replies), Unrelated(calls)
    PROVE  MatchStep(i)
<1> DEFINE term == hs'[i].term
           len  == Len(node[i].log.ents)
           r == ResetProgress(node[i], i)
           b == Elected(node[i], i, term)
<1>1. Plain(node[i]) /\ node[i].out = {}
  BY PlainNode
<1>2. /\ Plain(r) /\ Quiet(node[i], r) /\ Pushed(r, b, i, term) /\ Ends(b, term)
      /\ r.match[i] <= Len(r.log.ents)
      /\ \A j \in Server : j # i => r.match[j] = 0 /\ NextOf(r, j) = len + 1
  BY <1>1, ElectedPushes
<1>3. Pushed(b, n, i, term)
  OBVIOUS
<1> HIDE DEF r, b
<1>4. Pushed(r, n, i, term) /\ Ends(n, term) /\ r.out = {}
  <2>1. Pushed(r, n, i, term)
    BY <1>2, <1>3, PushedTrans
  <2>2. Plain(b) /\ Grown(b, n, term)
    BY <1>2, <1>3 DEF Pushed, Grown
  <2> QED BY <1>1, <1>2, <2>1, <2>2, EndsGrow DEF Quiet
<1>5. /\ StartsCalls(i) /\ SendsReplies(i)
      /\ Len(node'[i].log.ents) > 0
      /\ node'[i].log.ents[Len(node'[i].log.ents)].term = hs'[i].term
      /\ node'[i].match[i] <= Len(node'[i].log.ents)
      /\ \A j \in Server : j # i => /\ node'[i].match[j] = r.match[j]
                                    /\ CallsFrom(i, j, NextOf(r, j) - 1)
  BY <1>2, <1>4, PushedEnd
<1>6. len \in Nat
  BY <1>1, PlainLog
<1>7. \A j \in Server : j # i => node'[i].match[j] = 0 /\ CallsFrom(i, j, len)
  <2>1. (len + 1) - 1 = len
    BY <1>6
  <2> HIDE DEF len
  <2> QED BY <1>2, <1>5, <2>1
<1>8. Leads(i)
  BY <1>5, <1>7 DEF Leads
<1> QED BY <1>5, <1>8 DEF MatchStep

\* Who leads no more, or never did, and leaves the log alone.
LEMMA QuietEnd ==
    ASSUME TypeOK, NEW i \in Server, LogStep(i), role'[i] # "leader",
           NEW n \in Nodes, n.log = node[i].log, n.out = {},
           NEW done, NEW replies, NEW calls, Finish(i, n, done, replies, calls),
           Unrelated(replies), Unrelated(calls)
    PROVE  MatchStep(i)
<1>1. /\ node'[i].log = node[i].log
      /\ \A m \in msgs' : m \in msgs \cup replies \cup calls
  BY FinishProgress
<1>2. \A m \in msgs' : m.type \in {"AppendEntries", "AppendEntriesReply"} => m \in msgs
  BY <1>1 DEF Unrelated
<1> QED BY <1>1, <1>2 DEF MatchStep, StartsCalls, SendsReplies, Follows

-----------------------------------------------------------------------------
(***************************************************************************)
(* Every action is such a step.                                            *)
(***************************************************************************)

LEMMA NoneUnrelated == Unrelated({})
BY DEF Unrelated

LEMMA LeaderEnds ==
    ASSUME TypeOK, LogInv, Uncompacted, LeadersHold, NEW i \in Server, role[i] = "leader"
    PROVE  Ends(node[i], hs[i].term)
BY DEF LeadersHold, Ends

\* A handler of a leader in which no message counts.
LEMMA LeaderSends ==
    ASSUME TypeOK, LogInv, Uncompacted, LeadersHold, NEW i \in Server, LogStep(i),
           role[i] = "leader", role'[i] = "leader", hs'[i].term = hs[i].term,
           NEW n, Pushed(node[i], n, i, hs[i].term),
           NEW done, NEW replies, Unrelated(replies), Finish(i, n, done, replies, {})
    PROVE  MatchStep(i)
<1> DEFINE none == {}
<1>1. Unrelated(none) /\ Finish(i, n, done, replies, none)
  BY NoneUnrelated
<1> HIDE DEF none
<1>2. node[i] \in Nodes /\ Still(node[i], node[i])
  BY PlainNode DEF Still, Quiet
<1>3. Credits(i, node[i])
  BY <1>2, SameCredits
<1> QED BY <1>1, <1>3, LeaderEnd

\* As long as nobody takes a snapshot, the end of a tick takes none.
LEMMA NoSnapshotTaken ==
    ASSUME TypeOK, NEW i \in Server, NEW n, Plain(n), NEW done, NEW replies, NEW calls,
           Finish(i, Housekeeping(n), done, replies, calls), Uncompacted'
    PROVE  Housekeeping(n).snap.index = 0
<1> DEFINE b == Housekeeping(n)
<1>1. b \in Nodes /\ node' = [node EXCEPT ![i] = [b EXCEPT !.out = {}]]
  BY HousekeepingType DEF Finish, Plain
<1> HIDE DEF b
<1>2. node'[i].snap = b.snap
  <2>1. [b EXCEPT !.out = {}].snap = b.snap
    BY <1>1 DEF Nodes
  <2> QED BY <1>1, <2>1 DEF TypeOK
<1> QED BY <1>2 DEF Uncompacted, b

LEMMA TickMatch ==
    ASSUME TypeOK, LogInv, Uncompacted, Uncompacted', LeadersHold,
           NEW i \in Server, Heartbeat(i) \/ IdleTick(i)
    PROVE  MatchStep(i)
<1> DEFINE term == hs[i].term
           none == {}
<1>1. Plain(node[i]) /\ term \in Nat /\ node[i].out = {} /\ Unrelated(none)
  BY PlainNode, NoneUnrelated
<1>2. LogStep(i) /\ UNCHANGED <<hs, role>>
  BY TickLogs DEF Heartbeat, IdleTick
<1>3. CASE Heartbeat(i)
  <2> DEFINE n == Bcast(node[i], i, term)
             b == Housekeeping(n)
  <2>1. role[i] = "leader" /\ Finish(i, b, none, none, {})
    BY <1>3 DEF Heartbeat
  <2>2. Pushed(node[i], n, i, term) /\ Plain(n)
    BY <1>1, <2>1, LeaderEnds, BcastPushes DEF Pushed, Grown
  <2> HIDE DEF n
  <2>3. Pushed(n, b, i, term)
    BY <2>1, <2>2, NoSnapshotTaken, HousekeepingPushes
  <2>4. Pushed(node[i], b, i, term)
    BY <1>1, <2>2, <2>3, PushedTrans
  <2> HIDE DEF b, none
  <2> QED BY <1>1, <1>2, <2>1, <2>4, LeaderSends
<1>4. CASE IdleTick(i)
  <2> DEFINE b == Housekeeping(node[i])
  <2>1. Finish(i, b, none, none, {})
    BY <1>4 DEF IdleTick
  <2>2. b.snap.index = 0
    BY <1>1, <2>1, NoSnapshotTaken
  <2>3. Pushed(node[i], b, i, term) /\ Quiet(node[i], b) /\ b \in Nodes
    BY <1>1, <2>2, HousekeepingPushes, HousekeepingQuiet
  <2> HIDE DEF b
  <2>4. CASE role[i] = "leader"
    <3> HIDE DEF none
    <3> QED BY <1>1, <1>2, <2>1, <2>3, <2>4, LeaderSends
  <2>5. CASE role[i] # "leader"
    <3>1. b.log = node[i].log /\ b.out = {} /\ role'[i] # "leader"
      BY <1>1, <1>2, <2>3, <2>5 DEF Quiet
    <3>2. Finish(i, b, none, none, none)
      BY <2>1
    <3> HIDE DEF none
    <3> QED BY <1>1, <1>2, <2>3, <3>1, <3>2, QuietEnd
  <2> QED BY <2>4, <2>5
<1> QED BY <1>3, <1>4

LEMMA ProposeMatch ==
    ASSUME TypeOK, LogInv, Uncompacted, LeadersHold,
           NEW i \in Server, NEW v \in Value, Propose(i, v)
    PROVE  MatchStep(i)
<1> DEFINE term == hs[i].term
           a == AppendData(node[i], i, term, "normal", v)
           w == [a EXCEPT !.waiting = @ \cup {LastIndex(a.log)}]
           c == MaybeCommit(w, i, term)
           b == Bcast(c, i, term)
           none == {}
<1>1. Plain(node[i]) /\ term \in Nat /\ Unrelated(none)
  BY PlainNode, NoneUnrelated
<1>2. LogStep(i) /\ role[i] = "leader" /\ UNCHANGED <<hs, role>> /\ Finish(i, b, none, none, {})
  BY ProposeLogs DEF Propose
<1>3. Pushed(node[i], a, i, term) /\ Ends(a, term) /\ Plain(a)
  <2>1. <<"normal", v>> \in Payloads
    BY DEF Payloads
  <2> QED BY <1>1, <2>1, AppendPushes DEF Pushed, Grown
<1> HIDE DEF a
<1>4. w \in Nodes /\ Still(a, w)
  <2>1. a \in Nodes
    BY <1>3 DEF Plain
  <2>2. LastIndex(a.log) \in Nat
    BY <2>1, LogReads DEF Nodes
  <2> QED BY <2>1, <2>2 DEF Nodes, Quiet, Still
<1> HIDE DEF w
<1>5. Pushed(a, w, i, term) /\ Plain(w) /\ Ends(w, term)
  BY <1>3, <1>4, StillPushes, EndsGrow DEF Pushed, Grown
<1>6. Pushed(w, c, i, term) /\ Plain(c) /\ Ends(c, term)
  BY <1>1, <1>5, CommitPushes, EndsGrow DEF Pushed, Grown
<1> HIDE DEF c
<1>7. Pushed(c, b, i, term)
  BY <1>1, <1>6, BcastPushes
<1> HIDE DEF b
<1>8. Pushed(node[i], b, i, term)
  <2>1. Pushed(node[i], w, i, term)
    BY <1>1, <1>3, <1>5, PushedTrans
  <2>2. Pushed(node[i], c, i, term)
    BY <1>1, <1>6, <2>1, PushedTrans
  <2> QED BY <1>1, <1>7, <2>2, PushedTrans
<1> HIDE DEF none
<1> QED BY <1>1, <1>2, <1>8, LeaderSends

LEMMA LinearizableReadMatch ==
    ASSUME TypeOK, LogInv, Uncompacted, LeadersHold, NEW i \in Server, LinearizableRead(i)
    PROVE  MatchStep(i)
<1> DEFINE n == node[i]
           term == hs[i].term
           r == Read(i, n.commit, term, Promised)
           a == [n EXCEPT !.reads = @ \cup {r}]
           c == Bcast(a, i, term)
           b == TryFinishReads(c)
           none == {}
<1>1. Plain(n) /\ term \in Nat /\ n \in Nodes /\ Unrelated(none)
  BY PlainNode, NoneUnrelated
<1>2. LogStep(i) /\ role[i] = "leader" /\ UNCHANGED <<hs, role>> /\ Finish(i, b, none, none, {})
  BY LinearizableReadLogs DEF LinearizableRead
<1>3. r \in Reads
  <2>1. Promised \subseteq Entries
    BY DEF Promised, TypeOK, Nodes
  <2>2. n.commit \in Nat
    BY <1>1 DEF Nodes
  <2> QED BY <1>1, <2>1, <2>2 DEF Read, Reads
<1> HIDE DEF r
<1>4. a \in Nodes /\ Still(n, a) /\ Ends(n, term)
  BY <1>1, <1>2, <1>3, LeaderEnds DEF Nodes, Quiet, Still
<1> HIDE DEF a
<1>5. Pushed(n, a, i, term) /\ Plain(a) /\ Ends(a, term)
  BY <1>1, <1>4, StillPushes, EndsGrow DEF Pushed, Grown
<1>6. Pushed(a, c, i, term) /\ Plain(c) /\ c \in Nodes
  BY <1>1, <1>5, BcastPushes DEF Pushed, Grown, Plain
<1> HIDE DEF c
<1>7. Pushed(c, b, i, term)
  <2>1. Still(c, b) /\ b \in Nodes
    BY <1>1, <1>6, StillSteps, TryFinishReadsType
  <2> QED BY <1>6, <2>1, StillPushes
<1> HIDE DEF b
<1>8. Pushed(n, b, i, term)
  <2>1. Pushed(n, c, i, term)
    BY <1>1, <1>5, <1>6, PushedTrans
  <2> QED BY <1>1, <1>7, <2>1, PushedTrans
<1> HIDE DEF none
<1> QED BY <1>1, <1>2, <1>8, LeaderSends

LEMMA ChangeMembershipMatch ==
    ASSUME TypeOK, LogInv, Uncompacted, LeadersHold,
           NEW i \in Server, NEW c \in Changes, ChangeMembership(i, c)
    PROVE  MatchStep(i)
<1> DEFINE next == Changed(node[i].conf, c)
           term == hs[i].term
           b    == Accept(node[i], i, term, "config", next)
           none == {}
<1>1. Plain(node[i]) /\ term \in Nat /\ node[i] \in Nodes /\ Unrelated(none)
  BY PlainNode, NoneUnrelated
<1>2. LogStep(i) /\ role[i] = "leader" /\ UNCHANGED <<hs, role>> /\ Finish(i, b, none, none, {})
  BY ChangeMembershipLogs DEF ChangeMembership
<1>3. <<"config", next>> \in Payloads
  <2>1. node[i].conf \in Membership
    BY <1>1 DEF Nodes
  <2>2. c.add \in Server \cup {None}
    BY BoundsAssumption
  <2>3. next \in Membership
    BY <2>1, <2>2 DEF Changed, Membership
  <2> QED BY <2>3 DEF Payloads
<1>4. Pushed(node[i], b, i, term)
  BY <1>1, <1>3, AcceptPushes
<1> HIDE DEF b, none
<1> QED BY <1>1, <1>2, <1>4, LeaderSends

LEMMA StepDownMatch ==
    ASSUME TypeOK, LogInv, Uncompacted, NEW i \in Server, NEW term \in Nat, NEW done,
           BecomeFollower(i, term), granted' = granted, Finish(i, FailPending(node[i]), done, {}, {})
    PROVE  MatchStep(i)
<1> DEFINE n == FailPending(node[i])
           none == {}
<1>1. node[i] \in Nodes /\ node[i].out = {} /\ Unrelated(none) /\ 0 \in Nat
  BY PlainNode, NoneUnrelated
<1>2. Quiet(node[i], n) /\ n \in Nodes
  BY <1>1, StillSteps, FailPendingType DEF Still
<1>3. LogStep(i) /\ Finish(i, n, done, none, none)
  BY StepDownLogs
<1>4. role'[i] # "leader"
  BY FollowerRoles
<1> HIDE DEF n, none
<1> QED BY <1>1, <1>2, <1>3, <1>4, QuietEnd DEF Quiet

LEMMA CampaignMatch ==
    ASSUME TypeOK, LogInv, Uncompacted, Uncompacted', NEW i \in Server, Campaign(i)
    PROVE  MatchStep(i)
<1> DEFINE term == hs[i].term + 1
           wins == 1 >= Quorum(node[i].conf)
           e    == Elected(node[i], i, term)
           n    == IF wins THEN e ELSE node[i]
           b    == Housekeeping(n)
           calls == IF wins THEN {} ELSE VoteCalls(i, term)
           none == {}
<1>1. /\ Plain(node[i]) /\ term \in Nat /\ hs[i].term \in Nat /\ term # hs[i].term
      /\ node[i].out = {} /\ Unrelated(none)
  BY PlainNode, NoneUnrelated
<1>2. /\ LogStep(i) /\ hs' = [hs EXCEPT ![i] = Persisted(i, term, i)]
      /\ role' = [role EXCEPT ![i] = IF wins THEN "leader" ELSE "candidate"]
      /\ Finish(i, b, none, none, calls)
  BY CampaignLogs DEF Campaign
<1>3. hs'[i].term = term /\ (role'[i] = "leader" <=> wins)
  <2> HIDE DEF wins
  <2> QED BY <1>2 DEF Persisted, TypeOK
<1>4. Unrelated(calls)
  BY DEF VoteCalls, Unrelated
<1>5. Plain(e)
  BY <1>1, ElectedPushes DEF Pushed, Grown
<1> HIDE DEF term, wins, e, calls
<1>6. Plain(n)
  BY <1>1, <1>5
<1>7. Pushed(n, b, i, term) /\ Quiet(n, b) /\ b \in Nodes
  BY <1>2, <1>6, NoSnapshotTaken, HousekeepingPushes, HousekeepingQuiet
<1> HIDE DEF b, none
<1>8. CASE wins
  <2>1. Pushed(e, b, i, term)
    BY <1>7, <1>8
  <2>2. Pushed(Elected(node[i], i, hs'[i].term), b, i, hs'[i].term)
    BY <1>3, <2>1 DEF e
  <2> HIDE DEF n
  <2>3. role'[i] = "leader" /\ ~(role[i] = "leader" /\ hs'[i].term = hs[i].term) /\ hs'[i].term \in Nat
    BY <1>1, <1>3, <1>8
  <2> QED BY <1>1, <1>2, <1>4, <2>2, <2>3, ElectedEnd
<1>9. CASE ~wins
  <2>1. b.log = node[i].log /\ b.out = {}
    BY <1>1, <1>7, <1>9 DEF Quiet
  <2> HIDE DEF n
  <2> QED BY <1>1, <1>2, <1>3, <1>4, <1>7, <1>9, <2>1, QuietEnd
<1> QED BY <1>8, <1>9

LEMMA HandleRequestVoteMatch ==
    ASSUME TypeOK, LogInv, Uncompacted, LeadersHold, NEW m \in msgs, HandleRequestVote(m)
    PROVE  MatchStep(m.to)
<1> DEFINE i     == m.to
           newer == m.term > hs[i].term
           known == SteppedDown(i, m.term)
           grant == /\ m.term >= hs[i].term
                    /\ known.votedFor \in {None, m.from}
                    /\ UpToDate(node[i].log, m.lastIndex, m.lastTerm)
           h     == IF grant THEN Persisted(i, m.term, m.from) ELSE known
           n     == IF newer THEN FailPending(node[i]) ELSE node[i]
           replies == {VoteReply(m, known.term, grant)}
           none  == {}
<1>1. /\ LogStep(i) /\ hs' = [hs EXCEPT ![i] = h]
      /\ role' = [role EXCEPT ![i] = IF newer THEN "follower" ELSE @]
      /\ Finish(i, n, Delivered(m), replies, none)
  BY HandleRequestVoteLogs DEF HandleRequestVote
<1>2. i \in Server /\ m.term \in Nat /\ hs[i].term \in Nat
  BY MessageFields DEF TypeOK
<1>3. Unrelated(replies) /\ Unrelated(none)
  BY NoneUnrelated DEF Unrelated, VoteReply
<1>4. Plain(node[i]) /\ node[i].out = {} /\ node[i] \in Nodes /\ 0 \in Nat
  BY <1>2, PlainNode
<1>5. Still(node[i], n) /\ n \in Nodes
  <2>1. Still(node[i], FailPending(node[i])) /\ FailPending(node[i]) \in Nodes
    BY <1>2, <1>4, StillSteps, FailPendingType
  <2> QED BY <1>4, <2>1 DEF Quiet, Still
<1> HIDE DEF n, replies, none
<1>6. CASE role'[i] = "leader"
  <2>1. ~newer /\ role[i] = "leader"
    BY <1>1, <1>2, <1>6 DEF TypeOK
  <2>2. known = hs[i]
    BY <2>1 DEF SteppedDown
  <2>3. grant => m.term = hs[i].term
    BY <1>2, <2>1
  <2>4. Persisted(i, m.term, m.from).term = m.term
    BY DEF Persisted
  <2>5. h.term = hs[i].term
    <3> HIDE DEF grant, known
    <3> QED BY <2>2, <2>3, <2>4
  <2> HIDE DEF h
  <2>6. hs'[i].term = hs[i].term
    BY <1>1, <1>2, <2>5 DEF TypeOK
  <2>7. Pushed(node[i], n, i, hs[i].term)
    BY <1>2, <1>4, <1>5, StillPushes
  <2> HIDE DEF known
  <2>8. Finish(i, n, Delivered(m), replies, {})
    BY <1>1 DEF none
  <2> QED BY <1>1, <1>2, <1>3, <1>6, <2>1, <2>6, <2>7, <2>8, LeaderSends
<1>7. CASE role'[i] # "leader"
  <2>1. n.log = node[i].log /\ n.out = {}
    BY <1>4, <1>5 DEF Still, Quiet
  <2> QED BY <1>1, <1>2, <1>3, <1>5, <1>7, <2>1, QuietEnd
<1> QED BY <1>6, <1>7

LEMMA OnVoteReplyMatch ==
    ASSUME TypeOK, LogInv, Uncompacted, LeadersHold, ElectionInv, NEW m \in msgs, OnVoteReply(m)
    PROVE  MatchStep(m.to)
<1> DEFINE i       == m.to
           counted == votes[i] \cup {m.from}
           wins    == Cardinality(counted) >= Quorum(node[i].conf)
           n       == IF wins THEN Elected(node[i], i, hs[i].term) ELSE node[i]
           none    == {}
<1>1. /\ i \in Server /\ m.term \in Nat /\ hs[i].term \in Nat /\ Plain(node[i])
      /\ node[i] \in Nodes /\ node[i].out = {} /\ granted' = granted /\ Unrelated(none)
  BY MessageFields, PlainNode, NoneUnrelated DEF TypeOK, OnVoteReply
<1>2. CASE /\ BecomeFollower(i, m.term)
           /\ Finish(i, FailPending(node[i]), {m}, {}, {})
  BY <1>1, <1>2, StepDownMatch
<1>3. CASE /\ m.granted /\ UNCHANGED hs
           /\ role'  = [role EXCEPT ![i] = IF wins THEN "leader" ELSE @]
           /\ Finish(i, n, {m}, {}, {})
  <2>1. role[i] = "candidate"
    BY <1>3 DEF ElectionInv, BallotsGenuine, OnVoteReply
  <2>2. LogStep(i) /\ hs'[i].term = hs[i].term /\ Finish(i, n, {m}, none, none)
    BY <1>3, OnVoteReplyLogs
  <2>3. (wins => role'[i] = "leader") /\ (~wins => role'[i] = "candidate")
    <3> HIDE DEF wins
    <3> QED BY <1>1, <1>3, <2>1 DEF TypeOK
  <2>4. CASE wins
    <3> DEFINE e == Elected(node[i], i, hs'[i].term)
    <3>1. n = e
      BY <2>2, <2>4
    <3>2. Plain(e) /\ e \in Nodes
      BY <1>1, <2>2, ElectedPushes DEF Pushed, Grown, Plain
    <3>3. Pushed(e, e, i, hs'[i].term)
      <4> HIDE DEF e
      <4>1. Still(e, e)
        BY DEF Still, Quiet
      <4> DEFINE term == hs'[i].term
      <4> HIDE DEF term
      <4>2. Pushed(e, e, i, term)
        BY <1>1, <3>2, <4>1, StillPushes
      <4> QED BY <4>2 DEF term
    <3>4. Finish(i, e, {m}, none, none)
      BY <2>2, <3>1
    <3> HIDE DEF n, none, wins
    <3> QED BY <1>1, <2>1, <2>2, <2>3, <2>4, <3>3, <3>4, ElectedEnd
  <2>5. CASE ~wins
    <3>1. n = node[i]
      BY <2>5
    <3> HIDE DEF n, none, wins
    <3> QED BY <1>1, <2>2, <2>3, <2>5, <3>1, QuietEnd
  <2> QED BY <2>4, <2>5
<1> QED BY <1>2, <1>3 DEF OnVoteReply

\* A handler that answers with r and calls nobody.
LEMMA ReplyEnd ==
    ASSUME TypeOK, NEW i \in Server, NEW n \in Nodes, n.out = {},
           NEW done, NEW r, r.type = "AppendEntriesReply", NEW replies, replies = {r},
           NEW calls, calls = {}, Finish(i, n, done, replies, calls)
    PROVE  /\ StartsCalls(i)
           /\ \A x \in msgs' : x.type = "AppendEntriesReply" => x \in msgs \/ x = r
           /\ \A x \in msgs' : x.type = "AppendEntries" => x \in msgs
           /\ node'[i].log = n.log /\ node'[i].match = n.match
           /\ \A j \in Server : NextOf(node'[i], j) = NextOf(n, j)
<1>1. /\ node'[i].log = n.log /\ node'[i].match = n.match
      /\ \A j \in Server : NextOf(node'[i], j) = NextOf(n, j)
      /\ \A x \in msgs' : x \in msgs \cup replies \cup calls \cup n.out
  BY FinishProgress
<1>2. \A x \in msgs' : x \in msgs \/ x = r
  BY <1>1
<1> QED BY <1>1, <1>2 DEF StartsCalls

\* The term of a node that accepts or rejects a call is that of the call.
LEMMA CalledTerm ==
    ASSUME TypeOK, NEW i \in Server, NEW term \in Nat, term >= hs[i].term,
           \/ BecomeFollower(i, term)
           \/ term = hs[i].term /\ UNCHANGED hs
    PROVE  hs'[i].term = term
<1>1. hs[i].term \in Nat
  BY DEF TypeOK
<1>2. CASE BecomeFollower(i, term)
  <2>1. SteppedDown(i, term).term = term
    BY <1>1 DEF SteppedDown, Persisted
  <2> QED BY <1>2, <2>1 DEF BecomeFollower, TypeOK
<1> QED BY <1>2

LEMMA HandleAppendEntriesMatch ==
    ASSUME TypeOK, LogInv, LogInv', TypeOK', Uncompacted, LeadersHold, CallsElected,
           NEW m \in msgs, HandleAppendEntries(m)
    PROVE  MatchStep(m.to)
<1> DEFINE i == m.to
           stepsDown == m.term > hs[i].term \/ role[i] # "follower"
           n     == IF stepsDown THEN FailPending(node[i]) ELSE node[i]
           t     == TakeEntries(n, m.ents)
           taken == FollowCommit(t, m.commit)
           late     == AppendReply(m, hs[i].term, FALSE, 0, 0, 0)
           refused  == Rejection(n.log, m, m.term)
           accepted == AppendReply(m, m.term, TRUE, LastIndex(taken.log), 0, 0)
           none     == {}
<1>1. /\ m \in AppendsUnderWay /\ m \in AppendCalls /\ m.type = "AppendEntries"
      /\ i \in Server /\ m.from \in Server /\ m.term \in Nat /\ m.ents \in Seq(Entries)
  <2>1. m \in AppendsUnderWay
    BY DEF HandleAppendEntries, AppendsUnderWay
  <2> QED BY <2>1, CallTypes
<1>2. Plain(node[i]) /\ node[i].out = {} /\ hs[i].term \in Nat /\ node[i] \in Nodes
  BY <1>1, PlainNode
<1>3. Quiet(node[i], n) /\ n \in Nodes
  <2>1. Quiet(node[i], FailPending(node[i])) /\ FailPending(node[i]) \in Nodes
    BY <1>1, <1>2, QuietSteps, FailPendingType
  <2> QED BY <1>2, <2>1 DEF Quiet
<1>4. LogStep(i)
  BY HandleAppendEntriesLogs
<1>5. \/ /\ m.term < hs[i].term /\ UNCHANGED <<hs, role, votes>>
         /\ Finish(i, node[i], Delivered(m), {late}, none)
      \/ /\ m.term >= hs[i].term
         /\ IF stepsDown THEN BecomeFollower(i, m.term) ELSE UNCHANGED <<hs, role, votes>>
         /\ IF Conflicts(n.log, m) THEN Finish(i, n, Delivered(m), {refused}, none)
                                   ELSE Finish(i, taken, Delivered(m), {accepted}, none)
  BY DEF HandleAppendEntries
<1>6. n.log = node[i].log /\ n.out = {} /\ Plain(n)
  BY <1>2, <1>3 DEF Quiet, Plain
<1>7. CASE /\ m.term < hs[i].term /\ UNCHANGED <<hs, role, votes>>
           /\ Finish(i, node[i], Delivered(m), {late}, none)
  <2>1. /\ late.type = "AppendEntriesReply" /\ late.from = i /\ late.to = m.from
        /\ late.sent = m.term /\ late.term = hs[i].term /\ ~late.success
    BY DEF AppendReply
  <2> HIDE DEF late, n
  <2>2. /\ StartsCalls(i)
        /\ \A x \in msgs' : x.type = "AppendEntriesReply" => x \in msgs \/ x = late
        /\ \A x \in msgs' : x.type = "AppendEntries" => x \in msgs
        /\ node'[i].log = node[i].log /\ node'[i].match = node[i].match
        /\ \A j \in Server : NextOf(node'[i], j) = NextOf(node[i], j)
    BY <1>1, <1>2, <1>7, <2>1, ReplyEnd
  <2>3. Answers(i, m, late)
    BY <1>1, <1>2, <1>7, <2>1 DEF Answers
  <2>4. SendsReplies(i)
    BY <1>1, <2>2, <2>3 DEF SendsReplies
  <2>5. role'[i] = role[i] /\ hs'[i] = hs[i]
    BY <1>7
  <2>6. ASSUME NEW j \in Server PROVE Keeps(i, j)
    <3>1. NextOf(node[i], j) \in Nat
      BY <1>2, NextOfType
    <3> QED BY <2>2, <3>1 DEF Keeps, CallsFrom
  <2>7. role'[i] = "leader" => Leads(i)
    BY <1>1, <2>2, <2>5, <2>6 DEF Leads, LeadersHold
  <2>8. Follows(i)
    BY <2>2 DEF Follows
  <2> QED BY <1>4, <2>2, <2>4, <2>7, <2>8 DEF MatchStep
<1>8. CASE /\ m.term >= hs[i].term
           /\ IF stepsDown THEN BecomeFollower(i, m.term) ELSE UNCHANGED <<hs, role, votes>>
           /\ IF Conflicts(n.log, m) THEN Finish(i, n, Delivered(m), {refused}, none)
                                     ELSE Finish(i, taken, Delivered(m), {accepted}, none)
  <2>1. role'[i] = "follower" /\ hs'[i].term = m.term
    <3>1. CASE stepsDown
      BY <1>1, <1>8, <3>1, CalledTerm DEF BecomeFollower, TypeOK
    <3>2. CASE ~stepsDown
      <4>1. m.term = hs[i].term
        BY <1>1, <1>2, <1>8, <3>2
      <4> QED BY <1>1, <1>8, <3>2, <4>1
    <3> QED BY <3>1, <3>2
  <2>2. CASE Conflicts(n.log, m)
    <3>1. /\ refused.type = "AppendEntriesReply" /\ refused.from = i /\ refused.to = m.from
          /\ refused.sent = m.term /\ refused.term = m.term /\ ~refused.success
      BY DEF Rejection, AppendReply
    <3>2. refused = Rejection(node[i].log, m, m.term) /\ Conflicts(node[i].log, m)
      BY <1>6, <2>2
    <3> DEFINE replies == {refused}
    <3>3. Finish(i, n, Delivered(m), replies, none) /\ replies = {refused} /\ none = {}
      BY <1>8, <2>2
    <3> HIDE DEF refused, n, none, replies
    <3>4. /\ StartsCalls(i) /\ node'[i].log = node[i].log
          /\ \A x \in msgs' : x.type = "AppendEntriesReply" => x \in msgs \/ x = refused
      <4>1. n \in Nodes /\ n.out = {}
        BY <1>3, <1>6
      <4>2. refused.type = "AppendEntriesReply" /\ i \in Server
        BY <1>1, <3>1
      <4>3. /\ StartsCalls(i) /\ node'[i].log = n.log
            /\ \A x \in msgs' : x.type = "AppendEntriesReply" => x \in msgs \/ x = refused
        BY <3>3, <4>1, <4>2, ReplyEnd
      <4> QED BY <1>6, <4>3
    <3>5. Answers(i, m, refused)
      BY <1>1, <2>1, <3>1, <3>2, <3>4 DEF Answers
    <3>6. SendsReplies(i)
      BY <1>1, <3>4, <3>5 DEF SendsReplies
    <3> QED BY <1>4, <2>1, <3>4, <3>6 DEF MatchStep, Follows
  <2>3. CASE ~Conflicts(n.log, m)
    <3>1. /\ accepted.type = "AppendEntriesReply" /\ accepted.from = i /\ accepted.to = m.from
          /\ accepted.sent = m.term /\ accepted.term = m.term
          /\ accepted.match = LastIndex(taken.log)
          /\ accepted.hint = m.prevIndex + 1 + Len(m.ents)
      BY DEF AppendReply
    <3> DEFINE replies == {accepted}
    <3>2. Finish(i, taken, Delivered(m), replies, none) /\ replies = {accepted} /\ none = {}
      BY <1>8, <2>3
    <3> HIDE DEF accepted, n, none, replies
    <3>3. Plain(t) /\ t.out = {} /\ Spliced(n.log, m.prevIndex, m.ents, t.log)
      <4> DEFINE es == m.ents
      <4>1. es \in Seq(Entries) /\ Len(es) <= Len(m.ents) /\ \A k \in 1..Len(es) : es[k] = m.ents[k]
        BY <1>1
      <4> HIDE DEF es
      <4> QED BY <1>1, <1>6, <2>3, <4>1, AcceptedSplices DEF es
    <3>4. taken \in Nodes /\ taken.log = t.log /\ taken.out = {}
      <4>1. t \in Nodes /\ m.commit \in Nat
        BY <1>1, <3>3 DEF AppendCalls, Plain
      <4> HIDE DEF t
      <4>2. Quiet(t, taken) /\ taken \in Nodes
        BY <1>1, <1>2, <4>1, QuietSteps, FollowCommitType
      <4> HIDE DEF taken
      <4> QED BY <3>3, <4>2 DEF Quiet
    <3> HIDE DEF t, taken
    <3>5. /\ StartsCalls(i) /\ node'[i].log = taken.log
          /\ \A x \in msgs' : x.type = "AppendEntriesReply" => x \in msgs \/ x = accepted
      <4>1. accepted.type = "AppendEntriesReply" /\ i \in Server
        BY <1>1, <3>1
      <4> QED BY <3>2, <3>4, <4>1, ReplyEnd
    <3>6. Takes(i, m, m.ents)
      <4> DEFINE es == m.ents
      <4>1. /\ es \in Seq(Entries) /\ Len(es) <= Len(m.ents)
            /\ \A k \in 1..Len(es) : es[k] = m.ents[k]
            /\ es = <<>> => m.ents = <<>>
        BY <1>1
      <4>2. Spliced(node[i].log, m.prevIndex, es, node'[i].log) /\ ~Conflicts(node[i].log, m)
        BY <1>6, <2>3, <3>3, <3>4, <3>5
      <4> HIDE DEF es
      <4>3. Takes(i, m, es)
        BY <1>1, <2>1, <4>1, <4>2 DEF Takes
      <4> QED BY <4>3 DEF es
    <3>7. accepted.match = Len(node'[i].log.ents)
      BY <1>1, <3>1, <3>5, StepTypes, AlignedReads
    <3>8. Answers(i, m, accepted)
      BY <1>1, <2>1, <3>1, <3>6, <3>7 DEF Answers
    <3>9. SendsReplies(i)
      BY <1>1, <3>5, <3>8 DEF SendsReplies
    <3>10. Follows(i)
      BY <1>1, <3>6 DEF Follows
    <3> QED BY <1>4, <2>1, <3>5, <3>9, <3>10 DEF MatchStep
  <2> QED BY <2>2, <2>3
<1> HIDE DEF n, taken, late, refused, accepted, none, stepsDown
<1> QED BY <1>5, <1>7, <1>8

\* What leader i makes of reply m.
LEMMA MovedCredits ==
    ASSUME TypeOK, LogInv, Uncompacted, NEW i \in Server, NEW j \in Server, j # i,
           NEW m \in Replies(i, j), m.term <= hs[i].term,
           NEW k, Moved(node[i], k, j),
           \/ m.success /\ k.match[j] \in {m.match, m.hint - 1, node[i].match[j]}
           \/ /\ ~m.success /\ k.match = node[i].match
              /\ m.conflictIndex > 0 => NextOf(k, j) = BackTo(node[i].log, m)
    PROVE  Credits(i, k)
<1>1. Plain(k) /\ Quiet(node[i], k) /\ k.match[i] = node[i].match[i]
  BY DEF Moved
<1>2. ASSUME NEW l \in Server, l # j
      PROVE  k.match[l] = node[i].match[l] /\ NextOf(k, l) = NextOf(node[i], l)
  BY <1>2 DEF Moved, Quiet, NextOf
<1> QED BY <1>1, <1>2 DEF Credits

LEMMA OnAppendReplyMatch ==
    ASSUME TypeOK, LogInv, Uncompacted, LeadersHold, RepliesCurrent, NEW m \in msgs, OnAppendReply(m)
    PROVE  MatchStep(m.to)
<1> DEFINE i    == m.to
           j    == m.from
           term == hs[i].term
           n    == IF m.success THEN Acknowledged(node[i], i, term, m)
                   ELSE BackedUp(node[i], i, term, m)
           none == {}
<1>1. /\ i \in Server /\ j \in Server /\ m.term \in Nat /\ term \in Nat /\ Plain(node[i])
      /\ m \in AppendReplies /\ granted' = granted /\ Unrelated(none)
  BY MessageFields, PlainNode, NoneUnrelated DEF TypeOK, OnAppendReply
<1>2. CASE BecomeFollower(i, m.term) /\ Finish(i, FailPending(node[i]), {m}, {}, {})
  BY <1>1, <1>2, StepDownMatch
<1>3. CASE m.term <= term /\ UNCHANGED <<hs, role, votes>> /\ Finish(i, n, {m}, {}, {})
  <2>1. role[i] = "leader" /\ j # i /\ m \in Replies(i, j)
    BY DEF OnAppendReply, LogInv, NoTransfers, RepliesCurrent, Replies
  <2>2. /\ LogStep(i) /\ role'[i] = "leader" /\ hs'[i].term = term
        /\ Finish(i, n, {m}, none, none)
    BY <1>3, <2>1, OnAppendReplyLogs
  <2>3. Ends(node[i], term)
    BY <1>1, <2>1, LeaderEnds
  <2>4. \E k : Credits(i, k) /\ Pushed(k, n, i, term)
    <3>1. CASE m.success
      <4>1. PICK k : /\ Moved(node[i], k, j)
                     /\ k.match[j] \in {m.match, m.hint - 1, node[i].match[j]}
                     /\ Pushed(k, Acknowledged(node[i], i, term, m), i, term)
        BY <1>1, <2>1, <2>3, AcknowledgedPushes
      <4>2. Credits(i, k)
        BY <1>1, <1>3, <2>1, <3>1, <4>1, MovedCredits
      <4> QED BY <3>1, <4>1, <4>2
    <3>2. CASE ~m.success
      <4>1. PICK k : /\ Moved(node[i], k, j)
                     /\ k.match = node[i].match
                     /\ m.conflictIndex > 0 => NextOf(k, j) = BackTo(node[i].log, m)
                     /\ Pushed(k, BackedUp(node[i], i, term, m), i, term)
        BY <1>1, <2>1, <2>3, BackedUpPushes
      <4>2. Credits(i, k)
        BY <1>1, <1>3, <2>1, <3>2, <4>1, MovedCredits
      <4> QED BY <3>2, <4>1, <4>2
    <3> QED BY <3>1, <3>2
  <2>5. PICK k : Credits(i, k) /\ Pushed(k, n, i, term)
    BY <2>4
  <2> HIDE DEF n, none
  <2> QED BY <1>1, <2>1, <2>2, <2>5, LeaderEnd
<1> QED BY <1>2, <1>3 DEF OnAppendReply

\* A node comes back as a follower with the log of its WAL.
LEMMA RebootedNode ==
    ASSUME TypeOK, NEW i \in Server, NEW hard \in HardStates, NEW wal, NEW snap,
           snap.index = 0, Reboot(i, hard, wal, snap)
    PROVE  role'[i] = "follower" /\ node'[i].log = wal /\ hs'[i].term = hard.term
<1> DEFINE c == MaxOf(hard.commit, snap.index)
           h == [hard EXCEPT !.commit = c]
           b == Booted(i, wal, snap, c, node[i].acked, node[i].missed)
<1>1. /\ hs' = [hs EXCEPT ![i] = h]
      /\ role' = [role EXCEPT ![i] = "follower"]
      /\ node' = [node EXCEPT ![i] = b]
  BY DEF Reboot
<1>2. h.term = hard.term /\ b.log = wal
  BY DEF HardStates, Booted
<1> HIDE DEF b, h
<1> QED BY <1>1, <1>2 DEF TypeOK

LEMMA OrphansKnown ==
    ASSUME LogInv, NEW M \in SUBSET msgs, NEW i
    PROVE  Orphaned(M, i) \subseteq msgs
BY DEF Orphaned, LogInv, NoTransfers

\* A node that comes back has sent nothing new that counts.
LEMMA RebootEnd ==
    ASSUME NEW i \in Server, LogStep(i), role'[i] = "follower", Follows(i),
           \A x \in msgs' : x.type \in {"AppendEntries", "AppendEntriesReply"} => x \in msgs
    PROVE  MatchStep(i)
BY DEF MatchStep, StartsCalls, SendsReplies

LEMMA RestartMatch ==
    ASSUME TypeOK, LogInv, Uncompacted, NEW i \in Server, Restart(i)
    PROVE  MatchStep(i)
<1>1. Plain(node[i]) /\ hs[i] \in HardStates
  BY PlainNode DEF TypeOK, HardStates
<1>2. node[i].wal = node[i].log /\ node[i].snap.index = 0
  BY <1>1, PlainWal
<1>3. role'[i] = "follower" /\ node'[i].log = node[i].log
  BY <1>1, <1>2, RebootedNode DEF Restart
<1>4. \A x \in msgs' : x \in msgs
  BY OrphansKnown DEF Restart
<1>5. LogStep(i)
  BY RestartLogs
<1> QED BY <1>3, <1>4, <1>5, RebootEnd DEF Follows

LEMMA StopWhileServingMatch ==
    ASSUME TypeOK, LogInv, Uncompacted, NoBlanks', NEW m \in msgs, StopWhileServing(m)
    PROVE  MatchStep(m.to)
<1> DEFINE i == m.to
           M == msgs \ Delivered(m)
<1>1. i \in Server /\ Plain(node[i]) /\ hs[i] \in HardStates
  BY MessageFields, PlainNode DEF TypeOK, HardStates
<1>2. node[i].wal = node[i].log /\ node[i].snap.index = 0
  BY <1>1, PlainWal
<1>3. role'[i] = "follower" /\ node'[i].log = node[i].log
  BY <1>1, <1>2, RebootedNode DEF StopWhileServing
<1>4. msgs' \subseteq Orphaned(M, i) \cup ZeroReply(m) /\ M \in SUBSET msgs
  BY DEF StopWhileServing
<1>5. m.type \in {"RequestVote", "AppendEntries"}
  <2>1. m.type \in {"RequestVote", "AppendEntries", "InstallSnapshot", "RequestVoteReply",
                    "AppendEntriesReply", "InstallSnapshotReply"}
    BY DEF TypeOK, Messages, Calls, VoteRequests, AppendCalls, SnapshotCalls, VoteReplies,
           AppendReplies, SnapshotReplies
  <2> QED BY <2>1 DEF StopWhileServing, IsReply, LogInv, NoTransfers
<1>6. ASSUME NEW x \in ZeroReply(m)
      PROVE  x.type = "RequestVoteReply" \/ (x.type = "AppendEntriesReply" /\ x.term = 0)
  <2>1. CASE m.type = "RequestVote"
    BY <2>1 DEF ZeroReply, VoteReply
  <2>2. CASE m.type = "AppendEntries"
    BY <2>2 DEF ZeroReply, AppendReply
  <2> QED BY <1>5, <2>1, <2>2
<1> HIDE DEF M
<1>7. ASSUME NEW x \in msgs', x.type \in {"AppendEntries", "AppendEntriesReply"} PROVE x \in msgs
  <2>1. x \notin ZeroReply(m)
    <3>1. ASSUME x.type = "AppendEntriesReply", x.term = 0 PROVE FALSE
      BY <3>1 DEF NoBlanks
    <3> QED BY <1>6, <1>7, <3>1
  <2> QED BY <1>4, <2>1, OrphansKnown
<1>8. LogStep(i)
  BY StopWhileServingLogs
<1> QED BY <1>1, <1>3, <1>7, <1>8, RebootEnd DEF Follows

LEMMA CrashInHandlerMatch ==
    ASSUME TypeOK, LogInv, Uncompacted, NEW m \in msgs, CrashInHandler(m)
    PROVE  MatchStep(m.to)
<1> DEFINE i     == m.to
           n     == node[i]
           known == SteppedDown(i, m.term)
           M     == msgs \ Delivered(m)
<1>1. i \in Server /\ m.term \in Nat /\ Plain(n) /\ n.out = {} /\ hs[i].term \in Nat
  BY MessageFields, PlainNode DEF TypeOK
<1>2. known \in HardStates /\ known.term = m.term
  <2>1. known \in HardStates
    BY <1>1, SteppedDownType
  <2>2. known.term = IF m.term > hs[i].term THEN m.term ELSE hs[i].term
    BY DEF SteppedDown, Persisted
  <2>3. m.term >= hs[i].term
    BY DEF CrashInHandler
  <2> HIDE DEF known
  <2> QED BY <1>1, <2>1, <2>2, <2>3
<1>3. \A x \in msgs' : x \in msgs
  <2>1. M \in SUBSET msgs /\ msgs' = Orphaned(M, i)
    BY DEF CrashInHandler
  <2> HIDE DEF M
  <2> QED BY <2>1, OrphansKnown
<1>4. \/ Reboot(i, known, n.wal, n.snap)
      \/ /\ m.type = "AppendEntries" /\ ~Conflicts(n.log, m)
         /\ \E k \in 1..Len(m.ents) : Reboot(i, known, TakeEntries(n, SubSeq(m.ents, 1, k)).wal, n.snap)
  BY DEF CrashInHandler
<1>5. LogStep(i)
  BY CrashInHandlerLogs
<1>6. n.wal = n.log /\ n.snap.index = 0
  BY <1>1, PlainWal
<1> HIDE DEF known, M
<1>7. CASE Reboot(i, known, n.wal, n.snap)
  <2>1. role'[i] = "follower" /\ node'[i].log = node[i].log
    BY <1>1, <1>2, <1>6, <1>7, RebootedNode
  <2> QED BY <1>1, <1>3, <1>5, <2>1, RebootEnd DEF Follows
<1>8. ASSUME m.type = "AppendEntries", ~Conflicts(n.log, m), NEW k \in 1..Len(m.ents),
             Reboot(i, known, TakeEntries(n, SubSeq(m.ents, 1, k)).wal, n.snap)
      PROVE  MatchStep(i)
  <2> DEFINE es == SubSeq(m.ents, 1, k)
             t  == TakeEntries(n, es)
  <2>1. m \in AppendsUnderWay /\ m.ents \in Seq(Entries)
    <3>1. m \in AppendsUnderWay
      BY <1>8 DEF AppendsUnderWay
    <3> QED BY <3>1, CallTypes
  <2>2. /\ es \in Seq(Entries) /\ Len(es) <= Len(m.ents) /\ es # <<>>
        /\ \A x \in 1..Len(es) : es[x] = m.ents[x]
    BY <2>1
  <2> HIDE DEF es
  <2>3. Plain(t) /\ Spliced(n.log, m.prevIndex, es, t.log)
    BY <1>1, <1>8, <2>2, AcceptedSplices
  <2>4. Reboot(i, known, t.wal, n.snap)
    BY <1>8 DEF es
  <2> HIDE DEF t
  <2>5. t.wal = t.log
    BY <2>3, PlainWal
  <2>6. role'[i] = "follower" /\ node'[i].log = t.log /\ hs'[i].term = m.term
    BY <1>1, <1>2, <1>6, <2>4, <2>5, RebootedNode
  <2>7. Takes(i, m, es)
    BY <1>8, <2>1, <2>2, <2>3, <2>6 DEF Takes
  <2> QED BY <1>1, <1>3, <1>5, <2>6, <2>7, RebootEnd DEF Follows
<1> QED BY <1>4, <1>7, <1>8

-----------------------------------------------------------------------------
LEMMA NextMatchStep ==
    ASSUME TypeOK, TypeOK', LogInv, LogInv', Uncompacted, Uncompacted', NoBlanks', ElectionInv,
           MatchInv, Next
    PROVE  \E s \in Server : MatchStep(s)
<1>1. LeadersHold /\ CallsElected /\ RepliesCurrent
  BY DEF MatchInv
<1>2. ASSUME NEW i \in Server,
             \/ Campaign(i) \/ Heartbeat(i) \/ IdleTick(i) \/ Restart(i) \/ LinearizableRead(i)
             \/ \E v \in Value : Propose(i, v)
             \/ \E c \in Changes : ChangeMembership(i, c)
      PROVE  MatchStep(i)
  BY <1>1, <1>2, CampaignMatch, TickMatch, RestartMatch, LinearizableReadMatch, ProposeMatch,
     ChangeMembershipMatch
<1>3. ASSUME NEW m \in msgs,
             \/ HandleRequestVote(m) \/ OnVoteReply(m) \/ HandleAppendEntries(m)
             \/ OnAppendReply(m) \/ HandleInstallSnapshot(m) \/ OnInstallReply(m)
             \/ InstallFails(m) \/ CrashInHandler(m) \/ StopWhileServing(m)
      PROVE  m.to \in Server /\ MatchStep(m.to)
  <2>1. m.to \in Server
    BY MessageFields DEF TypeOK
  <2> QED BY <1>1, <1>3, <2>1, HandleRequestVoteMatch, OnVoteReplyMatch, HandleAppendEntriesMatch,
             OnAppendReplyMatch, InstallLogs, CrashInHandlerMatch, StopWhileServingMatch
<1> QED BY <1>2, <1>3 DEF Next

LEMMA NextMatch ==
    ASSUME TypeOK, TypeOK', LogInv, LogInv', Uncompacted, Uncompacted', NoBlanks',
           ElectionInv, ElectionInv', ElectionSafety', IsFiniteSet(Voters), MatchInv, [Next]_vars
    PROVE  MatchInv'
<1>1. CASE Next
  BY <1>1, NextMatchStep, MatchStepKeeps
<1>2. CASE UNCHANGED vars
  <2>1. UNCHANGED <<hs, role, node, msgs, granted>>
    BY <1>2 DEF vars
  <2>2. /\ Links' = Links /\ AppendsUnderWay' = AppendsUnderWay
        /\ \A i, j \in Server : Replies(i, j)' = Replies(i, j) /\ Sent(i, j)' = Sent(i, j)
    BY <2>1 DEF Links, AppendsUnderWay, Replies, Sent
  <2>3. TermsOrdered' /\ CallsElected' /\ RepliesCurrent' /\ LeadersHold'
    BY <2>1, <2>2 DEF MatchInv, TermsOrdered, CallsElected, RepliesCurrent, LeadersHold
  <2>4. ProgressKnown'
    BY <2>1, <2>2 DEF MatchInv, ProgressKnown, Unreached, Following, Forked
  <2> QED BY <2>3, <2>4 DEF MatchInv
<1> QED BY <1>1, <1>2

\* As long as every node knows the same voters, nobody has taken a snapshot and no
\* zero reply is under way, the invariant of the progress holds.
LEMMA MatchInvariant ==
    ASSUME IsFiniteSet(Voters)
    PROVE  Spec /\ []FixedVoters /\ []Uncompacted /\ []NoBlanks => [](TypeOK /\ LogInv /\ MatchInv)
<1>1. Init => MatchInv
  BY InitMatch
<1>2. TypeOK /\ ElectionInv => ElectionSafety
  BY InvElectionSafety
<1>3. /\ TypeOK /\ TypeOK' /\ LogInv /\ LogInv' /\ Uncompacted /\ Uncompacted' /\ NoBlanks'
      /\ ElectionInv /\ ElectionInv' /\ ElectionSafety' /\ MatchInv /\ [Next]_vars
      => MatchInv'
  BY NextMatch
<1>4. Spec /\ []FixedVoters /\ []Uncompacted => [](TypeOK /\ ElectionInv /\ LogInv)
  BY LogsInvariant
<1> QED BY <1>1, <1>2, <1>3, <1>4, PTL DEF Spec

\* What a leader knows of its followers from their replies (onAppendReply) is true of
\* their logs, or its next calls cannot match before the logs part.
THEOREM ProgressIsKnown ==
    ASSUME IsFiniteSet(Voters)
    PROVE  Spec /\ []FixedVoters /\ []Uncompacted /\ []NoBlanks => []MatchInv
<1>1. Spec /\ []FixedVoters /\ []Uncompacted /\ []NoBlanks => [](TypeOK /\ LogInv /\ MatchInv)
  BY MatchInvariant
<1> QED BY <1>1, PTL

\* What a leader has as the MatchIndex of a follower is never more than what the
\* follower's log and its own agree on, although the follower reports the end of its
\* whole log (handleAppendEntries against onAppendReply), in any order of the calls
\* and replies and across crashes in the middle of a handler.
THEOREM MatchesAreSound ==
    ASSUME IsFiniteSet(Voters)
    PROVE  Spec /\ []FixedVoters /\ []Uncompacted /\ []NoBlanks => []MatchIndexSound
<1>1. TypeOK /\ LogInv /\ MatchInv => MatchIndexSound
  BY InvMatchIndex
<1>2. Spec /\ []FixedVoters /\ []Uncompacted /\ []NoBlanks => [](TypeOK /\ LogInv /\ MatchInv)
  BY MatchInvariant
<1> QED BY <1>1, <1>2, PTL
=============================================================================
