--------------------------- MODULE HistoryProofs ---------------------------
(***************************************************************************)
(* Check decides what it is to decide: it accepts a recorded history just  *)
(* when the calls that were answered have an order that is legal and keeps *)
(* real time, for any number of calls, clients, keys and values.           *)
(***************************************************************************)
EXTENDS Linearizability, FiniteSetTheorems, WellFoundedInduction, SequenceTheorems, TLAPS

\* What is recorded, and the calls that Check makes of it.
Events ==
    {e \in [kind : {"invoke", "ok", "fail"}, id : Ids, op : {"put", "get", "delete"}, key : Keys,
            value : Values \cup {NotFound}, time : Nat] :
        e.op = "delete" => e.value = NotFound}

CallRecords == [at : Nat, ev : Events, ok : SUBSET Events]

Answered(calls) == {c \in calls : ~Failed(c)}

\* The positions before p of the calls that write the register of the call at p, and what
\* they leave there of registers that start with state.
Writes(order, p) ==
    {q \in 1..p-1 : order[q].ev.key = order[p].ev.key /\ order[q].ev.op # "get"}

Left(state, order, p) ==
    IF Writes(order, p) = {} THEN state[order[p].ev.key] ELSE order[Max(Writes(order, p))].ev.value

LegalFrom(state, order) ==
    \A p \in DOMAIN order : \A r \in order[p].ok :
        order[p].ev.op = "get" => r.value = Left(state, order, p)

\* The answered ones of calls have an order.
Orderable(calls, state) ==
    \E order \in SetToSeqs(Answered(calls)) : LegalFrom(state, order) /\ InRealTime(order)

-----------------------------------------------------------------------------
(***************************************************************************)
(* Numbers and orders.                                                     *)
(***************************************************************************)
LEMMA MaxOf ==
    ASSUME NEW S \in SUBSET Nat, NEW n \in Nat, S # {}, \A x \in S : x <= n
    PROVE  Max(S) \in S /\ \A x \in S : x <= Max(S)
<1> DEFINE T == {d \in Nat : \E x \in S : d = n - x}
<1>1. T # {} /\ T \subseteq Nat
  <2>1. PICK x \in S : x \in Nat /\ x <= n
    OBVIOUS
  <2>2. n - x \in T
    BY <2>1
  <2> QED BY <2>2
<1>2. PICK d \in T : \A y \in T : ~(<<y, d>> \in OpToRel(<, Nat))
  <2> HIDE DEF T
  <2> QED BY <1>1, NatLessThanWellFounded, WFMin
<1>3. PICK x \in S : d = n - x
  OBVIOUS
<1>4. \A y \in S : x >= y
  <2> SUFFICES ASSUME NEW y \in S, y > x PROVE FALSE
    OBVIOUS
  <2>1. n - y \in T /\ n - y < d
    BY <1>3
  <2>2. <<n - y, d>> \in OpToRel(<, Nat)
    BY <2>1, <1>1 DEF OpToRel
  <2> QED BY <2>1, <2>2, <1>2
<1>5. Max(S) \in S /\ \A y \in S : Max(S) >= y
  BY <1>4 DEF Max
<1> QED BY <1>5

LEMMA MaxIs ==
    ASSUME NEW S \in SUBSET Nat, NEW m \in S, \A x \in S : x <= m
    PROVE  Max(S) = m
<1>1. m \in Nat /\ S # {}
  OBVIOUS
<1>2. Max(S) \in S /\ m <= Max(S)
  BY <1>1, MaxOf
<1>3. Max(S) \in Nat /\ Max(S) <= m
  BY <1>2
<1> QED BY <1>1, <1>2, <1>3

\* Every element has its place in an order of all.
LEMMA OrderOfAll ==
    ASSUME NEW S, IsFiniteSet(S), NEW order \in SetToSeqs(S)
    PROVE  /\ Cardinality(S) \in Nat
           /\ order \in [1..Cardinality(S) -> S]
           /\ \A p, q \in 1..Cardinality(S) : p # q => order[p] # order[q]
           /\ \A x \in S : \E p \in 1..Cardinality(S) : order[p] = x
<1> DEFINE n == Cardinality(S)
<1>1. n \in Nat
  BY FS_CardinalityType
<1>2. order \in [1..n -> S] /\ \A p, q \in 1..n : p # q => order[p] # order[q]
  BY DEF SetToSeqs
<1>3. order \in Injection(1..n, S)
  BY <1>2 DEF Injection, IsInjective
<1>4. IsFiniteSet(1..n) /\ Cardinality(1..n) = n
  BY <1>1, FS_Interval
<1>5. order \in Surjection(1..n, S)
  BY <1>3, <1>4, FS_Injection
<1> QED BY <1>1, <1>2, <1>5 DEF Surjection

-----------------------------------------------------------------------------
(***************************************************************************)
(* The first call of an order, and the rest of it.                         *)
(***************************************************************************)
Rest(order, n) == [i \in 1..n-1 |-> order[i + 1]]

LEMMA StepTypes ==
    ASSUME NEW c \in CallRecords, NEW state \in States
    PROVE  /\ Step(state, c) \subseteq States
           /\ Failed(c) => Step(state, c) = {state}
<1>1. /\ c.ev \in Events /\ c.ev.key \in Keys /\ c.ev.value \in Values \cup {NotFound}
      /\ c.ev.op \in {"put", "get", "delete"}
  BY DEF CallRecords, Events
<1>2. [state EXCEPT ![c.ev.key] = c.ev.value] \in States /\ [state EXCEPT ![c.ev.key] = NotFound] \in States
  BY <1>1 DEF States
<1>3. CASE Failed(c)
  <2>1. Step(state, c) = {state}
    BY <1>3 DEF Step
  <2> QED BY <2>1
<1>4. CASE ~Failed(c)
  <2>1. c.ev.op = "put" => Step(state, c) = {[state EXCEPT ![c.ev.key] = c.ev.value]}
    BY <1>4 DEF Step
  <2>2. c.ev.op = "delete" => Step(state, c) = {[state EXCEPT ![c.ev.key] = NotFound]}
    BY <1>4 DEF Step
  <2>3. c.ev.op = "get" => Step(state, c) = {s \in {state} : \A r \in c.ok : s[c.ev.key] = r.value}
    BY <1>4 DEF Step
  <2> QED BY <1>1, <1>2, <1>4, <2>1, <2>2, <2>3
<1> QED BY <1>3, <1>4

\* What an answered call does.
LEMMA StepDoes ==
    ASSUME NEW c \in CallRecords, NEW state \in States, ~Failed(c)
    PROVE  /\ c.ev.op # "get" => Step(state, c) = {[state EXCEPT ![c.ev.key] = c.ev.value]}
           /\ c.ev.op = "get" =>
                 Step(state, c) = {s \in {state} : \A r \in c.ok : s[c.ev.key] = r.value}
<1>1. /\ c.ev.op \in {"put", "get", "delete"}
      /\ c.ev.op = "delete" => c.ev.value = NotFound
  BY DEF CallRecords, Events
<1> QED BY <1>1 DEF Step

\* The writes before a call, without the first call of the order.
LEMMA WritesShift ==
    ASSUME NEW n \in Nat, n > 0, NEW order \in [1..n -> CallRecords], NEW p \in 1..n-1
    PROVE  LET rest  == Rest(order, n)
               first == order[1].ev.key = rest[p].ev.key /\ order[1].ev.op # "get"
           IN  /\ Writes(order, p + 1) \subseteq 1..p /\ Writes(rest, p) \subseteq 1..p-1
               /\ rest[p] = order[p + 1] /\ \A q \in Writes(rest, p) : rest[q] = order[q + 1]
               /\ 1 \in Writes(order, p + 1) <=> first
               /\ \A q \in 1..p-1 : q + 1 \in Writes(order, p + 1) <=> q \in Writes(rest, p)
<1> DEFINE rest == Rest(order, n)
<1>1. rest[p] = order[p + 1] /\ \A q \in 1..p-1 : rest[q] = order[q + 1]
  BY DEF Rest
<1>2. p + 1 - 1 = p /\ 1 \in 1..p /\ \A q \in 1..p-1 : q + 1 \in 1..p
  OBVIOUS
<1>3. Writes(order, p + 1) = {q \in 1..p : order[q].ev.key = rest[p].ev.key /\ order[q].ev.op # "get"}
  BY <1>1, <1>2 DEF Writes
<1> HIDE DEF rest
<1>4. Writes(rest, p) = {q \in 1..p-1 : rest[q].ev.key = rest[p].ev.key /\ rest[q].ev.op # "get"}
  BY DEF Writes
<1> QED BY <1>1, <1>2, <1>3, <1>4 DEF rest

LEMMA LeftShift ==
    ASSUME NEW n \in Nat, n > 0, NEW order \in [1..n -> CallRecords], NEW p \in 1..n-1,
           NEW state \in States, ~Failed(order[1]), NEW next \in Step(state, order[1])
    PROVE  Left(state, order, p + 1) = Left(next, Rest(order, n), p)
<1> DEFINE rest == Rest(order, n)
           c    == order[1]
           W    == Writes(order, p + 1)
           V    == Writes(rest, p)
           key  == rest[p].ev.key
<1>1. /\ W \subseteq 1..p /\ V \subseteq 1..p-1 /\ rest[p] = order[p + 1]
      /\ \A q \in V : rest[q] = order[q + 1]
      /\ 1 \in W <=> c.ev.key = key /\ c.ev.op # "get"
      /\ \A q \in 1..p-1 : q + 1 \in W <=> q \in V
  BY WritesShift
<1>2. c \in CallRecords /\ rest[p] \in CallRecords
  BY <1>1
<1>3. c.ev.key \in Keys /\ key \in Keys
  BY <1>2 DEF CallRecords, Events
<1>4. next[key] = IF c.ev.key = key /\ c.ev.op # "get" THEN c.ev.value ELSE state[key]
  BY <1>2, <1>3, StepDoes DEF States
<1>5. Left(state, order, p + 1) = IF W = {} THEN state[key] ELSE order[Max(W)].ev.value
  BY <1>1 DEF Left
<1>6. Left(next, rest, p) = IF V = {} THEN next[key] ELSE rest[Max(V)].ev.value
  BY DEF Left
<1> SUFFICES Left(state, order, p + 1) = Left(next, rest, p)
  OBVIOUS
<1> HIDE DEF rest, c, W, V, key
<1>7. CASE V = {}
  <2>1. \A q \in W : q = 1
    <3> SUFFICES ASSUME NEW q \in W, q # 1 PROVE FALSE
      OBVIOUS
    <3>1. q - 1 \in 1..p-1 /\ (q - 1) + 1 = q
      BY <1>1
    <3> QED BY <3>1, <1>1, <1>7
  <2>2. CASE 1 \in W
    <3>1. W = {1}
      BY <2>1, <2>2
    <3>2. Max(W) = 1
      BY <3>1, MaxIs
    <3> QED BY <3>1, <3>2, <2>2, <1>1, <1>4, <1>5, <1>6, <1>7 DEF c
  <2>3. CASE 1 \notin W
    BY <2>1, <2>3, <1>1, <1>4, <1>5, <1>6, <1>7
  <2> QED BY <2>2, <2>3
<1>8. CASE V # {}
  <2>1. p \in Nat /\ V \in SUBSET Nat /\ \A x \in V : x <= p
    BY <1>1
  <2>2. Max(V) \in V /\ \A x \in V : x <= Max(V)
    BY <2>1, <1>8, MaxOf
  <2>3. Max(V) + 1 \in W
    BY <2>2, <1>1
  <2>4. \A q \in W : q <= Max(V) + 1
    <3> SUFFICES ASSUME NEW q \in W PROVE q <= Max(V) + 1
      OBVIOUS
    <3>1. q \in 1..p /\ Max(V) \in Nat
      BY <1>1, <2>1, <2>2
    <3>2. CASE q > 1
      <4>1. q - 1 \in 1..p-1 /\ (q - 1) + 1 = q
        BY <3>1, <3>2
      <4>2. q - 1 \in V
        BY <4>1, <1>1
      <4>3. q - 1 <= Max(V)
        BY <4>2, <2>2
      <4> QED BY <3>1, <4>3
    <3> QED BY <3>1, <3>2
  <2>5. Max(W) = Max(V) + 1
    <3>1. W \in SUBSET Nat
      BY <1>1
    <3> QED BY <3>1, <2>3, <2>4, MaxIs
  <2> QED BY <2>2, <2>3, <2>5, <1>1, <1>5, <1>6, <1>8
<1> QED BY <1>7, <1>8

LEMMA LegalShift ==
    ASSUME NEW n \in Nat, n > 0, NEW order \in [1..n -> CallRecords], ~Failed(order[1]),
           NEW state \in States
    PROVE  LegalFrom(state, order) <=>
              \E next \in Step(state, order[1]) : LegalFrom(next, Rest(order, n))
<1> DEFINE rest == Rest(order, n)
           c    == order[1]
<1>1. c \in CallRecords /\ 1 \in 1..n
  OBVIOUS
<1>2. DOMAIN order = 1..n /\ DOMAIN rest = 1..n-1 /\ \A p \in 1..n-1 : rest[p] = order[p + 1]
  BY DEF Rest
<1>3. Left(state, order, 1) = state[c.ev.key]
  <2>1. Writes(order, 1) = {}
    BY DEF Writes
  <2> QED BY <2>1 DEF Left
<1>4. c.ev.op = "get" =>
         (Step(state, c) # {} <=> \A r \in c.ok : r.value = Left(state, order, 1))
  BY <1>1, <1>3, StepDoes
<1>5. c.ev.op # "get" => Step(state, c) # {}
  BY <1>1, StepDoes
<1>6. \A next \in Step(state, c) : \A p \in 1..n-1 :
         Left(state, order, p + 1) = Left(next, rest, p)
  BY LeftShift
<1> HIDE DEF rest
<1>7. ASSUME LegalFrom(state, order)
      PROVE  \E next \in Step(state, c) : LegalFrom(next, rest)
  <2>1. PICK next \in Step(state, c) : TRUE
    BY <1>1, <1>2, <1>4, <1>5, <1>7 DEF LegalFrom
  <2>2. ASSUME NEW p \in 1..n-1, NEW r \in rest[p].ok, rest[p].ev.op = "get"
        PROVE  r.value = Left(next, rest, p)
    <3>1. p + 1 \in 1..n /\ rest[p] = order[p + 1]
      BY <1>2
    <3> QED BY <2>2, <3>1, <1>2, <1>6, <1>7 DEF LegalFrom
  <2> QED BY <2>1, <2>2, <1>2 DEF LegalFrom
<1>8. ASSUME NEW next \in Step(state, c), LegalFrom(next, rest)
      PROVE  LegalFrom(state, order)
  <2>1. ASSUME NEW p \in 1..n, NEW r \in order[p].ok, order[p].ev.op = "get"
        PROVE  r.value = Left(state, order, p)
    <3>1. CASE p = 1
      BY <3>1, <2>1, <1>4
    <3>2. CASE p # 1
      <4>1. p - 1 \in 1..n-1 /\ p = (p - 1) + 1
        BY <3>2
      <4>2. rest[p - 1] = order[p] /\ Left(state, order, p) = Left(next, rest, p - 1)
        BY <4>1, <1>2, <1>6
      <4> QED BY <2>1, <4>1, <4>2, <1>2, <1>8 DEF LegalFrom
    <3> QED BY <3>1, <3>2
  <2> QED BY <2>1, <1>2 DEF LegalFrom
<1> QED BY <1>7, <1>8 DEF rest

\* What comes first can be taken off, and put first, among all answered calls.
LEMMA RestOrders ==
    ASSUME NEW S \in SUBSET CallRecords, IsFiniteSet(S), NEW order \in SetToSeqs(S), S # {}
    PROVE  LET n == Cardinality(S)
           IN  /\ n \in Nat /\ n > 0 /\ order[1] \in S
               /\ Rest(order, n) \in SetToSeqs(S \ {order[1]})
               /\ InRealTime(order) =>
                     /\ InRealTime(Rest(order, n))
                     /\ \A b \in S \ {order[1]} : \A r \in b.ok : r.time >= order[1].ev.time
<1> DEFINE n    == Cardinality(S)
           rest == Rest(order, n)
           c    == order[1]
<1>1. /\ n \in Nat /\ order \in [1..n -> S] /\ \A p, q \in 1..n : p # q => order[p] # order[q]
      /\ \A x \in S : \E p \in 1..n : order[p] = x
  BY OrderOfAll
<1>2. n > 0
  BY <1>1, FS_EmptySet
<1>3. 1 \in 1..n /\ c \in S
  BY <1>1, <1>2
<1>4. Cardinality(S \ {c}) = n - 1
  BY <1>3, FS_RemoveElement
<1> HIDE DEF n
<1>5. \A p \in 1..n-1 : p + 1 \in 1..n /\ p + 1 # 1 /\ rest[p] = order[p + 1]
  BY <1>1 DEF Rest
<1>6. rest \in SetToSeqs(S \ {c})
  <2>1. DOMAIN rest = 1..n-1 /\ rest = [p \in 1..n-1 |-> rest[p]]
    BY DEF Rest
  <2>2. \A p \in 1..n-1 : rest[p] \in S \ {c}
    BY <1>1, <1>3, <1>5
  <2>3. \A p, q \in 1..n-1 : p # q => rest[p] # rest[q]
    BY <1>1, <1>5
  <2> HIDE DEF rest
  <2>4. rest \in [1..n-1 -> S \ {c}]
    BY <2>1, <2>2
  <2> QED BY <2>3, <2>4, <1>4 DEF SetToSeqs
<1>7. ASSUME InRealTime(order)
      PROVE  /\ InRealTime(rest)
             /\ \A b \in S \ {c} : \A r \in b.ok : r.time >= c.ev.time
  <2>1. DOMAIN rest = 1..n-1 /\ DOMAIN order = 1..n
    BY <1>1 DEF Rest
  <2>2. InRealTime(rest)
    <3> HIDE DEF rest
    <3> SUFFICES ASSUME NEW p \in 1..n-1, NEW q \in 1..n-1, p < q, NEW r \in rest[q].ok
                 PROVE  r.time >= rest[p].ev.time
      BY <2>1 DEF InRealTime
    <3>1. p + 1 < q + 1
      BY <1>1
    <3> QED BY <1>5, <1>7, <2>1, <3>1 DEF InRealTime
  <2>3. ASSUME NEW b \in S \ {c}, NEW r \in b.ok
        PROVE  r.time >= c.ev.time
    <3>1. PICK q \in 1..n : order[q] = b
      BY <1>1
    <3>2. 1 < q
      BY <3>1, <1>1
    <3> QED BY <3>1, <3>2, <1>3, <1>7, <2>1 DEF InRealTime
  <2> QED BY <2>2, <2>3
<1> QED BY <1>1, <1>2, <1>3, <1>6, <1>7 DEF n

\* A failed call can always come first, and changes nothing of the order.
LEMMA FailedFirst ==
    ASSUME NEW calls \in SUBSET CallRecords, NEW c \in calls, Failed(c), NEW state \in States
    PROVE  /\ Step(state, c) = {state} /\ Answered(calls \ {c}) = Answered(calls)
           /\ Answered(calls) = {} => CanLinearize(calls, c)
<1>1. Step(state, c) = {state}
  BY StepTypes
<1>2. Answered(calls \ {c}) = Answered(calls)
  BY DEF Answered
<1>3. Answered(calls) = {} => CanLinearize(calls, c)
  BY DEF Answered, CanLinearize, Failed
<1> QED BY <1>1, <1>2, <1>3

\* Orderable obeys the equation of search.
LEMMA Unfold ==
    ASSUME NEW calls \in SUBSET CallRecords, IsFiniteSet(calls), NEW state \in States
    PROVE  Orderable(calls, state) <=>
              \/ calls = {}
              \/ \E c \in calls : /\ CanLinearize(calls, c)
                                  /\ \E next \in Step(state, c) : Orderable(calls \ {c}, next)
<1> DEFINE S == Answered(calls)
           n == Cardinality(S)
           Comes(c) == /\ CanLinearize(calls, c)
                       /\ \E next \in Step(state, c) : Orderable(calls \ {c}, next)
<1>1. S \in SUBSET calls /\ S \in SUBSET CallRecords /\ IsFiniteSet(S)
  BY FS_Subset DEF Answered
<1>2. n \in Nat
  BY <1>1, FS_CardinalityType
<1>3. ASSUME Orderable(calls, state), calls # {}
      PROVE  \E c \in calls : Comes(c)
  <2>1. PICK order \in SetToSeqs(S) : LegalFrom(state, order) /\ InRealTime(order)
    BY <1>3 DEF Orderable
  <2>2. CASE S = {}
    <3>1. PICK c \in calls : TRUE
      BY <1>3
    <3>2. Failed(c)
      BY <2>2 DEF Answered
    <3>3. Step(state, c) = {state} /\ Answered(calls \ {c}) = S /\ CanLinearize(calls, c)
      BY <3>2, <2>2, FailedFirst
    <3>4. Orderable(calls \ {c}, state)
      BY <3>3, <2>1 DEF Orderable
    <3> QED BY <3>3, <3>4
  <2>3. CASE S # {}
    <3> DEFINE c    == order[1]
               rest == Rest(order, n)
    <3>1. /\ n > 0 /\ c \in S /\ rest \in SetToSeqs(S \ {c}) /\ InRealTime(rest)
          /\ \A b \in S \ {c} : \A r \in b.ok : r.time >= c.ev.time
      BY <1>1, <2>1, <2>3, RestOrders
    <3>2. order \in [1..n -> CallRecords] /\ ~Failed(c) /\ Answered(calls \ {c}) = S \ {c}
      <4>1. order \in [1..n -> S]
        BY DEF SetToSeqs
      <4> QED BY <4>1, <1>1, <3>1 DEF Answered
    <3>3. PICK next \in Step(state, c) : LegalFrom(next, rest)
      BY <1>2, <2>1, <3>1, <3>2, LegalShift
    <3>4. Orderable(calls \ {c}, next)
      BY <3>1, <3>2, <3>3 DEF Orderable
    <3>5. CanLinearize(calls, c)
      <4>1. ASSUME NEW b \in calls \ {c}, NEW r \in b.ok
            PROVE  ~(r.time < c.ev.time)
        <5>1. b \in S
          BY <4>1 DEF Answered, Failed
        <5>2. r.time \in Nat /\ c.ev.time \in Nat
          BY <5>1, <3>1, <1>1 DEF CallRecords, Events
        <5> QED BY <5>1, <5>2, <3>1
      <4> QED BY <4>1 DEF CanLinearize
    <3> QED BY <3>1, <1>1, <3>3, <3>4, <3>5
  <2> QED BY <2>2, <2>3
<1>4. calls = {} => Orderable(calls, state)
  <2>1. ASSUME calls = {} PROVE Orderable(calls, state)
    <3> DEFINE order == [p \in 1..0 |-> p]
    <3>1. S = {} /\ n = 0 /\ 1..0 = {}
      BY <2>1, FS_EmptySet DEF Answered
    <3>2. order \in SetToSeqs(S)
      BY <3>1 DEF SetToSeqs
    <3>3. LegalFrom(state, order) /\ InRealTime(order)
      BY <3>1 DEF LegalFrom, InRealTime
    <3> QED BY <3>2, <3>3 DEF Orderable
  <2> QED BY <2>1
<1>5. ASSUME NEW c \in calls, Comes(c)
      PROVE  Orderable(calls, state)
  <2>1. PICK next \in Step(state, c) : Orderable(calls \ {c}, next)
    BY <1>5
  <2>2. CASE Failed(c)
    <3>1. next = state /\ Answered(calls \ {c}) = S
      BY <2>2, FailedFirst
    <3> QED BY <2>1, <3>1 DEF Orderable
  <2>3. CASE ~Failed(c)
    <3>1. c \in S /\ Answered(calls \ {c}) = S \ {c} /\ Cardinality(S \ {c}) = n - 1 /\ n > 0
      <4>1. c \in S /\ Answered(calls \ {c}) = S \ {c}
        BY <2>3 DEF Answered
      <4>2. Cardinality(S \ {c}) = n - 1 /\ n # 0
        BY <4>1, <1>1, FS_RemoveElement, FS_EmptySet
      <4> QED BY <4>1, <4>2, <1>2
    <3>2. PICK later \in SetToSeqs(S \ {c}) : LegalFrom(next, later) /\ InRealTime(later)
      BY <2>1, <3>1 DEF Orderable
    <3> HIDE DEF n, S
    <3> DEFINE order == [p \in 1..n |-> IF p = 1 THEN c ELSE later[p - 1]]
    <3>3. /\ later \in [1..n-1 -> S \ {c}] /\ \A p, q \in 1..n-1 : p # q => later[p] # later[q]
      BY <3>1, <3>2 DEF SetToSeqs
    <3>4. \A p \in 1..n : p # 1 => p - 1 \in 1..n-1
      BY <1>2
    <3>5. order[1] = c /\ \A p \in 1..n : p # 1 => order[p] = later[p - 1]
      BY <1>2, <3>1
    <3>6. order \in [1..n -> S] /\ \A p, q \in 1..n : p # q => order[p] # order[q]
      <4>1. \A p \in 1..n : order[p] \in S
        BY <3>1, <3>3, <3>4, <3>5
      <4>2. ASSUME NEW p \in 1..n, NEW q \in 1..n, p # q PROVE order[p] # order[q]
        <5>1. p - 1 # q - 1
          BY <4>2, <1>2
        <5>2. p # 1 => order[p] = later[p - 1] /\ order[p] # c
          BY <3>3, <3>4, <3>5
        <5>3. q # 1 => order[q] = later[q - 1] /\ order[q] # c
          BY <3>3, <3>4, <3>5
        <5> HIDE DEF order
        <5> QED BY <4>2, <5>1, <5>2, <5>3, <3>3, <3>4, <3>5
      <4>3. order = [p \in 1..n |-> order[p]]
        OBVIOUS
      <4> HIDE DEF order
      <4> QED BY <4>1, <4>2, <4>3
    <3>7. Rest(order, n) = later
      <4>1. \A p \in 1..n-1 : p + 1 \in 1..n /\ p + 1 # 1 /\ (p + 1) - 1 = p
        BY <1>2
      <4>2. \A p \in 1..n-1 : order[p + 1] = later[p]
        BY <4>1, <3>5
      <4> HIDE DEF order
      <4> QED BY <4>2, <3>3 DEF Rest
    <3> HIDE DEF order
    <3>8. order \in SetToSeqs(S)
      BY <3>6 DEF SetToSeqs, n
    <3>9. LegalFrom(state, order)
      <4>1. order \in [1..n -> CallRecords]
        BY <3>6, <1>1
      <4> QED BY <4>1, <1>2, <2>3, <3>1, <3>2, <3>5, <3>7, LegalShift
    <3>10. InRealTime(order)
      <4>1. DOMAIN order = 1..n /\ DOMAIN later = 1..n-1
        BY <3>3, <3>6
      <4> SUFFICES ASSUME NEW p \in 1..n, NEW q \in 1..n, p < q, NEW r \in order[q].ok
                   PROVE  r.time >= order[p].ev.time
        BY <4>1 DEF InRealTime
      <4>2. q # 1 /\ q - 1 \in 1..n-1 /\ order[q] = later[q - 1] /\ order[q] \in S \ {c}
        BY <1>2, <3>3, <3>4, <3>5
      <4>3. CASE p = 1
        <5>1. ~(r.time < c.ev.time)
          BY <4>2, <1>1, <1>5 DEF CanLinearize
        <5>2. r.time \in Nat /\ c.ev.time \in Nat
          BY <4>2, <1>1, <3>1 DEF CallRecords, Events
        <5> QED BY <4>3, <5>1, <5>2, <3>5
      <4>4. CASE p # 1
        <5>1. p - 1 \in 1..n-1 /\ p - 1 < q - 1 /\ order[p] = later[p - 1]
          BY <1>2, <3>4, <3>5, <4>4
        <5> QED BY <5>1, <4>1, <4>2, <3>2 DEF InRealTime
      <4> QED BY <4>3, <4>4
    <3> QED BY <3>8, <3>9, <3>10 DEF Orderable, S
  <2> QED BY <2>2, <2>3
<1> QED BY <1>3, <1>4, <1>5

-----------------------------------------------------------------------------
(***************************************************************************)
(* search: the function exists that its recursion describes, and there is  *)
(* only one.                                                               *)
(***************************************************************************)
LEMMA Searching ==
    ASSUME NEW ops \in SUBSET CallRecords, IsFiniteSet(ops), NEW state \in States
    PROVE  Search(ops, state) <=> Orderable(ops, state)
<1> DEFINE Found(f, calls, s) ==
              \/ calls = {}
              \/ \E c \in calls : /\ CanLinearize(calls, c)
                                  /\ \E next \in Step(s, c) : f[calls \ {c}][next]
           Searches(f) == f = [calls \in SUBSET ops |-> [s \in States |-> Found(f, calls, s)]]
           W == [calls \in SUBSET ops |-> [s \in States |-> Orderable(calls, s)]]
           g == CHOOSE f : Searches(f)
<1>1. ASSUME NEW calls \in SUBSET ops, NEW s \in States, NEW c \in calls, NEW next \in Step(s, c)
      PROVE  calls \ {c} \in SUBSET ops /\ next \in States
  BY StepTypes
<1>2. Searches(W)
  <2>1. ASSUME NEW calls \in SUBSET ops, NEW s \in States
        PROVE  Orderable(calls, s) = Found(W, calls, s)
    <3>1. IsFiniteSet(calls) /\ calls \in SUBSET CallRecords
      BY FS_Subset
    <3>2. ASSUME NEW c \in calls, NEW next \in Step(s, c)
          PROVE  W[calls \ {c}][next] <=> Orderable(calls \ {c}, next)
      BY <1>1
    <3> HIDE DEF W
    <3>3. Orderable(calls, s) <=> Found(W, calls, s)
      BY <3>1, <3>2, Unfold
    <3>4. Orderable(calls, s) \in BOOLEAN
      BY DEF Orderable
    <3> QED BY <3>3, <3>4
  <2>2. W = [calls \in SUBSET ops |-> [s \in States |-> Orderable(calls, s)]]
    OBVIOUS
  <2> HIDE DEF W, Found
  <2>3. \A calls \in SUBSET ops :
           [s \in States |-> Orderable(calls, s)] = [s \in States |-> Found(W, calls, s)]
    BY <2>1
  <2> QED BY <2>2, <2>3
<1>3. Searches(g)
  <2> HIDE DEF Searches, W
  <2> QED BY <1>2
<1>4. \A calls \in SUBSET ops : \A s \in States : g[calls][s] <=> Found(g, calls, s)
  <2> HIDE DEF g, Found
  <2> QED BY <1>3
<1> HIDE DEF g, Searches, W
<1>5. \A calls \in SUBSET ops : \A s \in States : g[calls][s] <=> Orderable(calls, s)
  <2> DEFINE Wrong == {calls \in SUBSET ops :
                          \E s \in States : ~(g[calls][s] <=> Orderable(calls, s))}
  <2> SUFFICES ASSUME Wrong # {} PROVE FALSE
    OBVIOUS
  <2>1. Wrong \subseteq FiniteSubsetsOf(ops)
    BY FS_Subset DEF FiniteSubsetsOf
  <2>2. PICK calls \in Wrong : \A T \in Wrong : <<T, calls>> \notin StrictSubsetOrdering(ops)
    <3> HIDE DEF Wrong
    <3> QED BY <2>1, WFMin, FS_StrictSubsetOrderingWellFounded
  <2>3. calls \in SUBSET ops /\ calls \in SUBSET CallRecords /\ IsFiniteSet(calls)
    BY FS_Subset
  <2>4. PICK s \in States : ~(g[calls][s] <=> Orderable(calls, s))
    OBVIOUS
  <2>5. ASSUME NEW c \in calls PROVE calls \ {c} \notin Wrong
    <3>1. <<calls \ {c}, calls>> \in StrictSubsetOrdering(ops)
      BY <2>3 DEF StrictSubsetOrdering
    <3> QED BY <3>1, <2>2
  <2>6. ASSUME NEW c \in calls, NEW next \in Step(s, c)
        PROVE  g[calls \ {c}][next] <=> Orderable(calls \ {c}, next)
    BY <1>1, <2>3, <2>5
  <2>7. g[calls][s] <=> Orderable(calls, s)
    <3> HIDE DEF Wrong
    <3>1. Orderable(calls, s) <=>
              \/ calls = {}
              \/ \E c \in calls : /\ CanLinearize(calls, c)
                                  /\ \E next \in Step(s, c) : Orderable(calls \ {c}, next)
      BY <2>3, Unfold
    <3>2. g[calls][s] <=> Found(g, calls, s)
      BY <2>3, <1>4
    <3> QED BY <3>1, <3>2, <2>6
  <2> QED BY <2>4, <2>7
<1>6. Search(ops, state) = g[ops][state]
  BY Zenon DEF Search, g, Searches, Found
<1> QED BY <1>5, <1>6

-----------------------------------------------------------------------------
(***************************************************************************)
(* Histories.                                                              *)
(***************************************************************************)
LEMMA CallsOfHistory ==
    ASSUME NEW h \in Seq(Events)
    PROVE  Calls(h) \in SUBSET CallRecords /\ IsFiniteSet(Calls(h))
<1> DEFINE D == {k \in DOMAIN h : h[k].kind = "invoke"}
           f == [i \in D |-> Call(h, i)]
<1>1. Len(h) \in Nat /\ DOMAIN h = 1..Len(h) /\ \A i \in 1..Len(h) : h[i] \in Events
  BY ElementOfSeq, LenProperties
<1>2. ASSUME NEW i \in D PROVE Call(h, i) \in CallRecords
  <2>1. i \in 1..Len(h) /\ i \in Nat /\ \A j \in i+1..Len(h) : j \in 1..Len(h)
    BY <1>1
  <2>2. h[i] \in Events /\ \A j \in i+1..Len(h) : h[j] \in Events
    BY <1>1, <2>1
  <2> QED BY <2>1, <2>2 DEF Call, CallRecords
<1>3. IsFiniteSet(D)
  <2>1. IsFiniteSet(1..Len(h))
    BY <1>1, FS_Interval
  <2> QED BY <1>1, <2>1, FS_Subset
<1>4. f \in Surjection(D, Calls(h))
  <2>1. \A i \in D : f[i] = Call(h, i)
    OBVIOUS
  <2>2. Calls(h) = {f[i] : i \in D}
    BY <2>1 DEF Calls
  <2>3. f = [i \in D |-> f[i]]
    OBVIOUS
  <2> HIDE DEF f, D
  <2> QED BY <2>2, <2>3 DEF Surjection
<1>5. IsFiniteSet(Calls(h))
  <2> HIDE DEF f, D
  <2> QED BY <1>3, <1>4, FS_Surjection
<1>6. Calls(h) \in SUBSET CallRecords
  BY <1>2 DEF Calls
<1> QED BY <1>5, <1>6

\* Registers without a value are what Legal starts from.
LEMMA LegalFromNothing ==
    ASSUME NEW order, \A p \in DOMAIN order : order[p].ev.key \in Keys
    PROVE  Legal(order) <=> LegalFrom([k \in Keys |-> NotFound], order)
<1>1. \A p \in DOMAIN order :
         Left([k \in Keys |-> NotFound], order, p) =
            IF Writes(order, p) = {} THEN NotFound ELSE order[Max(Writes(order, p))].ev.value
  BY DEF Left
<1> QED BY <1>1 DEF Legal, LegalFrom, Writes

\* What Check decides of a history: whether its answered calls have an order.
LEMMA CheckFinds ==
    ASSUME NEW h \in Seq(Events)
    PROVE  Check(h) <=> \E order \in SetToSeqs({c \in Calls(h) : ~Failed(c)}) :
                           Legal(order) /\ InRealTime(order)
<1> DEFINE nothing == [k \in Keys |-> NotFound]
<1>1. nothing \in States
  BY DEF States
<1>2. Calls(h) \in SUBSET CallRecords /\ IsFiniteSet(Calls(h))
  BY CallsOfHistory
<1>3. Check(h) <=> Orderable(Calls(h), nothing)
  BY <1>1, <1>2, Searching DEF Check
<1>4. ASSUME NEW order \in SetToSeqs(Answered(Calls(h)))
      PROVE  Legal(order) <=> LegalFrom(nothing, order)
  <2>1. \A p \in DOMAIN order : order[p] \in CallRecords
    BY <1>2 DEF SetToSeqs, Answered
  <2>2. \A p \in DOMAIN order : order[p].ev.key \in Keys
    BY <2>1 DEF CallRecords, Events
  <2> QED BY <2>2, LegalFromNothing
<1> HIDE DEF nothing
<1> QED BY <1>3, <1>4 DEF Orderable, Answered

LEMMA InitHistory == Init => history \in Seq(Events)
BY DEF Init

LEMMA NextHistory ==
    ASSUME history \in Seq(Events), [Next]_history
    PROVE  history' \in Seq(Events)
<1>1. Len(history) \in Nat /\ DOMAIN history = 1..Len(history) /\ \A i \in 1..Len(history) : history[i] \in Events
  BY ElementOfSeq, LenProperties
<1>2. history # <<>> => Last(history) \in Events
  <2>1. ASSUME history # <<>> PROVE Len(history) \in 1..Len(history)
    BY <1>1, <2>1, EmptySeq
  <2> QED BY <1>1, <2>1 DEF Last
<1>3. ASSUME NEW kind \in {"invoke", "ok", "fail"}, NEW id \in Ids, NEW op \in {"put", "get", "delete"},
             NEW key \in Keys, NEW value \in Values \cup {NotFound}, op = "delete" => value = NotFound,
             Record(kind, id, op, key, value)
      PROVE  history' \in Seq(Events)
  <2>1. PICK tick \in {0, 1} :
           history' = Append(history,
               [kind |-> kind, id |-> id, op |-> op, key |-> key, value |-> value,
                time |-> tick + IF history = <<>> THEN 0 ELSE Last(history).time])
    BY <1>3 DEF Record
  <2>2. tick + (IF history = <<>> THEN 0 ELSE Last(history).time) \in Nat
    BY <1>2 DEF Events
  <2>3. [kind |-> kind, id |-> id, op |-> op, key |-> key, value |-> value,
         time |-> tick + IF history = <<>> THEN 0 ELSE Last(history).time] \in Events
    BY <1>3, <2>2 DEF Events
  <2> QED BY <2>1, <2>3, AppendProperties
<1>4. ASSUME NEW id \in Ids, Begin(id)
      PROVE  history' \in Seq(Events)
  <2>1. PICK key \in Keys :
           \/ \E v \in Values : Record("invoke", id, "put", key, v)
           \/ \E op \in {"get", "delete"} : Record("invoke", id, op, key, NotFound)
    BY <1>4 DEF Begin
  <2> QED BY <1>3, <2>1
<1>5. ASSUME NEW id \in Ids, End(id)
      PROVE  history' \in Seq(Events)
  <2>1. PICK i \in Pending(id) :
           \/ history[i].op = "get" /\ \E v \in Values \cup {NotFound} :
                  Record("ok", id, history[i].op, history[i].key, v)
           \/ history[i].op # "get" /\ Record("ok", id, history[i].op, history[i].key, history[i].value)
           \/ Record("fail", id, history[i].op, history[i].key, history[i].value)
    BY <1>5 DEF End
  <2>2. history[i] \in Events
    BY <1>1 DEF Pending, Of
  <2>3. /\ history[i].op \in {"put", "get", "delete"} /\ history[i].key \in Keys
        /\ history[i].value \in Values \cup {NotFound}
        /\ history[i].op = "delete" => history[i].value = NotFound
    BY <2>2 DEF Events
  <2> QED BY <1>3, <2>1, <2>3
<1>6. CASE Next
  BY <1>4, <1>5, <1>6 DEF Next
<1>7. CASE UNCHANGED history
  BY <1>7
<1> QED BY <1>6, <1>7

\* Histories hold the events of clients.
THEOREM HistoryTyped == Spec => [](history \in Seq(Events))
<1>1. history \in Seq(Events) /\ [Next]_history => (history \in Seq(Events))'
  BY NextHistory
<1> QED BY <1>1, InitHistory, PTL DEF Spec

\* Check accepts a history just when the calls that were answered OK have a legal order
\* that keeps real time: a call that failed or is still under way counts as one that
\* never took effect (Check, search, canLinearize, step).
THEOREM CheckDecides ==
    Spec => [](Check(history) <=> \E order \in SetToSeqs({c \in Calls(history) : ~Failed(c)}) :
                                      Legal(order) /\ InRealTime(order))
<1>1. history \in Seq(Events) =>
         (Check(history) <=> \E order \in SetToSeqs({c \in Calls(history) : ~Failed(c)}) :
                                Legal(order) /\ InRealTime(order))
  BY CheckFinds
<1> QED BY <1>1, HistoryTyped, PTL

\* Check accepts no history that is not linearizable (search, canLinearize, step).
THEOREM CheckAcceptsSound == Spec => []CheckIsSound
<1>1. history \in Seq(Events) => CheckIsSound
  <2> SUFFICES ASSUME history \in Seq(Events), Check(history) PROVE Linearizable(history)
    BY DEF CheckIsSound
  <2> DEFINE answered == {c \in Calls(history) : ~Failed(c)}
  <2>1. PICK order \in SetToSeqs(answered) : Legal(order) /\ InRealTime(order)
    BY CheckFinds
  <2>2. {} \in SUBSET {c \in Calls(history) : Failed(c)} /\ {} \cup answered = answered
    OBVIOUS
  <2> QED BY <2>1, <2>2 DEF Linearizable
<1> QED BY <1>1, HistoryTyped, PTL

\* When every call was answered OK, Check accepts every linearizable history.
THEOREM CheckDecidesAnswered == Spec => []CheckIsExact
<1>1. history \in Seq(Events) => CheckIsExact
  <2> SUFFICES ASSUME history \in Seq(Events), \A c \in Calls(history) : ~Failed(c),
                      Linearizable(history)
               PROVE  Check(history)
    BY DEF CheckIsExact
  <2> DEFINE answered == {c \in Calls(history) : ~Failed(c)}
  <2>1. PICK effective \in SUBSET {c \in Calls(history) : Failed(c)} :
           \E order \in SetToSeqs(effective \cup answered) : Legal(order) /\ InRealTime(order)
    BY DEF Linearizable
  <2>2. effective \cup answered = answered
    OBVIOUS
  <2> QED BY <2>1, <2>2, CheckFinds
<1> QED BY <1>1, HistoryTyped, PTL

=============================================================================
