------------------------------ MODULE KVProofs ------------------------------
(***************************************************************************)
(* Sessions make every replica's data those of the log with each command   *)
(* counted once, and are themselves those of the log, for any number of    *)
(* clients, keys, replicas and requests and whatever numbers the requests  *)
(* have, as long as no snapshot arrives at a replica that is past it.  The *)
(* service is one atomic store, whose answers are those of the commands or *)
(* of commands that overtook them; a caller whose numbers rise is never    *)
(* overtaken.                                                              *)
(***************************************************************************)
EXTENDS KVProperties, SequenceTheorems, WellFoundedInduction, TLAPS

\* A command keeps the type of the machine.
LEMMA ApplyTyped ==
    ASSUME NEW kv \in Machines, NEW cmd \in Commands
    PROVE  Apply(kv, cmd) \in Machines /\ Result(kv, cmd) \in Results
<1> USE KVAssumption DEF Commands
<1>1. ValueOf(cmd) \in 0..MaxAttempts
  BY DEF ValueOf
<1>2. Result(kv, cmd) \in Results
  BY <1>1 DEF Machines, Results, Result
<1>3. [kv.data EXCEPT ![cmd.key] = ValueOf(cmd)] \in [Keys -> 0..MaxAttempts]
  BY <1>1 DEF Machines
<1>4. [kv.sess EXCEPT ![cmd.id] = [seq |-> cmd.seq, res |-> Result(kv, cmd)]]
         \in [Ids -> [seq : 0..MaxNumber, res : Results]]
  BY <1>2 DEF Machines
<1>5. Apply(kv, cmd) \in Machines
  BY <1>3, <1>4 DEF Machines, Apply
<1> QED BY <1>2, <1>5

LEMMA SendTyped ==
    ASSUME TypeOK, NEW c \in Clients, NEW r \in Replicas, NEW cmd, Send(c, r, cmd),
           attempts + 1 \in 1..MaxAttempts => cmd \in Commands
    PROVE  TypeOK'
<1> USE KVAssumption
<1> DEFINE a == [cmd |-> cmd, try |-> attempts + 1]
<1>1. attempts + 1 \in 1..MaxAttempts /\ attempts' = attempts + 1
  BY DEF TypeOK, Send
<1>2. a \in Attempts /\ a.try = attempts + 1
  BY <1>1 DEF Attempts
<1>3. /\ request' = [request EXCEPT ![c] = a] /\ inflight' = inflight \cup {a}
      /\ proposals' = [x \in Replicas |-> IF x = r THEN proposals[x] \cup {c}
                                          ELSE proposals[x] \ {c}]
      /\ UNCHANGED <<log, applied, machine, snapshot, told, restarts>>
  BY DEF Send
<1> HIDE DEF a
<1>4. request' \in [Clients -> {None} \cup Attempts] /\ inflight' \in SUBSET Attempts
  BY <1>2, <1>3 DEF TypeOK
<1>5. proposals' \in [Replicas -> SUBSET Clients]
  BY <1>3 DEF TypeOK
<1> QED BY <1>1, <1>3, <1>4, <1>5 DEF TypeOK

LEMMA TypeInit == Init => TypeOK
<1> SUFFICES ASSUME Init PROVE TypeOK
  OBVIOUS
<1>1. NoResult \in Results /\ NewKV \in Machines
  BY KVAssumption DEF NoResult, Results, NewKV, Machines
<1>2. Len(log) = 0 /\ log \in Seq(Attempts)
  BY DEF Init
<1> QED BY <1>1, <1>2, KVAssumption DEF Init, TypeOK

LEMMA TypeStep == TypeOK /\ [Next]_vars => TypeOK'
<1> SUFFICES ASSUME TypeOK, [Next]_vars PROVE TypeOK'
  OBVIOUS
<1> USE KVAssumption
<1>0. NoResult \in Results /\ NewKV \in Machines /\ Len(log) \in Nat
  BY LenProperties DEF NoResult, Results, NewKV, Machines, TypeOK
<1>1. ASSUME NEW c \in Clients, NEW r \in Replicas, NewRequest(c, r)
      PROVE  TypeOK'
  <2>1. PICK op \in OpsOf[c], k \in Keys, seq \in Numbers(IdOf[c]) :
           Send(c, r, [id |-> IdOf[c], seq |-> seq, op |-> op, key |-> k, tag |-> attempts + 1])
    BY <1>1 DEF NewRequest
  <2>2. seq \in 1..MaxNumber /\ op \in {"put", "delete"}
    BY DEF Numbers
  <2>3. attempts + 1 \in 1..MaxAttempts =>
           [id |-> IdOf[c], seq |-> seq, op |-> op, key |-> k, tag |-> attempts + 1] \in Commands
    BY <2>2 DEF Commands
  <2> QED BY <2>1, <2>3, SendTyped
<1>2. ASSUME NEW c \in Clients, NEW r \in Replicas, Retry(c, r)
      PROVE  TypeOK'
  <2>1. PICK seq \in Numbers(IdOf[c]) : Send(c, r, [request[c].cmd EXCEPT !.seq = seq])
    BY <1>2 DEF Retry
  <2>2. request[c].cmd \in Commands
    BY <1>2 DEF Retry, TypeOK, Attempts
  <2>3. seq \in 1..MaxNumber
    BY DEF Numbers
  <2>4. [request[c].cmd EXCEPT !.seq = seq] \in Commands
    BY <2>2, <2>3 DEF Commands
  <2> QED BY <2>1, <2>4, SendTyped
<1>3. ASSUME NEW a \in inflight, Commit(a)
      PROVE  TypeOK'
  <2>1. log' \in Seq(Attempts) /\ Len(log') = Len(log) + 1
    BY <1>3, AppendProperties DEF Commit, TypeOK
  <2>2. 0..Len(log) \subseteq 0..Len(log') /\ 1..Len(log) \subseteq 1..Len(log')
    BY <1>0, <2>1
  <2> QED BY <1>3, <2>1, <2>2 DEF Commit, TypeOK
<1>4. ASSUME NEW r \in Replicas, StepDown(r)
      PROVE  TypeOK'
  BY <1>4 DEF StepDown, TypeOK
<1>5. ASSUME NEW r \in Replicas, ApplyNext(r)
      PROVE  TypeOK'
  <2>1. applied[r] + 1 \in 1..Len(log)
    BY <1>0, <1>5 DEF ApplyNext, TypeOK
  <2>2. log[applied[r] + 1] \in Attempts
    BY <2>1, ElementOfSeq DEF TypeOK
  <2>3. log[applied[r] + 1].cmd \in Commands
    BY <2>2 DEF Attempts
  <2>4. /\ Apply(machine[r], log[applied[r] + 1].cmd) \in Machines
        /\ Result(machine[r], log[applied[r] + 1].cmd) \in Results
    BY <2>3, ApplyTyped DEF TypeOK
  <2>5. applied' \in [Replicas -> 0..Len(log')] /\ machine' \in [Replicas -> Machines]
    BY <1>5, <2>1, <2>4 DEF ApplyNext, TypeOK
  <2>6. told' \in SUBSET [index : 1..Len(log'), cmd : Commands, res : Results]
    BY <1>5, <2>1, <2>3, <2>4 DEF ApplyNext, TypeOK
  <2>7. request' \in [Clients -> {None} \cup Attempts]
    BY <1>5 DEF ApplyNext, TypeOK
  <2> QED BY <1>5, <2>5, <2>6, <2>7 DEF ApplyNext, TypeOK
<1>6. ASSUME NEW r \in Replicas, TakeSnapshot(r)
      PROVE  TypeOK'
  BY <1>6 DEF TakeSnapshot, TypeOK
<1>7. ASSUME NEW r \in Replicas, Restart(r)
      PROVE  TypeOK'
  BY <1>0, <1>7 DEF Restart, TypeOK, IndexOf, RestoreKV
<1>8. ASSUME NEW r \in Replicas, NEW s \in Replicas, InstallSnapshot(r, s)
      PROVE  TypeOK'
  <2>1. Newest(snapshot[r], snapshot[s]) \in [index : 0..Len(log), kv : Machines]
    BY DEF Newest, TypeOK
  <2> QED BY <1>8, <2>1 DEF InstallSnapshot, TypeOK, IndexOf, RestoreKV
<1>9. CASE UNCHANGED vars
  BY <1>9 DEF vars, TypeOK
<1> QED BY <1>1, <1>2, <1>3, <1>4, <1>5, <1>6, <1>7, <1>8, <1>9 DEF Next

\* The key-value service keeps its types: the log, sessions, machines, snapshots and
\* answers hold commands and results, and no replica is ahead of the log.
THEOREM KVTypeCorrect == Spec => []TypeOK
<1>1. TypeOK /\ [Next]_vars => TypeOK'
  BY TypeStep
<1> QED BY TypeInit, <1>1, PTL DEF Spec

-----------------------------------------------------------------------------
(***************************************************************************)
(* What a log comes to.                                                    *)
(***************************************************************************)
LEMMA LogCommands ==
    ASSUME NEW l \in Seq(Attempts)
    PROVE  /\ Len(l) \in Nat
           /\ \A j \in 1..Len(l) : /\ l[j] \in Attempts /\ l[j].cmd \in Commands
                                   /\ l[j].cmd.seq \in Nat \ {0} /\ l[j].cmd.id \in Ids
<1>1. Len(l) \in Nat /\ \A j \in 1..Len(l) : l[j] \in Attempts
  BY LenProperties, ElementOfSeq
<1>2. \A a \in Attempts : a.cmd \in Commands /\ a.cmd.seq \in Nat \ {0} /\ a.cmd.id \in Ids
  BY KVAssumption DEF Attempts, Commands
<1> QED BY <1>1, <1>2

\* The value v of key k is the one of the last of the first n commands of l that
\* writes to k, or 0 when there is none.
IsValueAfter(l, n, k, v) ==
    \/ Writes(l, n, k) = {} /\ v = 0
    \/ \E i \in Writes(l, n, k) :
          /\ \A j \in Writes(l, n, k) : j <= i
          /\ v = ValueOf(l[i].cmd)

\* There is only one last write.
LEMMA ValueIsUnique ==
    ASSUME NEW l, NEW n \in Nat, NEW k, NEW v, IsValueAfter(l, n, k, v)
    PROVE  v = ValueAfter(l, n, k)
<1> DEFINE W == Writes(l, n, k)
<1>1. W \subseteq Nat
  BY DEF Writes
<1>2. CASE W = {}
  BY <1>2 DEF IsValueAfter, ValueAfter
<1>3. CASE W # {}
  <2>1. PICK i \in W : (\A j \in W : j <= i) /\ v = ValueOf(l[i].cmd)
    BY <1>3 DEF IsValueAfter
  <2> HIDE DEF W
  <2>2. \A x \in W : (\A j \in W : j <= x) <=> x = i
    BY <1>1, <2>1
  <2>3. (CHOOSE x \in W : \A j \in W : j <= x) = i
    BY <2>1, <2>2
  <2>4. ValueAfter(l, n, k) = ValueOf(l[CHOOSE x \in W : \A j \in W : j <= x].cmd)
    BY <1>3 DEF ValueAfter, W
  <2> QED BY <2>1, <2>3, <2>4
<1> QED BY <1>2, <1>3

\* A write that takes effect decides the value of its key, any other command
\* leaves every value alone.
LEMMA NextValue ==
    ASSUME NEW l, NEW n \in Nat, NEW k, NEW v, IsValueAfter(l, n, k, v)
    PROVE  IF TakesEffect(l, n + 1) /\ l[n + 1].cmd.key = k
           THEN IsValueAfter(l, n + 1, k, ValueOf(l[n + 1].cmd))
           ELSE IsValueAfter(l, n + 1, k, v)
<1>1. CASE TakesEffect(l, n + 1) /\ l[n + 1].cmd.key = k
  <2>1. n + 1 \in Writes(l, n + 1, k) /\ \A j \in Writes(l, n + 1, k) : j <= n + 1
    BY <1>1 DEF Writes
  <2> QED BY <1>1, <2>1 DEF IsValueAfter
<1>2. CASE ~(TakesEffect(l, n + 1) /\ l[n + 1].cmd.key = k)
  <2>1. \A i : i \in 1..n + 1 <=> i \in 1..n \/ i = n + 1
    OBVIOUS
  <2>2. Writes(l, n + 1, k) = Writes(l, n, k)
    BY <1>2, <2>1 DEF Writes
  <2> QED BY <1>2, <2>2 DEF IsValueAfter
<1> QED BY <1>1, <1>2

\* There is a last write, and the value is its value.
LEMMA ValueExists ==
    ASSUME NEW l, NEW n \in Nat, NEW k
    PROVE  IsValueAfter(l, n, k, ValueAfter(l, n, k))
<1> DEFINE W == Writes(l, n, k)
<1>1. W \subseteq 1..n
  BY DEF Writes
<1>2. CASE W = {}
  BY <1>2 DEF IsValueAfter, ValueAfter
<1>3. CASE W # {}
  <2> DEFINE T == {d \in Nat : \E i \in W : d = n - i}
  <2> HIDE DEF W
  <2>1. T \subseteq Nat /\ T # {}
    <3>1. PICK i \in W : i \in 1..n
      BY <1>1, <1>3
    <3>2. n - i \in T
      BY <3>1
    <3> QED BY <3>2
  <2>2. PICK t \in T : \A u \in T : ~(<<u, t>> \in OpToRel(<, Nat))
    <3> HIDE DEF T
    <3> QED BY <2>1, NatLessThanWellFounded, WFMin
  <2>3. PICK i \in W : t = n - i
    OBVIOUS
  <2>4. ASSUME NEW j \in W PROVE j <= i
    <3> SUFFICES ASSUME j > i PROVE FALSE
      BY <1>1
    <3>1. n - j \in T /\ n - j < t
      BY <1>1, <2>3
    <3>2. <<n - j, t>> \in OpToRel(<, Nat)
      BY <2>1, <3>1 DEF OpToRel
    <3> QED BY <2>2, <3>1, <3>2
  <2>5. IsValueAfter(l, n, k, ValueOf(l[i].cmd))
    BY <2>4 DEF IsValueAfter, W
  <2> QED BY <2>5, ValueIsUnique
<1> QED BY <1>2, <1>3

\* What is appended to the log takes no effect back.
LEMMA EffectStays ==
    ASSUME NEW l \in Seq(Attempts), NEW a \in Attempts, NEW i \in 1..Len(l)
    PROVE  /\ i \in 1..Len(Append(l, a)) /\ Append(l, a)[i] = l[i]
           /\ TakesEffect(Append(l, a), i) <=> TakesEffect(l, i)
<1> DEFINE m == Append(l, a)
<1>1. Len(l) \in Nat /\ Len(m) = Len(l) + 1 /\ \A j \in 1..Len(l) : m[j] = l[j]
  BY LenProperties, AppendProperties
<1> HIDE DEF m
<1>2. i \in 1..Len(m) /\ m[i] = l[i] /\ \A j \in 1..i - 1 : m[j] = l[j]
  BY <1>1
<1>3. TakesEffect(m, i) <=> TakesEffect(l, i)
  BY <1>2 DEF TakesEffect
<1> QED BY <1>2, <1>3 DEF m

\* The value after n commands stays when a command is appended.
LEMMA ValueStays ==
    ASSUME NEW l \in Seq(Attempts), NEW a \in Attempts, NEW n \in 0..Len(l), NEW k
    PROVE  ValueAfter(Append(l, a), n, k) = ValueAfter(l, n, k)
<1> DEFINE m == Append(l, a)
<1>1. \A j \in 1..Len(l) : m[j] = l[j] /\ (TakesEffect(m, j) <=> TakesEffect(l, j))
  BY EffectStays
<1>2. \A j \in 1..n : m[j] = l[j] /\ (TakesEffect(m, j) <=> TakesEffect(l, j))
  BY <1>1, LenProperties
<1> HIDE DEF m
<1>3. Writes(m, n, k) = Writes(l, n, k)
  BY <1>2 DEF Writes
<1>4. \A i \in Writes(l, n, k) : m[i] = l[i]
  BY <1>2 DEF Writes
<1>5. n \in Nat
  BY LenProperties
<1>6. IsValueAfter(l, n, k, ValueAfter(l, n, k))
  BY <1>5, ValueExists
<1>7. IsValueAfter(m, n, k, ValueAfter(l, n, k))
  BY <1>3, <1>4, <1>6 DEF IsValueAfter
<1>8. ValueAfter(l, n, k) = ValueAfter(m, n, k)
  BY <1>5, <1>7, ValueIsUnique
<1> QED BY <1>8 DEF m

\* What a command met stays, too.
LEMMA ResultStays ==
    ASSUME NEW l \in Seq(Attempts), NEW a \in Attempts, NEW i \in 1..Len(l)
    PROVE  ResultAt(Append(l, a), i) = ResultAt(l, i)
<1>1. i - 1 \in 0..Len(l)
  BY LenProperties
<1>2. Append(l, a)[i] = l[i]
  BY EffectStays
<1>3. ValueAfter(Append(l, a), i - 1, l[i].cmd.key) = ValueAfter(l, i - 1, l[i].cmd.key)
  BY <1>1, ValueStays
<1> QED BY <1>2, <1>3 DEF ResultAt

\* kv is what the first n commands of l come to, sessions included.
Faithful(kv, l, n) ==
    /\ \A k \in Keys : IsValueAfter(l, n, k, kv.data[k])
    /\ \A i \in Ids \ {Anonymous} : IsSessionAfter(l, n, i, kv.sess[i])

\* What is appended to the log changes nothing of what came before.
LEMMA PrefixStays ==
    ASSUME NEW l \in Seq(Attempts), NEW a \in Attempts, NEW n \in 0..Len(l),
           NEW kv, Faithful(kv, l, n)
    PROVE  Faithful(kv, Append(l, a), n)
<1> DEFINE m == Append(l, a)
<1>1. \A i \in 1..Len(l) : /\ m[i] = l[i] /\ (TakesEffect(m, i) <=> TakesEffect(l, i))
                           /\ ResultAt(m, i) = ResultAt(l, i)
  BY EffectStays, ResultStays
<1>2. \A i \in 1..n : /\ m[i] = l[i] /\ (TakesEffect(m, i) <=> TakesEffect(l, i))
                      /\ ResultAt(m, i) = ResultAt(l, i)
  BY <1>1, LenProperties
<1> HIDE DEF m
<1>3. ASSUME NEW k \in Keys
      PROVE  IsValueAfter(m, n, k, kv.data[k])
  <2>1. Writes(m, n, k) = Writes(l, n, k)
    BY <1>2 DEF Writes
  <2>2. \A i \in Writes(l, n, k) : m[i] = l[i]
    BY <1>2 DEF Writes
  <2> QED BY <2>1, <2>2 DEF IsValueAfter, Faithful
<1>4. ASSUME NEW i \in Ids \ {Anonymous}
      PROVE  IsSessionAfter(m, n, i, kv.sess[i])
  <2> DEFINE own == {j \in 1..n : l[j].cmd.id = i}
  <2>1. {j \in 1..n : m[j].cmd.id = i} = own
    BY <1>2
  <2>2. IsSessionAfter(l, n, i, kv.sess[i])
    BY DEF Faithful
  <2>3. \A j \in own : /\ m[j] = l[j] /\ (TakesEffect(m, j) <=> TakesEffect(l, j))
                       /\ ResultAt(m, j) = ResultAt(l, j)
    BY <1>2
  <2> QED BY <2>1, <2>2, <2>3 DEF IsSessionAfter
<1> QED BY <1>3, <1>4 DEF Faithful, m

\* What a session tells of the log: its number is the largest of its client, and its
\* answer the one of the command with that number.
LEMMA SessionTells ==
    ASSUME NEW l \in Seq(Attempts), NEW n \in 0..Len(l), NEW i \in Ids,
           NEW s, IsSessionAfter(l, n, i, s)
    PROVE  /\ s.seq \in Nat
           /\ \A j \in 1..n : l[j].cmd.id = i => l[j].cmd.seq <= s.seq
           /\ s.seq > 0 => \E j \in 1..n : /\ l[j].cmd.id = i /\ l[j].cmd.seq = s.seq
                                           /\ TakesEffect(l, j)
                                           /\ s.res = ResultAt(l, j)
<1> DEFINE own == {j \in 1..n : l[j].cmd.id = i}
<1>1. \A j \in 1..n : l[j].cmd.seq \in Nat
  BY LogCommands
<1>2. CASE own = {} /\ s = [seq |-> 0, res |-> NoResult]
  <2>1. s.seq = 0
    BY <1>2
  <2> QED BY <1>2, <2>1
<1>3. CASE \E j \in own : /\ TakesEffect(l, j)
                          /\ \A x \in own : l[x].cmd.seq <= l[j].cmd.seq
                          /\ s = [seq |-> l[j].cmd.seq, res |-> ResultAt(l, j)]
  <2>1. PICK j \in own : /\ TakesEffect(l, j)
                         /\ \A x \in own : l[x].cmd.seq <= l[j].cmd.seq
                         /\ s = [seq |-> l[j].cmd.seq, res |-> ResultAt(l, j)]
    BY <1>3
  <2>2. s.seq = l[j].cmd.seq /\ s.res = ResultAt(l, j)
    BY <2>1
  <2> QED BY <1>1, <2>1, <2>2
<1> QED BY <1>2, <1>3 DEF IsSessionAfter

\* The check of the session tells exactly whether the next command takes effect.
LEMMA HitMeansNoEffect ==
    ASSUME NEW l \in Seq(Attempts), NEW n \in Nat, n < Len(l),
           NEW kv \in Machines, Faithful(kv, l, n)
    PROVE  Hit(kv, l[n + 1].cmd) <=> ~TakesEffect(l, n + 1)
<1> DEFINE cmd == l[n + 1].cmd
           s   == kv.sess[cmd.id]
<1>1. \A j \in 1..n + 1 : l[j].cmd.seq \in Nat \ {0} /\ l[j].cmd.id \in Ids
  BY LogCommands
<1>2. cmd.seq \in Nat \ {0} /\ cmd.id \in Ids
  BY <1>1
<1>3. CASE cmd.id = Anonymous
  BY <1>3 DEF Hit, TakesEffect
<1>4. CASE cmd.id # Anonymous
  <2>1. Hit(kv, cmd) <=> cmd.seq <= s.seq
    BY <1>4 DEF Hit
  <2>2. TakesEffect(l, n + 1) <=> \A j \in 1..n : l[j].cmd.id = cmd.id => l[j].cmd.seq < cmd.seq
    BY <1>4 DEF TakesEffect
  <2>3. n \in 0..Len(l) /\ IsSessionAfter(l, n, cmd.id, s)
    BY <1>2, <1>4, LenProperties DEF Faithful
  <2>4. /\ s.seq \in Nat
        /\ \A j \in 1..n : l[j].cmd.id = cmd.id => l[j].cmd.seq <= s.seq
        /\ s.seq > 0 => \E j \in 1..n : l[j].cmd.id = cmd.id /\ l[j].cmd.seq = s.seq
    BY <1>2, <2>3, SessionTells
  <2>5. \A j \in 1..n : l[j].cmd.seq \in Nat
    BY <1>1
  <2> HIDE DEF cmd, s
  <2>6. Hit(kv, cmd) <=> ~TakesEffect(l, n + 1)
    BY <1>2, <2>1, <2>2, <2>4, <2>5
  <2> QED BY <2>6 DEF cmd
<1> QED BY <1>3, <1>4

\* The result of a command that takes effect is what it met in the log.
LEMMA ResultOfEffect ==
    ASSUME NEW l \in Seq(Attempts), NEW n \in Nat, n < Len(l),
           NEW kv \in Machines, Faithful(kv, l, n), ~Hit(kv, l[n + 1].cmd)
    PROVE  TakesEffect(l, n + 1) /\ Result(kv, l[n + 1].cmd) = ResultAt(l, n + 1)
<1> DEFINE cmd == l[n + 1].cmd
<1>1. TakesEffect(l, n + 1)
  BY HitMeansNoEffect
<1>2. n + 1 \in 1..Len(l)
  BY LenProperties
<1>3. cmd.key \in Keys
  BY <1>2, LogCommands DEF Commands
<1>4. kv.data[cmd.key] = ValueAfter(l, n, cmd.key)
  BY <1>3, ValueIsUnique DEF Faithful
<1>5. (n + 1) - 1 = n
  OBVIOUS
<1> QED BY <1>1, <1>4, <1>5 DEF Result, ResultAt

\* A command that takes effect becomes the session of its client, any other one leaves
\* every session alone.
LEMMA NextSession ==
    ASSUME NEW l \in Seq(Attempts), NEW n \in Nat, n < Len(l), NEW i \in Ids \ {Anonymous},
           NEW s, IsSessionAfter(l, n, i, s)
    PROVE  IF TakesEffect(l, n + 1) /\ l[n + 1].cmd.id = i
           THEN IsSessionAfter(l, n + 1, i,
                               [seq |-> l[n + 1].cmd.seq, res |-> ResultAt(l, n + 1)])
           ELSE IsSessionAfter(l, n + 1, i, s)
<1> DEFINE own == {j \in 1..n : l[j].cmd.id = i}
           new == {j \in 1..n + 1 : l[j].cmd.id = i}
<1>1. \A j \in 1..n + 1 : l[j].cmd.seq \in Nat \ {0}
  BY LogCommands
<1>2. \A j : j \in 1..n + 1 <=> j \in 1..n \/ j = n + 1
  OBVIOUS
<1>3. CASE TakesEffect(l, n + 1) /\ l[n + 1].cmd.id = i
  <2>1. \A j \in 1..n : l[j].cmd.id = i => l[j].cmd.seq < l[n + 1].cmd.seq
    BY <1>3 DEF TakesEffect
  <2>2. n + 1 \in new /\ \A j \in new : l[j].cmd.seq <= l[n + 1].cmd.seq
    BY <1>1, <1>2, <1>3, <2>1
  <2> QED BY <1>3, <2>2 DEF IsSessionAfter
<1>4. CASE l[n + 1].cmd.id # i
  <2>1. new = own
    BY <1>2, <1>4
  <2> QED BY <1>4, <2>1 DEF IsSessionAfter
<1>5. CASE ~TakesEffect(l, n + 1) /\ l[n + 1].cmd.id = i
  <2>1. PICK x \in 1..n : l[x].cmd.id = i /\ ~(l[x].cmd.seq < l[n + 1].cmd.seq)
    BY <1>5 DEF TakesEffect
  <2>2. x \in own
    BY <2>1
  <2>3. PICK j \in own : /\ TakesEffect(l, j)
                         /\ \A y \in own : l[y].cmd.seq <= l[j].cmd.seq
                         /\ s = [seq |-> l[j].cmd.seq, res |-> ResultAt(l, j)]
    BY <2>2 DEF IsSessionAfter
  <2>4. l[x].cmd.seq \in Nat /\ l[j].cmd.seq \in Nat /\ l[n + 1].cmd.seq \in Nat
    BY <1>1, <1>2, <2>3
  <2>5. l[x].cmd.seq <= l[j].cmd.seq
    BY <2>2, <2>3
  <2>6. l[n + 1].cmd.seq <= l[j].cmd.seq
    BY <2>1, <2>4, <2>5
  <2>7. j \in new /\ \A y \in new : l[y].cmd.seq <= l[j].cmd.seq
    BY <1>2, <2>3, <2>6
  <2> QED BY <1>5, <2>3, <2>7 DEF IsSessionAfter
<1> QED BY <1>3, <1>4, <1>5

\* Applying the next command of the log keeps the machine faithful.
LEMMA ApplyFaithful ==
    ASSUME NEW l \in Seq(Attempts), NEW n \in Nat, n < Len(l),
           NEW kv \in Machines, Faithful(kv, l, n)
    PROVE  Faithful(Apply(kv, l[n + 1].cmd), l, n + 1)
<1> DEFINE cmd == l[n + 1].cmd
           new == Apply(kv, cmd)
<1>1. cmd.id \in Ids /\ cmd.key \in Keys
  <2>1. n + 1 \in 1..Len(l)
    BY LenProperties
  <2> QED BY <2>1, LogCommands DEF Commands
<1>2. Hit(kv, cmd) <=> ~TakesEffect(l, n + 1)
  BY HitMeansNoEffect
<1>3. /\ \A k \in Keys : IsValueAfter(l, n, k, kv.data[k])
      /\ \A i \in Ids \ {Anonymous} : IsSessionAfter(l, n, i, kv.sess[i])
  BY DEF Faithful
<1>4. CASE Hit(kv, cmd)
  <2>1. new = kv
    BY <1>4 DEF Apply
  <2>2. \A k \in Keys : IsValueAfter(l, n + 1, k, kv.data[k])
    BY <1>2, <1>3, <1>4, NextValue
  <2>3. \A i \in Ids \ {Anonymous} : IsSessionAfter(l, n + 1, i, kv.sess[i])
    BY <1>2, <1>3, <1>4, NextSession
  <2> QED BY <2>1, <2>2, <2>3 DEF Faithful
<1>5. CASE ~Hit(kv, cmd)
  <2>1. /\ new.data = [kv.data EXCEPT ![cmd.key] = ValueOf(cmd)]
        /\ new.sess = IF cmd.id = Anonymous THEN kv.sess
                      ELSE [kv.sess EXCEPT ![cmd.id] =
                               [seq |-> cmd.seq, res |-> Result(kv, cmd)]]
    BY <1>5 DEF Apply
  <2>2. ASSUME NEW k \in Keys
        PROVE  IsValueAfter(l, n + 1, k, new.data[k])
    <3>1. IF cmd.key = k THEN IsValueAfter(l, n + 1, k, ValueOf(cmd))
          ELSE IsValueAfter(l, n + 1, k, kv.data[k])
      BY <1>2, <1>3, <1>5, NextValue
    <3>2. new.data[k] = IF cmd.key = k THEN ValueOf(cmd) ELSE kv.data[k]
      BY <1>1, <2>1 DEF Machines
    <3> HIDE DEF new, cmd
    <3> QED BY <3>1, <3>2
  <2>3. ASSUME NEW i \in Ids \ {Anonymous}
        PROVE  IsSessionAfter(l, n + 1, i, new.sess[i])
    <3>1. Result(kv, cmd) = ResultAt(l, n + 1)
      BY <1>5, ResultOfEffect
    <3>2. IF cmd.id = i
          THEN IsSessionAfter(l, n + 1, i, [seq |-> cmd.seq, res |-> Result(kv, cmd)])
          ELSE IsSessionAfter(l, n + 1, i, kv.sess[i])
      BY <1>2, <1>3, <1>5, <3>1, NextSession
    <3>3. new.sess[i] = IF cmd.id = i THEN [seq |-> cmd.seq, res |-> Result(kv, cmd)]
                        ELSE kv.sess[i]
      BY <1>1, <2>1 DEF Machines
    <3> HIDE DEF new, cmd
    <3> QED BY <3>2, <3>3
  <2> HIDE DEF new
  <2>4. Faithful(new, l, n + 1)
    BY <2>2, <2>3 DEF Faithful
  <2> QED BY <2>4 DEF new
<1> QED BY <1>4, <1>5

\* Machines and snapshots are faithful, and no snapshot is ahead of its replica.
Inv ==
    /\ TypeOK
    /\ \A r \in Replicas :
          /\ Faithful(machine[r], log, applied[r])
          /\ Faithful(snapshot[r].kv, log, snapshot[r].index)
          /\ snapshot[r].index <= applied[r]

LEMMA InvInit == Init => Inv
<1> SUFFICES ASSUME Init PROVE Inv
  OBVIOUS
<1>1. Faithful(NewKV, log, 0)
  <2>1. \A k \in Keys : Writes(log, 0, k) = {} /\ NewKV.data[k] = 0
    BY DEF Writes, NewKV
  <2>2. \A i \in Ids : NewKV.sess[i] = [seq |-> 0, res |-> NoResult]
    BY DEF NewKV
  <2>3. \A i : {j \in 1..0 : log[j].cmd.id = i} = {}
    OBVIOUS
  <2> QED BY <2>1, <2>2, <2>3 DEF Faithful, IsValueAfter, IsSessionAfter
<1> QED BY <1>1, TypeInit DEF Init, Inv

LEMMA InvStep ==
    ASSUME ~LateSnapshots
    PROVE  Inv /\ [Next]_vars => Inv'
<1> SUFFICES ASSUME Inv, [Next]_vars PROVE Inv'
  OBVIOUS
<1>0. TypeOK /\ TypeOK'
  BY TypeStep DEF Inv
<1>1. ASSUME UNCHANGED <<log, applied, machine, snapshot>>
      PROVE  Inv'
  BY <1>0, <1>1 DEF Inv
<1>2. ASSUME NEW a \in inflight, Commit(a)
      PROVE  Inv'
  <2>1. /\ log' = Append(log, a) /\ a \in Attempts /\ log \in Seq(Attempts)
        /\ UNCHANGED <<applied, machine, snapshot>>
    BY <1>0, <1>2 DEF Commit, TypeOK
  <2>2. \A r \in Replicas : applied[r] \in 0..Len(log) /\ snapshot[r].index \in 0..Len(log)
    BY <1>0 DEF TypeOK
  <2>3. \A r \in Replicas : /\ Faithful(machine[r], log', applied[r])
                            /\ Faithful(snapshot[r].kv, log', snapshot[r].index)
    BY <2>1, <2>2, PrefixStays DEF Inv
  <2> QED BY <1>0, <2>1, <2>3 DEF Inv
<1>3. ASSUME NEW r \in Replicas, ApplyNext(r)
      PROVE  Inv'
  <2> DEFINE n == applied[r]
             kv == Apply(machine[r], log[n + 1].cmd)
  <2>1. /\ n \in Nat /\ n < Len(log) /\ log \in Seq(Attempts) /\ machine[r] \in Machines
    BY <1>0, <1>3 DEF ApplyNext, TypeOK
  <2>2. Faithful(kv, log, n + 1)
    BY <2>1, ApplyFaithful DEF Inv
  <2>3. /\ machine' = [machine EXCEPT ![r] = kv] /\ applied' = [applied EXCEPT ![r] = n + 1]
        /\ UNCHANGED <<log, snapshot>>
    BY <1>3 DEF ApplyNext
  <2> HIDE DEF kv
  <2>4. \A x \in Replicas : Faithful(machine'[x], log, applied'[x])
    BY <1>0, <2>2, <2>3 DEF TypeOK, Inv
  <2>5. \A x \in Replicas : snapshot[x].index <= applied'[x]
    <3>1. \A x \in Replicas : snapshot[x].index \in Nat /\ applied[x] \in Nat
                                /\ snapshot[x].index <= applied[x]
      BY <1>0 DEF TypeOK, Inv
    <3>2. \A x \in Replicas : applied'[x] = IF x = r THEN n + 1 ELSE applied[x]
      BY <1>0, <2>3 DEF TypeOK
    <3> QED BY <3>1, <3>2
  <2> QED BY <1>0, <2>3, <2>4, <2>5 DEF Inv
<1>4. ASSUME NEW r \in Replicas, TakeSnapshot(r)
      PROVE  Inv'
  <2>1. /\ snapshot' = [snapshot EXCEPT ![r] = [index |-> applied[r], kv |-> machine[r]]]
        /\ UNCHANGED <<log, applied, machine>>
    BY <1>4 DEF TakeSnapshot
  <2>2. \A x \in Replicas : snapshot'[x] = IF x = r THEN [index |-> applied[r], kv |-> machine[r]]
                                          ELSE snapshot[x]
    BY <1>0, <2>1 DEF TypeOK
  <2>3. applied[r] <= applied[r]
    BY <1>0 DEF TypeOK
  <2> QED BY <1>0, <2>1, <2>2, <2>3 DEF Inv
\* Replica r takes over the snapshot of s, or its own after a restart.
<1>5. ASSUME NEW r \in Replicas, NEW s \in Replicas,
             machine' = [machine EXCEPT ![r] = snapshot[s].kv],
             applied' = [applied EXCEPT ![r] = snapshot[s].index],
             snapshot' = [snapshot EXCEPT ![r] = snapshot[s]],
             log' = log
      PROVE  Inv'
  <2>1. \A x \in Replicas :
           /\ machine'[x] = IF x = r THEN snapshot[s].kv ELSE machine[x]
           /\ applied'[x] = IF x = r THEN snapshot[s].index ELSE applied[x]
           /\ snapshot'[x] = IF x = r THEN snapshot[s] ELSE snapshot[x]
    BY <1>0, <1>5 DEF TypeOK
  <2>2. snapshot[s].index <= snapshot[s].index
    BY <1>0 DEF TypeOK
  <2> QED BY <1>0, <1>5, <2>1, <2>2 DEF Inv
<1>6. ASSUME NEW r \in Replicas, Restart(r)
      PROVE  Inv'
  <2>1. snapshot' = [snapshot EXCEPT ![r] = snapshot[r]]
    BY <1>0, <1>6 DEF Restart, TypeOK
  <2> QED BY <1>5, <1>6, <2>1 DEF Restart, RestoreKV, IndexOf
<1>7. ASSUME NEW r \in Replicas, NEW s \in Replicas, InstallSnapshot(r, s)
      PROVE  Inv'
  <2>1. snapshot[s].index > applied[r] /\ snapshot[r].index <= applied[r]
    BY <1>7 DEF InstallSnapshot, Inv
  <2>2. snapshot[s].index \in Nat /\ applied[r] \in Nat /\ snapshot[r].index \in Nat
    BY <1>0 DEF TypeOK
  <2>3. Newest(snapshot[r], snapshot[s]) = snapshot[s]
    BY <2>1, <2>2 DEF Newest
  <2> QED BY <1>5, <1>7, <2>3 DEF InstallSnapshot, RestoreKV, IndexOf
<1> QED BY <1>1, <1>2, <1>3, <1>4, <1>6, <1>7
     DEF Next, vars, NewRequest, Retry, Send, StepDown

\* Whatever is retried, reordered, restarted or installed, a replica's data are what
\* the committed commands come to, each counted once (Sessions.Check, KV.Apply).
THEOREM EveryEffectOnce ==
    ASSUME ~LateSnapshots
    PROVE  Spec => []EffectsOnce
<1>1. Inv => EffectsOnce
  <2> SUFFICES ASSUME Inv, NEW r \in Replicas, NEW k \in Keys
               PROVE  machine[r].data[k] = ValueAfter(log, applied[r], k)
    BY DEF EffectsOnce
  <2>1. applied[r] \in Nat /\ IsValueAfter(log, applied[r], k, machine[r].data[k])
    BY DEF Inv, TypeOK, Faithful
  <2> QED BY <2>1, ValueIsUnique
<1>2. Inv /\ [Next]_vars => Inv'
  BY InvStep
<1> QED BY InvInit, <1>1, <1>2, PTL DEF Spec

\* Sessions are those of the log wherever they are kept, whatever numbers callers choose
\* and clocks show (Sessions.Check and Store, KV.Snapshot, KV.Restore).
THEOREM SessionsFollowLog ==
    ASSUME ~LateSnapshots
    PROVE  Spec => []SessionsOfLog
<1>1. Inv => SessionsOfLog
  BY DEF Inv, Faithful, SessionsOfLog
<1>2. Inv /\ [Next]_vars => Inv'
  BY InvStep
<1> QED BY InvInit, <1>1, <1>2, PTL DEF Spec

-----------------------------------------------------------------------------
(***************************************************************************)
(* What callers are told.                                                  *)
(***************************************************************************)
\* Answer t is what its command met in log l, or what the one met that overtook it.
TrueAnswer(l, t) ==
    /\ t.index \in 1..Len(l) /\ l[t.index].cmd = t.cmd
    /\ \E j \in 1..t.index :
          /\ TakesEffect(l, j) /\ t.res = ResultAt(l, j)
          /\ \/ j = t.index
             \/ /\ t.cmd.id # Anonymous /\ l[j].cmd.id = t.cmd.id
                /\ l[j].cmd.seq >= t.cmd.seq

LEMMA TrueAnswerStays ==
    ASSUME NEW l \in Seq(Attempts), NEW a \in Attempts, NEW t, TrueAnswer(l, t)
    PROVE  TrueAnswer(Append(l, a), t)
<1> DEFINE m == Append(l, a)
<1>1. Len(l) \in Nat
  BY LenProperties
<1>2. \A j \in 1..Len(l) : /\ j \in 1..Len(m) /\ m[j] = l[j]
                           /\ TakesEffect(m, j) <=> TakesEffect(l, j)
                           /\ ResultAt(m, j) = ResultAt(l, j)
  BY EffectStays, ResultStays
<1> HIDE DEF m
<1>3. t.index \in 1..Len(l) /\ \A j \in 1..t.index : j \in 1..Len(l)
  BY <1>1 DEF TrueAnswer
<1>4. TrueAnswer(m, t)
  BY <1>2, <1>3 DEF TrueAnswer
<1> QED BY <1>4 DEF m

\* What a machine answers is true, to a duplicate and to an overtaken command, too.
LEMMA ResultIsTrue ==
    ASSUME NEW l \in Seq(Attempts), NEW n \in Nat, n < Len(l),
           NEW kv \in Machines, Faithful(kv, l, n),
           NEW t, t = [index |-> n + 1, cmd |-> l[n + 1].cmd, res |-> Result(kv, l[n + 1].cmd)]
    PROVE  TrueAnswer(l, t)
<1> DEFINE cmd == l[n + 1].cmd
           s   == kv.sess[cmd.id]
<1>1. n + 1 \in 1..Len(l) /\ n \in 0..Len(l) /\ n + 1 \in 1..n + 1
  BY LenProperties
<1>2. t.index = n + 1 /\ t.cmd = cmd /\ t.res = Result(kv, cmd)
  OBVIOUS
<1>3. cmd.seq \in Nat \ {0} /\ cmd.id \in Ids
  BY <1>1, LogCommands
<1>4. CASE ~Hit(kv, cmd)
  <2>1. TakesEffect(l, n + 1) /\ Result(kv, cmd) = ResultAt(l, n + 1)
    BY <1>4, ResultOfEffect
  <2> QED BY <1>1, <1>2, <2>1 DEF TrueAnswer
<1>5. CASE Hit(kv, cmd)
  <2>1. cmd.id # Anonymous /\ cmd.seq <= s.seq /\ Result(kv, cmd) = s.res
    BY <1>5 DEF Hit, Result
  <2>2. IsSessionAfter(l, n, cmd.id, s)
    BY <1>3, <2>1 DEF Faithful
  <2> HIDE DEF s
  <2>3. /\ s.seq \in Nat
        /\ s.seq > 0 => \E j \in 1..n : /\ l[j].cmd.id = cmd.id /\ l[j].cmd.seq = s.seq
                                        /\ TakesEffect(l, j)
                                        /\ s.res = ResultAt(l, j)
    BY <1>1, <1>3, <2>2, SessionTells
  <2>4. s.seq > 0
    BY <1>3, <2>1, <2>3
  <2>5. PICK j \in 1..n : /\ l[j].cmd.id = cmd.id /\ l[j].cmd.seq = s.seq
                          /\ TakesEffect(l, j)
                          /\ s.res = ResultAt(l, j)
    BY <2>3, <2>4
  <2>6. j \in 1..n + 1 /\ l[j].cmd.seq >= cmd.seq
    BY <1>3, <2>1, <2>3, <2>5
  <2> QED BY <1>1, <1>2, <2>1, <2>5, <2>6 DEF TrueAnswer
<1> QED BY <1>4, <1>5

\* Why the service is one store: machines are what the log comes to, and what was
\* answered is true of it.
StoreInv == Inv /\ \A t \in told : TrueAnswer(log, t)

LEMMA StoreInit == Init => StoreInv
BY InvInit DEF Init, StoreInv

\* The answer that a step of r gives, if it gives one.
LEMMA ToldBy ==
    ASSUME StoreInv, NEW r \in Replicas, ApplyNext(r)
    PROVE  /\ log' = log /\ inflight' = inflight
           /\ \/ told' = told
              \/ \E t : /\ told' = told \cup {t} /\ TrueAnswer(log, t)
                        /\ t.cmd = log[t.index].cmd
                        /\ \E c \in Clients : /\ request[c] # None
                                              /\ request[c].try = log[t.index].try
<1> DEFINE n == applied[r]
           a == log[n + 1]
           t == [index |-> n + 1, cmd |-> a.cmd, res |-> Result(machine[r], a.cmd)]
           Answered == {c \in proposals[r] : request[c] # None /\ request[c].try = a.try}
<1>1. /\ n \in Nat /\ n < Len(log) /\ log \in Seq(Attempts) /\ machine[r] \in Machines
      /\ Faithful(machine[r], log, n) /\ proposals[r] \subseteq Clients
  BY DEF ApplyNext, StoreInv, Inv, TypeOK
<1>2. told' = IF Answered = {} THEN told ELSE told \cup {t}
  BY DEF ApplyNext
<1>3. log' = log /\ inflight' = inflight
  BY DEF ApplyNext
<1>4. TrueAnswer(log, t)
  BY <1>1, ResultIsTrue
<1>5. t.index = n + 1 /\ t.cmd = a.cmd
  OBVIOUS
<1> HIDE DEF t
<1>6. CASE Answered = {}
  BY <1>2, <1>3, <1>6
<1>7. CASE Answered # {}
  <2>1. PICK c \in Clients : request[c] # None /\ request[c].try = a.try
    BY <1>1, <1>7
  <2> QED BY <1>2, <1>3, <1>4, <1>5, <1>7, <2>1
<1> QED BY <1>6, <1>7

LEMMA StoreStep ==
    ASSUME ~LateSnapshots
    PROVE  StoreInv /\ [Next]_vars => StoreInv'
<1> SUFFICES ASSUME StoreInv, [Next]_vars PROVE \A t \in told' : TrueAnswer(log', t)
  BY InvStep DEF StoreInv
<1>0. TypeOK /\ log \in Seq(Attempts) /\ \A t \in told : TrueAnswer(log, t)
  BY DEF StoreInv, Inv, TypeOK
<1>1. CASE UNCHANGED <<log, told>>
  BY <1>0, <1>1
<1>2. ASSUME NEW a \in inflight, Commit(a)
      PROVE  \A t \in told' : TrueAnswer(log', t)
  <2>1. log' = Append(log, a) /\ a \in Attempts /\ told' = told
    BY <1>0, <1>2 DEF Commit, TypeOK
  <2> QED BY <1>0, <2>1, TrueAnswerStays
<1>3. ASSUME NEW r \in Replicas, ApplyNext(r)
      PROVE  \A t \in told' : TrueAnswer(log', t)
  <2>1. log' = log /\ (told' = told \/ \E t : told' = told \cup {t} /\ TrueAnswer(log, t))
    BY <1>3, ToldBy
  <2> QED BY <1>0, <2>1
<1> QED BY <1>1, <1>2, <1>3
     DEF Next, vars, NewRequest, Retry, Send, StepDown, TakeSnapshot, Restart, InstallSnapshot

\* A true answer is the request's own, but for a rival before it.
LEMMA TrueIsOwn ==
    ASSUME TypeOK, NEW t \in told, TrueAnswer(log, t)
    PROVE  OwnAnswer(t) \/ Rivalled(log, t.index)
<1>1. PICK j \in 1..t.index :
         /\ TakesEffect(log, j) /\ t.res = ResultAt(log, j)
         /\ \/ j = t.index
            \/ t.cmd.id # Anonymous /\ log[j].cmd.id = t.cmd.id /\ log[j].cmd.seq >= t.cmd.seq
  BY DEF TrueAnswer
<1>2. t.index \in Nat /\ log[t.index].cmd = t.cmd
  BY LogCommands DEF TrueAnswer, TypeOK
<1>3. CASE log[j].cmd.tag = t.cmd.tag
  BY <1>1, <1>3 DEF OwnAnswer
<1>4. CASE log[j].cmd.tag # t.cmd.tag
  <2>1. j # t.index
    BY <1>2, <1>4
  <2>2. j \in 1..t.index - 1
    BY <1>2, <2>1
  <2> QED BY <1>1, <1>2, <1>4, <2>1, <2>2 DEF Rivalled
<1> QED BY <1>3, <1>4

\* Whoever is told success without having had its own request take effect, or is told
\* another's result, has a rival: a request committed before under the same client_id with
\* a number not smaller (Sessions.Check, KV.Apply).  Nothing else can bring it about.
THEOREM UnrivalledAnswersAreOwn ==
    ASSUME ~LateSnapshots
    PROVE  Spec => []UnrivalledIsOwn
<1>1. StoreInv => UnrivalledIsOwn
  BY TrueIsOwn DEF StoreInv, Inv, UnrivalledIsOwn
<1>2. StoreInv /\ [Next]_vars => StoreInv'
  BY StoreStep
<1> QED BY StoreInit, <1>1, <1>2, PTL DEF Spec

-----------------------------------------------------------------------------
(***************************************************************************)
(* Callers whose numbers rise.                                             *)
(***************************************************************************)
\* An attempt is known by its number, and a caller waits for one that was sent.
SentInv ==
    /\ \A a \in Sent : a.try <= attempts
    /\ \A a, b \in Sent : a.try = b.try => a = b
    /\ \A c \in Clients : request[c] # None => /\ request[c] \in Sent
                                               /\ request[c].cmd.id = IdOf[c]

\* A request is one attempt more, a commit none.
LEMMA SentBySend ==
    ASSUME NEW c \in Clients, NEW r \in Replicas, NewRequest(c, r) \/ Retry(c, r)
    PROVE  \E cmd : /\ Send(c, r, cmd)
                    /\ \/ cmd.id = IdOf[c]
                       \/ request[c] # None /\ cmd.id = request[c].cmd.id
                    /\ Sent' = Sent \cup {[cmd |-> cmd, try |-> attempts + 1]}
                    /\ UNCHANGED <<log, told>>
<1>1. PICK cmd : /\ Send(c, r, cmd)
                 /\ \/ cmd.id = IdOf[c]
                    \/ request[c] # None /\ cmd.id = request[c].cmd.id
  <2>1. CASE NewRequest(c, r)
    <3>1. PICK op, k, seq :
             Send(c, r, [id |-> IdOf[c], seq |-> seq, op |-> op, key |-> k, tag |-> attempts + 1])
      BY <2>1 DEF NewRequest
    <3> QED BY <3>1
  <2>2. CASE Retry(c, r)
    <3>1. PICK seq : request[c] # None /\ Send(c, r, [request[c].cmd EXCEPT !.seq = seq])
      BY <2>2 DEF Retry
    <3>2. [request[c].cmd EXCEPT !.seq = seq].id = request[c].cmd.id
      OBVIOUS
    <3> QED BY <3>1, <3>2
  <2> QED BY <2>1, <2>2
<1> DEFINE a == [cmd |-> cmd, try |-> attempts + 1]
<1>2. inflight' = inflight \cup {a} /\ UNCHANGED <<log, told>>
  BY <1>1 DEF Send
<1> HIDE DEF a
<1>3. Sent' = Sent \cup {a}
  BY <1>2 DEF Sent
<1> QED BY <1>1, <1>2, <1>3 DEF a

LEMMA SentByCommit ==
    ASSUME TypeOK, NEW a \in inflight, Commit(a)
    PROVE  Sent' = Sent
<1>1. /\ log \in Seq(Attempts) /\ a \in Attempts /\ log' = Append(log, a)
      /\ inflight' = inflight \ {a}
  BY DEF TypeOK, Commit
<1>2. /\ Len(log) \in Nat /\ Len(log') = Len(log) + 1 /\ log'[Len(log) + 1] = a
      /\ \A j \in 1..Len(log) : log'[j] = log[j]
  BY <1>1, LenProperties, AppendProperties
<1>3. \A j : j \in 1..Len(log') <=> j \in 1..Len(log) \/ j = Len(log) + 1
  BY <1>2
<1>4. {log'[j] : j \in 1..Len(log')} = {log[j] : j \in 1..Len(log)} \cup {a}
  BY <1>2, <1>3
<1> QED BY <1>1, <1>4 DEF Sent

LEMMA SentStep == TypeOK /\ SentInv /\ [Next]_vars => SentInv'
<1> SUFFICES ASSUME TypeOK, SentInv, [Next]_vars PROVE SentInv'
  OBVIOUS
<1>1. ASSUME NEW c \in Clients, NEW r \in Replicas, NewRequest(c, r) \/ Retry(c, r)
      PROVE  SentInv'
  <2> DEFINE t == attempts + 1
  <2>1. PICK cmd : /\ Send(c, r, cmd)
                   /\ \/ cmd.id = IdOf[c]
                      \/ request[c] # None /\ cmd.id = request[c].cmd.id
                   /\ Sent' = Sent \cup {[cmd |-> cmd, try |-> t]}
    BY <1>1, SentBySend
  <2> DEFINE a == [cmd |-> cmd, try |-> t]
  <2>2. a.cmd = cmd /\ a.try = t
    OBVIOUS
  <2>3. cmd.id = IdOf[c]
    BY <2>1 DEF SentInv
  <2>4. attempts' = t /\ request' = [request EXCEPT ![c] = a] /\ Sent' = Sent \cup {a}
    BY <2>1 DEF Send
  <2> HIDE DEF a
  <2>5. \A x \in Sent : x.try \in Nat /\ x.try <= attempts
    <3>1. \A x \in Attempts : x.try \in Nat
      BY KVAssumption DEF Attempts
    <3>2. Sent \subseteq Attempts
      BY LogCommands DEF Sent, TypeOK
    <3> QED BY <3>1, <3>2 DEF SentInv
  <2>6. attempts \in Nat
    BY KVAssumption DEF TypeOK
  <2>7. \A x \in Sent' : x.try <= attempts'
    BY <2>2, <2>4, <2>5, <2>6
  <2>8. \A x, y \in Sent' : x.try = y.try => x = y
    <3>1. \A x \in Sent : x.try # a.try
      BY <2>2, <2>5, <2>6
    <3> QED BY <2>4, <3>1 DEF SentInv
  <2>9. \A d \in Clients : request'[d] = IF d = c THEN a ELSE request[d]
    BY <2>4 DEF TypeOK
  <2> QED BY <2>2, <2>3, <2>4, <2>7, <2>8, <2>9 DEF SentInv
<1>2. ASSUME Sent' = Sent, attempts' = attempts,
             \A c \in Clients : request'[c] \in {None, request[c]}
      PROVE  SentInv'
  BY <1>2 DEF SentInv
<1>3. ASSUME NEW a \in inflight, Commit(a) PROVE SentInv'
  BY <1>2, <1>3, SentByCommit DEF Commit
<1>4. CASE UNCHANGED <<attempts, request, inflight, log>>
  BY <1>2, <1>4 DEF Sent
<1>5. ASSUME NEW r \in Replicas, ApplyNext(r) PROVE SentInv'
  <2>1. UNCHANGED <<attempts, inflight, log>> /\ \A c \in Clients : request'[c] \in {None, request[c]}
    BY <1>5 DEF ApplyNext
  <2> QED BY <1>2, <2>1 DEF Sent
<1> QED BY <1>1, <1>3, <1>4, <1>5
     DEF Next, vars, StepDown, TakeSnapshot, Restart, InstallSnapshot

\* Answers are their callers' own as long as numbers rise.
RisingInv == StoreInv /\ SentInv /\ AnswerIsOwn

LEMMA OwnStays ==
    ASSUME TypeOK, NEW a \in Attempts, log' = Append(log, a), NEW t \in told, OwnAnswer(t)
    PROVE  OwnAnswer(t)'
<1>1. log \in Seq(Attempts) /\ Len(log) \in Nat /\ t.index \in 1..Len(log)
  BY LogCommands DEF TypeOK
<1>2. PICK i \in 1..t.index : /\ log[i].cmd.tag = t.cmd.tag /\ TakesEffect(log, i)
                              /\ t.res = ResultAt(log, i)
  BY DEF OwnAnswer
<1>3. i \in 1..Len(log)
  BY <1>1
<1>4. log'[i] = log[i] /\ TakesEffect(log', i) /\ ResultAt(log', i) = ResultAt(log, i)
  BY <1>1, <1>2, <1>3, EffectStays, ResultStays
<1> QED BY <1>2, <1>4 DEF OwnAnswer

LEMMA RisingStep ==
    ASSUME ~LateSnapshots
    PROVE  RisingInv /\ Rising /\ [Next]_vars => RisingInv'
<1> SUFFICES ASSUME RisingInv, Rising, [Next]_vars PROVE AnswerIsOwn'
  BY StoreStep, SentStep DEF RisingInv, StoreInv, Inv
<1>0. TypeOK /\ AnswerIsOwn /\ SentInv /\ StoreInv
  BY DEF RisingInv, StoreInv, Inv
<1>1. CASE UNCHANGED <<log, told>>
  BY <1>0, <1>1 DEF AnswerIsOwn, OwnAnswer
<1>2. ASSUME NEW a \in inflight, Commit(a)
      PROVE  AnswerIsOwn'
  <2>1. log' = Append(log, a) /\ a \in Attempts /\ told' = told
    BY <1>0, <1>2 DEF Commit, TypeOK
  <2>2. \A t \in told : OwnAnswer(t)'
    BY <1>0, <2>1, OwnStays DEF AnswerIsOwn
  <2> QED BY <2>1, <2>2 DEF AnswerIsOwn
<1>3. ASSUME NEW r \in Replicas, ApplyNext(r)
      PROVE  AnswerIsOwn'
  <2>1. log' = log /\ \A t \in told : OwnAnswer(t)
    BY <1>0, <1>3, ToldBy DEF AnswerIsOwn
  <2>2. ASSUME NEW t, TrueAnswer(log, t), NEW c \in Clients, request[c] # None,
               request[c].try = log[t.index].try
        PROVE  OwnAnswer(t)
    <3>1. /\ t.index \in 1..Len(log) /\ log[t.index].cmd = t.cmd /\ Len(log) \in Nat
      BY <1>0, <2>2, LogCommands DEF TrueAnswer, TypeOK
    <3>2. PICK j \in 1..t.index :
             /\ TakesEffect(log, j) /\ t.res = ResultAt(log, j)
             /\ \/ j = t.index
                \/ /\ t.cmd.id # Anonymous /\ log[j].cmd.id = t.cmd.id
                   /\ log[j].cmd.seq >= t.cmd.seq
      BY <2>2 DEF TrueAnswer
    <3>3. j \in 1..Len(log)
      BY <3>1
    <3>4. log[t.index] \in Sent /\ log[j] \in Sent /\ log[j].cmd \in AskedFor
      BY <3>1, <3>3 DEF Sent, AskedFor
    <3>5. request[c] = log[t.index] /\ t.cmd.id = IdOf[c]
      BY <1>0, <2>2, <3>1, <3>4 DEF SentInv
    <3>6. log[j].cmd.tag = t.cmd.tag
      <4>1. CASE j = t.index
        BY <3>1, <4>1
      <4>2. CASE j # t.index
        <5>1. log[j].cmd.tag # t.cmd.tag => log[j].cmd.seq < t.cmd.seq
          BY <2>2, <3>1, <3>2, <3>4, <3>5, <4>2 DEF RisingInv, Rising
        <5>2. log[j].cmd.seq \in Nat /\ t.cmd.seq \in Nat
          BY <1>0, <3>1, <3>3, LogCommands DEF TypeOK
        <5> QED BY <3>2, <4>2, <5>1, <5>2
      <4> QED BY <4>1, <4>2
    <3> QED BY <3>2, <3>6 DEF OwnAnswer
  <2>3. \A t \in told' : OwnAnswer(t)
    BY <1>0, <1>3, <2>1, <2>2, ToldBy
  <2> QED BY <2>1, <2>3 DEF AnswerIsOwn, OwnAnswer
<1> QED BY <1>1, <1>2, <1>3
     DEF Next, vars, NewRequest, Retry, Send, StepDown, TakeSnapshot, Restart, InstallSnapshot

\* Success means that the caller's own command took effect, and the result is the one of
\* that command, for callers that make their numbers rise (handlePutKV, Sessions.Check and
\* Store), whatever is asked again, reordered, restarted or restored.  Nothing in the code
\* makes them rise: puts that carry no number and deletes have the clock of some node.
THEOREM AnswersAreOwn ==
    ASSUME ~LateSnapshots
    PROVE  Spec /\ []Rising => []AnswerIsOwn
<1>1. Init => RisingInv
  <2>1. Init => SentInv /\ AnswerIsOwn
    BY DEF Init, SentInv, Sent, AnswerIsOwn
  <2> QED BY <2>1, StoreInit DEF RisingInv
<1>2. RisingInv /\ Rising /\ [Next]_vars => RisingInv'
  BY RisingStep
<1>3. RisingInv => AnswerIsOwn
  BY DEF RisingInv
<1> QED BY <1>1, <1>2, <1>3, PTL DEF Spec

-----------------------------------------------------------------------------
(***************************************************************************)
(* The service is one store: a command takes effect when it is committed.  *)
(***************************************************************************)
\* A command that takes effect writes to the store and adds to the effects; another one
\* does neither.
LEMMA EffectsGrow ==
    ASSUME NEW l \in Seq(Attempts), NEW a \in Attempts
    PROVE  LET m == Append(l, a)
               n == Len(l)
           IN  /\ \A k : ValueAfter(m, n + 1, k) =
                            IF TakesEffect(m, n + 1) /\ a.cmd.key = k THEN ValueOf(a.cmd)
                            ELSE ValueAfter(l, n, k)
               /\ Effects(l) \subseteq Effects(m)
               /\ TakesEffect(m, n + 1) =>
                     Effects(m) = Effects(l) \cup
                        {[cmd |-> a.cmd,
                          res |-> [key |-> a.cmd.key, value |-> ValueOf(a.cmd),
                                   missing |-> a.cmd.op = "delete"
                                               /\ ValueAfter(l, n, a.cmd.key) = 0]]}
               /\ ~TakesEffect(m, n + 1) => Effects(m) = Effects(l)
<1> DEFINE m == Append(l, a)
           n == Len(l)
           e == [cmd |-> a.cmd, res |-> ResultAt(m, n + 1)]
<1>1. n \in Nat /\ Len(m) = n + 1 /\ m[n + 1] = a
  BY LenProperties, AppendProperties
<1>2. \A j \in 1..n : /\ m[j] = l[j] /\ (TakesEffect(m, j) <=> TakesEffect(l, j))
                      /\ ResultAt(m, j) = ResultAt(l, j)
  BY EffectStays, ResultStays
<1>3. \A k : ValueAfter(m, n, k) = ValueAfter(l, n, k)
  BY <1>1, ValueStays
<1> HIDE DEF m, n
<1>4. ASSUME NEW k
      PROVE  ValueAfter(m, n + 1, k) = IF TakesEffect(m, n + 1) /\ a.cmd.key = k THEN ValueOf(a.cmd)
                                       ELSE ValueAfter(l, n, k)
  <2>1. IsValueAfter(m, n, k, ValueAfter(l, n, k))
    BY <1>1, <1>3, ValueExists
  <2>2. IF TakesEffect(m, n + 1) /\ a.cmd.key = k
        THEN IsValueAfter(m, n + 1, k, ValueOf(a.cmd))
        ELSE IsValueAfter(m, n + 1, k, ValueAfter(l, n, k))
    BY <1>1, <2>1, NextValue
  <2>3. n + 1 \in Nat
    BY <1>1
  <2>4. \A v : IsValueAfter(m, n + 1, k, v) => v = ValueAfter(m, n + 1, k)
    BY <2>3, ValueIsUnique
  <2> QED BY <2>2, <2>4
<1>5. ResultAt(m, n + 1) = [key |-> a.cmd.key, value |-> ValueOf(a.cmd),
                            missing |-> a.cmd.op = "delete" /\ ValueAfter(l, n, a.cmd.key) = 0]
  <2>1. (n + 1) - 1 = n
    BY <1>1
  <2> QED BY <1>1, <1>3, <2>1 DEF ResultAt
<1>6. \A j : j \in 1..Len(m) <=> j \in 1..n \/ j = n + 1
  BY <1>1
<1>7. ASSUME NEW x
      PROVE  x \in Effects(m) <=> x \in Effects(l) \/ (TakesEffect(m, n + 1) /\ x = e)
  <2>1. x \in Effects(m) <=> \E j \in 1..Len(m) :
                                TakesEffect(m, j) /\ x = [cmd |-> m[j].cmd, res |-> ResultAt(m, j)]
    BY DEF Effects
  <2>2. x \in Effects(l) <=> \E j \in 1..n :
                                TakesEffect(l, j) /\ x = [cmd |-> l[j].cmd, res |-> ResultAt(l, j)]
    BY DEF Effects, n
  <2> QED BY <1>1, <1>2, <1>6, <2>1, <2>2
<1> HIDE DEF e
<1>8. /\ Effects(l) \subseteq Effects(m)
      /\ TakesEffect(m, n + 1) => Effects(m) = Effects(l) \cup {e}
      /\ ~TakesEffect(m, n + 1) => Effects(m) = Effects(l)
  BY <1>7
<1> QED BY <1>4, <1>5, <1>8 DEF m, n, e

\* A commit asks for nothing, and is the moment a command takes effect.
LEMMA CommitIsEffect ==
    ASSUME StoreInv, NEW a \in inflight, Commit(a)
    PROVE  [Store!Next]_(Store!vars)
<1> DEFINE n   == Len(log)
           cmd == a.cmd
<1>1. log \in Seq(Attempts) /\ a \in Attempts /\ log' = Append(log, a) /\ Answers' = Answers
  BY DEF StoreInv, Inv, TypeOK, Commit, Answers
<1>2. /\ n \in Nat /\ Len(log') = n + 1 /\ log'[n + 1] = a
      /\ \A j \in 1..n : log'[j] = log[j]
  BY <1>1, LenProperties, AppendProperties
<1>3. cmd \in Commands /\ cmd.key \in Keys /\ cmd.seq \in Nat
  BY <1>1, KVAssumption DEF Attempts, Commands
<1>4. AskedFor' = AskedFor /\ cmd \in AskedFor
  BY SentByCommit DEF AskedFor, Sent, StoreInv, Inv
<1>5. /\ \A k : ValueAfter(log', n + 1, k) =
                   IF TakesEffect(log', n + 1) /\ cmd.key = k THEN ValueOf(cmd)
                   ELSE ValueAfter(log, n, k)
      /\ TakesEffect(log', n + 1) =>
            Effects(log') = Effects(log) \cup
               {[cmd |-> cmd,
                 res |-> [key |-> cmd.key, value |-> ValueOf(cmd),
                          missing |-> cmd.op = "delete" /\ ValueAfter(log, n, cmd.key) = 0]]}
      /\ ~TakesEffect(log', n + 1) => Effects(log') = Effects(log)
  BY <1>1, EffectsGrow
<1> HIDE DEF cmd
<1>6. CASE ~TakesEffect(log', n + 1)
  <2>1. StoreNow' = StoreNow /\ Effects(log') = Effects(log)
    BY <1>2, <1>5, <1>6 DEF StoreNow
  <2> QED BY <1>1, <1>4, <2>1 DEF Store!vars
<1>7. CASE TakesEffect(log', n + 1)
  <2>1. StoreNow' = [StoreNow EXCEPT ![cmd.key] = ValueOf(cmd)]
    BY <1>2, <1>5, <1>7 DEF StoreNow
  <2>2. StoreNow[cmd.key] = ValueAfter(log, n, cmd.key)
    BY <1>3 DEF StoreNow
  <2>3. ASSUME cmd.id # Anonymous, NEW e \in Effects(log), e.cmd.id = cmd.id
        PROVE  ~(e.cmd.seq >= cmd.seq)
    <3>1. PICK j \in 1..n : e = [cmd |-> log[j].cmd, res |-> ResultAt(log, j)]
      BY DEF Effects
    <3>2. e.cmd = log'[j].cmd /\ log[j].cmd.seq \in Nat /\ e.cmd = log[j].cmd
      BY <1>1, <1>2, <3>1, LogCommands
    <3>3. \A x \in 1..(n + 1) - 1 : log'[x].cmd.id = cmd.id => log'[x].cmd.seq < cmd.seq
      BY <1>2, <1>7, <2>3 DEF TakesEffect, cmd
    <3>4. e.cmd.seq < cmd.seq
      BY <1>2, <2>3, <3>2, <3>3
    <3> QED BY <1>3, <3>2, <3>4
  <2>4. \A e \in Effects(log) : ~Store!Overtakes(e.cmd, cmd)
    BY <2>3 DEF Store!Overtakes
  <2>5. Store!Value(cmd) = ValueOf(cmd)
    BY DEF Store!Value, ValueOf
  <2>6. Store!TakeEffect(cmd)
    BY <1>1, <1>4, <1>5, <1>7, <2>1, <2>2, <2>4, <2>5 DEF Store!TakeEffect
  <2> QED BY <1>4, <2>6 DEF Store!Next
<1> QED BY <1>6, <1>7

\* A true answer is one that the store may give.
LEMMA TrueIsAnswer ==
    ASSUME TypeOK, NEW t, TrueAnswer(log, t)
    PROVE  /\ t.cmd \in AskedFor
           /\ \E e \in Effects(log) : /\ t.res = e.res
                                      /\ e.cmd = t.cmd \/ Store!Overtakes(e.cmd, t.cmd)
<1>1. t.index \in 1..Len(log) /\ Len(log) \in Nat /\ log[t.index].cmd = t.cmd
  BY LogCommands DEF TrueAnswer, TypeOK
<1>2. t.cmd \in AskedFor
  BY <1>1 DEF AskedFor, Sent
<1>3. PICK j \in 1..t.index :
         /\ TakesEffect(log, j) /\ t.res = ResultAt(log, j)
         /\ \/ j = t.index
            \/ t.cmd.id # Anonymous /\ log[j].cmd.id = t.cmd.id /\ log[j].cmd.seq >= t.cmd.seq
  BY DEF TrueAnswer
<1> DEFINE e == [cmd |-> log[j].cmd, res |-> ResultAt(log, j)]
<1>4. j \in 1..Len(log)
  BY <1>1
<1>5. e \in Effects(log) /\ e.cmd = log[j].cmd /\ e.res = ResultAt(log, j)
  BY <1>3, <1>4 DEF Effects
<1> HIDE DEF e
<1> QED BY <1>1, <1>2, <1>3, <1>5 DEF Store!Overtakes

\* What the callers of the service see is one store, whatever numbers their commands have:
\* every command takes effect at one moment between its request and its answer, a numbered
\* one at most once and not behind one of its client with a larger number, whatever is
\* retried, reordered, restarted or restored; and what a caller is told is what its command
\* met at that moment, or what the one met that overtook it (handlePutKV, handleDeleteKV,
\* KV.Apply, Sessions).
THEOREM ServiceIsAtomicStore ==
    ASSUME ~LateSnapshots
    PROVE  Spec => ImplementsAtomicStore
<1>1. Init => Store!Init
  <2> SUFFICES ASSUME Init PROVE Store!Init
    OBVIOUS
  <2>1. log = <<>> /\ Len(log) = 0 /\ inflight = {} /\ told = {}
    BY DEF Init
  <2>2. StoreNow = [k \in Keys |-> 0]
    <3>1. \A k : Writes(log, 0, k) = {}
      BY DEF Writes
    <3> QED BY <2>1, <3>1 DEF StoreNow, ValueAfter
  <2>3. AskedFor = {} /\ Effects(log) = {} /\ Answers = {}
    BY <2>1 DEF AskedFor, Sent, Effects, Answers
  <2> QED BY <2>2, <2>3 DEF Store!Init
<1>2. StoreInv /\ [Next]_vars => [Store!Next]_(Store!vars)
  <2> SUFFICES ASSUME StoreInv, [Next]_vars PROVE [Store!Next]_(Store!vars)
    OBVIOUS
  <2>1. ASSUME UNCHANGED <<log, inflight, told>>
        PROVE  UNCHANGED Store!vars
    BY <2>1 DEF Store!vars, StoreNow, AskedFor, Sent, Effects, Answers
  <2>2. ASSUME NEW c \in Clients, NEW r \in Replicas, NewRequest(c, r) \/ Retry(c, r)
        PROVE  [Store!Next]_(Store!vars)
    <3>1. PICK cmd : /\ Sent' = Sent \cup {[cmd |-> cmd, try |-> attempts + 1]}
                    /\ UNCHANGED <<log, told>>
      BY <2>2, SentBySend
    <3> DEFINE a == [cmd |-> cmd, try |-> attempts + 1]
    <3>2. AskedFor' = AskedFor \cup {cmd}
      <4>1. a.cmd = cmd /\ Sent' = Sent \cup {a}
        BY <3>1
      <4> HIDE DEF a
      <4> QED BY <4>1 DEF AskedFor
    <3> HIDE DEF a
    <3>3. StoreNow' = StoreNow /\ Effects(log') = Effects(log) /\ Answers' = Answers
      BY <3>1 DEF StoreNow, Answers
    <3>4. CASE cmd \in AskedFor
      BY <3>2, <3>3, <3>4 DEF Store!vars
    <3>5. CASE cmd \notin AskedFor
      BY <3>2, <3>3, <3>5 DEF Store!Next, Store!Ask
    <3> QED BY <3>4, <3>5
  <2>3. ASSUME NEW a \in inflight, Commit(a)
        PROVE  [Store!Next]_(Store!vars)
    BY <2>3, CommitIsEffect
  <2>4. ASSUME NEW r \in Replicas, ApplyNext(r)
        PROVE  [Store!Next]_(Store!vars)
    <3>1. /\ UNCHANGED <<log, inflight>>
          /\ told' = told \/ \E t : told' = told \cup {t} /\ TrueAnswer(log, t)
      BY <2>4, ToldBy
    <3>2. CASE told' = told
      BY <2>1, <3>1, <3>2
    <3>3. ASSUME NEW t, told' = told \cup {t}, TrueAnswer(log, t)
          PROVE  [Store!Next]_(Store!vars)
      <4> DEFINE a == [cmd |-> t.cmd, res |-> t.res]
      <4>1. a.cmd = t.cmd /\ a.res = t.res
        OBVIOUS
      <4>2. Answers' = Answers \cup {a}
        BY <3>3 DEF Answers
      <4> HIDE DEF a
      <4>3. StoreNow' = StoreNow /\ AskedFor' = AskedFor /\ Effects(log') = Effects(log)
        BY <3>1 DEF StoreNow, AskedFor, Sent
      <4>4. CASE a \in Answers
        BY <4>2, <4>3, <4>4 DEF Store!vars
      <4>5. CASE a \notin Answers
        <5>1. /\ a.cmd \in AskedFor
              /\ \E e \in Effects(log) : /\ a.res = e.res
                                         /\ e.cmd = a.cmd \/ Store!Overtakes(e.cmd, a.cmd)
          BY <3>3, <4>1, TrueIsAnswer DEF StoreInv, Inv
        <5>2. Store!Answer(a) /\ a \in Answers' \ Answers
          BY <4>2, <4>3, <4>5, <5>1 DEF Store!Answer
        <5> QED BY <5>2 DEF Store!Next
      <4> QED BY <4>4, <4>5
    <3> QED BY <3>1, <3>2, <3>3
  <2> QED BY <2>1, <2>2, <2>3, <2>4
       DEF Next, vars, StepDown, TakeSnapshot, Restart, InstallSnapshot
<1>3. StoreInv /\ [Next]_vars => StoreInv'
  BY StoreStep
<1>4. Init => StoreInv
  BY StoreInit
<1> QED BY <1>1, <1>2, <1>3, <1>4, PTL DEF Spec, ImplementsAtomicStore, Store!Spec

=============================================================================
