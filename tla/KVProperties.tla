---------------------------- MODULE KVProperties ----------------------------
(***************************************************************************)
(* What the key-value service of module KVSessions owes its callers.       *)
(***************************************************************************)
EXTENDS KVSessions

Commands == [id : Ids, seq : 1..MaxNumber, op : {"put", "delete"}, key : Keys,
             tag : 1..MaxAttempts]

Attempts == [cmd : Commands, try : 1..MaxAttempts]

Results == [key : Keys \cup {None}, value : 0..MaxAttempts, missing : BOOLEAN]

Machines == [data : [Keys -> 0..MaxAttempts],
             sess : [Ids -> [seq : 0..MaxNumber, res : Results]]]

\* Every variable keeps its type, and no replica believes it has applied what is
\* not committed.
TypeOK ==
    /\ attempts \in 0..MaxAttempts
    /\ request \in [Clients -> {None} \cup Attempts]
    /\ inflight \in SUBSET Attempts
    /\ log \in Seq(Attempts)
    /\ proposals \in [Replicas -> SUBSET Clients]
    /\ applied \in [Replicas -> 0..Len(log)]
    /\ machine \in [Replicas -> Machines]
    /\ snapshot \in [Replicas -> [index : 0..Len(log), kv : Machines]]
    /\ told \in SUBSET [index : 1..Len(log), cmd : Commands, res : Results]
    /\ restarts \in 0..MaxRestarts

\* The command at i of log l takes effect unless one of the same client is before
\* it with the same number, or a later one.
TakesEffect(l, i) ==
    \/ l[i].cmd.id = Anonymous
    \/ \A j \in 1..i - 1 : l[j].cmd.id = l[i].cmd.id => l[j].cmd.seq < l[i].cmd.seq

\* The first n commands of l that write to key k.
Writes(l, n, k) == {i \in 1..n : TakesEffect(l, i) /\ l[i].cmd.key = k}

\* The value of key k when they have taken effect.
ValueAfter(l, n, k) ==
    LET writes == Writes(l, n, k)
    IN  IF writes = {} THEN 0
        ELSE ValueOf(l[CHOOSE i \in writes : \A j \in writes : j <= i].cmd)

\* A replica's data are what the commands it has applied come to, each counted
\* once, whether it applied them one by one, came back from a snapshot of its own
\* or was given one of another replica.
EffectsOnce ==
    \A r \in Replicas, k \in Keys : machine[r].data[k] = ValueAfter(log, applied[r], k)

\* What the command at i of l answers when it takes effect.
ResultAt(l, i) ==
    [key |-> l[i].cmd.key, value |-> ValueOf(l[i].cmd),
     missing |-> l[i].cmd.op = "delete" /\ ValueAfter(l, i - 1, l[i].cmd.key) = 0]

\* s is the session of client id after the first n commands of l: the number and the
\* answer of the client's last command that took effect, which no number exceeds.
IsSessionAfter(l, n, id, s) ==
    LET own == {i \in 1..n : l[i].cmd.id = id}
    IN  \/ own = {} /\ s = [seq |-> 0, res |-> NoResult]
        \/ \E i \in own : /\ TakesEffect(l, i)
                          /\ \A j \in own : l[j].cmd.seq <= l[i].cmd.seq
                          /\ s = [seq |-> l[i].cmd.seq, res |-> ResultAt(l, i)]

\* Sessions are those of the log at the index the data are of, in machines and in
\* snapshots, whatever numbers the log holds: a session that lags lets a retry take
\* effect twice, one that leads answers a command that took no effect (Sessions.Store,
\* KV.Snapshot, KV.Restore).
SessionsOfLog ==
    \A r \in Replicas, id \in Ids \ {Anonymous} :
       /\ IsSessionAfter(log, applied[r], id, machine[r].sess[id])
       /\ IsSessionAfter(log, snapshot[r].index, id, snapshot[r].kv.sess[id])

\* The caller of answer t is told what its own request met when it took effect, in one
\* of the attempts that were made at it.
OwnAnswer(t) ==
    \E i \in 1..t.index : /\ log[i].cmd.tag = t.cmd.tag
                          /\ TakesEffect(log, i)
                          /\ t.res = ResultAt(log, i)

\* A caller that is told success has had its own command take effect, and is told
\* the result of that command and not of another (kv_test.go:24).
AnswerIsOwn == \A t \in told : OwnAnswer(t)

\* Before the command at i of l comes another request of the same client_id whose
\* number is not smaller.
Rivalled(l, i) ==
    \E j \in 1..i - 1 : /\ l[j].cmd.id = l[i].cmd.id /\ l[i].cmd.id # Anonymous
                        /\ l[j].cmd.tag # l[i].cmd.tag
                        /\ l[j].cmd.seq >= l[i].cmd.seq

\* A caller is told success for a request that was lost, or another's result, only when
\* raft committed a rival before it: retries, restarts, snapshots, and callers with other
\* client_ids never bring it about (Sessions.Check, KV.Apply, maybeApply).
UnrivalledIsOwn == \A t \in told : ~Rivalled(log, t.index) => OwnAnswer(t)

\* The requests that have reached raft, and the commands they ask for.
Sent == inflight \cup {log[i] : i \in 1..Len(log)}

AskedFor == {a.cmd : a \in Sent}

\* Whoever waits with a client_id waits for a command with a number above all others
\* that were sent under it.  Callers see to it, or nobody does.
Rising ==
    \A c \in Clients : request[c] # None /\ IdOf[c] # Anonymous =>
        \A cmd \in AskedFor :
            cmd.id = IdOf[c] /\ cmd.tag # request[c].cmd.tag => cmd.seq < request[c].cmd.seq

-----------------------------------------------------------------------------
Effects(l) ==
    {[cmd |-> l[i].cmd, res |-> ResultAt(l, i)] : i \in {j \in 1..Len(l) : TakesEffect(l, j)}}

\* The store as the committed commands leave it, and what callers were told.
StoreNow == [k \in Keys |-> ValueAfter(log, Len(log), k)]

Answers == {[cmd |-> t.cmd, res |-> t.res] : t \in told}

Store ==
    INSTANCE AtomicStore
        WITH store <- StoreNow, asked <- AskedFor, effects <- Effects(log), answers <- Answers

\* Replicas, retries, sessions and snapshots together are one store, in which a
\* command takes effect at once, when raft commits it: between the request and its
\* answer, not twice, not behind one of its client with a larger number; and the answer
\* says what it met then, or what the one met that kept it from taking effect, also when
\* it is the answer to a retry (api/kv.go, KV.Apply, Sessions).
ImplementsAtomicStore == Store!Spec
=============================================================================
