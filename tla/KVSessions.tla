----------------------------- MODULE KVSessions -----------------------------
(***************************************************************************)
(* The replicated key-value state machine, backend/internal/statemachine,  *)
(* with the HTTP handlers that feed it (api/kv.go): commands are retried   *)
(* when no answer comes, and applied by every replica in the order of the  *)
(* committed log; sessions keep a command from taking effect twice.        *)
(*                                                                         *)
(* A command's number is any number its caller likes (a put that has one)  *)
(* or the clock of the node that serves it (a put that has none, every     *)
(* delete).  These have nothing to do with each other, and clocks of two   *)
(* nodes have not: here every number may be any.                           *)
(*                                                                         *)
(* Raft is the sequence of committed entries: that replicas apply one      *)
(* sequence is StateMachineSafety of module RaftProperties.                *)
(***************************************************************************)
EXTENDS Integers, Sequences, FiniteSets

CONSTANTS
    Clients,        \* callers of the HTTP API, each with one request at a time
    Ids,            \* the values of client_id
    Anonymous,      \* the empty client_id
    IdOf,           \* the client_id a caller sends
    OpsOf,          \* what a caller asks for: puts, deletes or both
    Replicas,
    Keys,
    None,
    LateSnapshots,  \* TRUE: a snapshot may arrive at a replica that is past it
    MaxAttempts,    \* bound on the requests sent, retries included
    MaxNumber,      \* bound on the numbers of commands
    MaxRestarts     \* bound on the restarts of replicas

ASSUME KVAssumption ==
    /\ Anonymous \in Ids /\ IdOf \in [Clients -> Ids]
    /\ OpsOf \in [Clients -> SUBSET {"put", "delete"}]
    /\ LateSnapshots \in BOOLEAN
    /\ MaxAttempts \in Nat /\ MaxRestarts \in Nat
    /\ MaxNumber \in Nat \ {0}

VARIABLES
    attempts,   \* requests sent so far
    request,    \* per client: the attempt it is waiting for, or None
    inflight,   \* the requests in the hands of raft: [cmd, try]
    log,        \* the requests that were committed
    proposals,  \* per replica: the callers whose handler waits there
    applied,    \* per replica: n.lastApplied
    machine,    \* per replica: the KV
    snapshot,   \* per replica: snaps.Latest()
    told,       \* history: [index, cmd, res], what was answered
    restarts

vars == <<attempts, request, inflight, log, proposals, applied, machine, snapshot,
          told, restarts>>

NoResult == [key |-> None, value |-> 0, missing |-> FALSE]

\* NewKV: no value (0) at any key, and no session (number 0).
NewKV == [data |-> [k \in Keys |-> 0],
          sess |-> [i \in Ids |-> [seq |-> 0, res |-> NoResult]]]

Init ==
    /\ attempts  = 0
    /\ request   = [c \in Clients |-> None]
    /\ inflight  = {}
    /\ log       = <<>>
    /\ proposals = [r \in Replicas |-> {}]
    /\ applied   = [r \in Replicas |-> 0]
    /\ machine   = [r \in Replicas |-> NewKV]
    /\ snapshot  = [r \in Replicas |-> [index |-> 0, kv |-> NewKV]]
    /\ told      = {}
    /\ restarts  = 0

-----------------------------------------------------------------------------
(***************************************************************************)
(* Sessions and KV.Apply.  A command is [id, seq, op, key, tag]; the tag   *)
(* tells what one caller asked for from all else that is asked for, and is *)
(* the value that a put writes.                                            *)
(***************************************************************************)
ValueOf(cmd) == IF cmd.op = "put" THEN cmd.tag ELSE 0

\* Mutant: a command with the number of the last one is taken for a new one.
HitOlder(kv, cmd) == cmd.id # Anonymous /\ cmd.seq < kv.sess[cmd.id].seq

\* Mutant: the next number is taken for a duplicate, too.
HitNext(kv, cmd) == cmd.id # Anonymous /\ cmd.seq <= kv.sess[cmd.id].seq + 1

\* Sessions.Check
Hit(kv, cmd) == cmd.id # Anonymous /\ cmd.seq <= kv.sess[cmd.id].seq

\* What Apply answers.
Result(kv, cmd) ==
    IF Hit(kv, cmd) THEN kv.sess[cmd.id].res
    ELSE [key |-> cmd.key, value |-> ValueOf(cmd),
          missing |-> cmd.op = "delete" /\ kv.data[cmd.key] = 0]

\* What Apply does.
Apply(kv, cmd) ==
    IF Hit(kv, cmd) THEN kv
    ELSE [data |-> [kv.data EXCEPT ![cmd.key] = ValueOf(cmd)],
          sess |-> IF cmd.id = Anonymous THEN kv.sess
                   ELSE [kv.sess EXCEPT ![cmd.id] =
                            [seq |-> cmd.seq, res |-> Result(kv, cmd)]]]

-----------------------------------------------------------------------------
(***************************************************************************)
(* The handlers of PUT and DELETE, and their callers.                      *)
(***************************************************************************)
\* handlePutKV, handleDeleteKV and Propose at replica r, which leads.  The caller
\* listens no more to the handler of its last request, if one still waits.
Send(c, r, cmd) ==
    LET a == [cmd |-> cmd, try |-> attempts + 1]
    IN  /\ attempts < MaxAttempts
        /\ attempts'  = attempts + 1
        /\ request'   = [request EXCEPT ![c] = a]
        /\ inflight'  = inflight \cup {a}
        /\ proposals' = [x \in Replicas |-> IF x = r THEN proposals[x] \cup {c}
                                            ELSE proposals[x] \ {c}]
        /\ UNCHANGED <<log, applied, machine, snapshot, told, restarts>>

\* The numbers a command may have.  Nothing looks at the one of an anonymous command.
Numbers(id) == IF id = Anonymous THEN {1} ELSE 1..MaxNumber

\* A caller asks for something new, whatever became of its last request.
NewRequest(c, r) ==
    \E op \in OpsOf[c], k \in Keys, seq \in Numbers(IdOf[c]) :
       Send(c, r, [id |-> IdOf[c], seq |-> seq, op |-> op, key |-> k, tag |-> attempts + 1])

\* It got no answer and asks again: with the number it chose before, or with one that
\* the node it asks now reads from its clock.
Retry(c, r) ==
    /\ request[c] # None
    /\ \E seq \in Numbers(IdOf[c]) : Send(c, r, [request[c].cmd EXCEPT !.seq = seq])

\* The term of the leader ends: its handlers answer with an error.
StepDown(r) ==
    /\ proposals[r] # {}
    /\ proposals' = [proposals EXCEPT ![r] = {}]
    /\ UNCHANGED <<attempts, request, inflight, log, applied, machine,
                   snapshot, told, restarts>>

\* Raft commits a request, at any time, or never.  Requests change their order
\* before: a number is given out before the node's loop sees the command.
Commit(a) ==
    /\ inflight' = inflight \ {a}
    /\ log' = Append(log, a)
    /\ UNCHANGED <<attempts, request, proposals, applied, machine,
                   snapshot, told, restarts>>

-----------------------------------------------------------------------------
(***************************************************************************)
(* Replicas.                                                               *)
(***************************************************************************)
\* One turn of the loop of maybeApply.
ApplyNext(r) ==
    LET a   == log[applied[r] + 1]
        res == Result(machine[r], a.cmd)
        Answered == {c \in proposals[r] : request[c] # None /\ request[c].try = a.try}
    IN  /\ applied[r] < Len(log)
        /\ applied'   = [applied EXCEPT ![r] = @ + 1]
        /\ machine'   = [machine EXCEPT ![r] = Apply(@, a.cmd)]
        /\ proposals' = [proposals EXCEPT ![r] = @ \ Answered]
        /\ request'   = [c \in Clients |-> IF c \in Answered THEN None ELSE request[c]]
        /\ told'      = IF Answered = {} THEN told
                         ELSE told \cup {[index |-> applied[r] + 1, cmd |-> a.cmd, res |-> res]}
        /\ UNCHANGED <<attempts, inflight, log, snapshot, restarts>>

\* maybeSnapshot: the machine, sessions included, is saved with its index.
TakeSnapshot(r) ==
    /\ applied[r] > snapshot[r].index
    /\ snapshot' = [snapshot EXCEPT ![r] = [index |-> applied[r], kv |-> machine[r]]]
    /\ UNCHANGED <<attempts, request, inflight, log, proposals, applied,
                   machine, told, restarts>>

\* Mutant: the sessions are not restored.
RestoreData(old, kv) == [kv EXCEPT !.sess = old.sess]

\* KV.Restore
RestoreKV(old, kv) == kv

\* Store.Save then Latest: the newest snapshot is the one of the largest index.
Newest(old, new) == IF new.index >= old.index THEN new ELSE old

\* Mutant: the entry after the snapshot counts as applied.
IndexAfter(s) == s.index + 1

IndexOf(s) == s.index

\* handleInstallSnapshot at a follower r, of a snapshot of replica s.
InstallSnapshot(r, s) ==
    LET store == Newest(snapshot[r], snapshot[s])
    IN  /\ snapshot[s].index > 0 /\ r # s
        /\ LateSnapshots \/ snapshot[s].index > applied[r]
        /\ snapshot'  = [snapshot EXCEPT ![r] = store]
        /\ machine'   = [machine EXCEPT ![r] = RestoreKV(@, store.kv)]
        /\ applied'   = [applied EXCEPT ![r] = IndexOf(snapshot[s])]
        /\ proposals' = [proposals EXCEPT ![r] = {}]
        /\ UNCHANGED <<attempts, request, inflight, log, told, restarts>>

\* New: the machine starts from the newest snapshot, and the handlers are gone.
Restart(r) ==
    /\ restarts < MaxRestarts
    /\ restarts'  = restarts + 1
    /\ machine'   = [machine EXCEPT ![r] = RestoreKV(NewKV, snapshot[r].kv)]
    /\ applied'   = [applied EXCEPT ![r] = IndexOf(snapshot[r])]
    /\ proposals' = [proposals EXCEPT ![r] = {}]
    /\ UNCHANGED <<attempts, request, inflight, log, snapshot, told>>

Next ==
    \/ \E c \in Clients, r \in Replicas : NewRequest(c, r) \/ Retry(c, r)
    \/ \E a \in inflight : Commit(a)
    \/ \E r \in Replicas : StepDown(r) \/ ApplyNext(r) \/ TakeSnapshot(r) \/ Restart(r)
    \/ \E r, s \in Replicas : InstallSnapshot(r, s)

Spec == Init /\ [][Next]_vars
=============================================================================
