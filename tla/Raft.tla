-------------------------------- MODULE Raft --------------------------------
(***************************************************************************)
(* A cluster of goraft nodes: elections, log replication, commitment,      *)
(* snapshots, membership changes, crashes and restarts, and the RPCs       *)
(* between them (backend/internal/raft).                                   *)
(*                                                                         *)
(* A node runs one handler at a time, so every handler, RPC callback and   *)
(* tick is one action.  An RPC is a request in msgs, then its reply in     *)
(* msgs, then the callback at the caller.  Messages are delayed and        *)
(* reordered freely; one that is never delivered is a lost one, a timed    *)
(* out call, or a call to a dead or partitioned node.                      *)
(***************************************************************************)
EXTENDS RaftNode

CONSTANTS
    Changes,        \* membership changes clients ask for: [add, remove]
    Campaigners,    \* bound: the nodes whose election timer may fire
    Crashers,       \* bound: the nodes that may crash or stop
    Resend,         \* TRUE: a delivered call may be delivered again
    Capacity,       \* bound: calls under way from one node to another
    MaxTerm,        \* bound: no election beyond this term
    MaxIndex,       \* bound: no proposal or change beyond this index
    MaxReads,       \* bound: the unanswered reads of a node
    MaxRestarts     \* bound on restarts, over all nodes

ASSUME BoundsAssumption ==
    /\ Changes \subseteq [add : Server \cup {None}, remove : Server \cup {None}]
    /\ Campaigners \subseteq Server /\ Crashers \subseteq Server
    /\ Resend \in BOOLEAN
    /\ Capacity \in Nat /\ MaxTerm \in Nat /\ MaxIndex \in Nat
    /\ MaxReads \in Nat /\ MaxRestarts \in Nat

ASSUME NoneAssumption == None \notin Server

VARIABLES
    hs,         \* hs[i]: HardState, the same in memory and on disk
    role,       \* role[i]: n.state
    votes,      \* votes[i]: the nodes i counts as having voted for it
    node,       \* node[i]: the rest of the node, see RaftNode
    msgs,       \* RPC requests and replies in flight
    granted,    \* history: every vote a node has written to disk
    restarts    \* restarts so far

vars == <<hs, role, votes, node, msgs, granted, restarts>>

Init ==
    /\ hs       = [i \in Server |-> [term |-> 0, votedFor |-> None, commit |-> 0]]
    /\ role     = [i \in Server |-> "follower"]
    /\ votes    = [i \in Server |-> {}]
    /\ node     = [i \in Server |-> Booted(i, EmptyLog, NoSnapshot, 0, {}, {})]
    /\ msgs     = {}
    /\ granted  = {}
    /\ restarts = 0

-----------------------------------------------------------------------------
(***************************************************************************)
(* Building blocks of the handlers.                                        *)
(***************************************************************************)

\* persistHardState of node i with a new term and vote.
Persisted(i, term, votedFor) ==
    [term |-> term, votedFor |-> votedFor, commit |-> node[i].commit]

\* Mutant: the vote is forgotten in the same term, too.
SteppedDownAlways(i, term) == Persisted(i, MaxOf(term, hs[i].term), None)

\* becomeFollower(term): only a larger term is written.
SteppedDown(i, term) ==
    IF term > hs[i].term THEN Persisted(i, term, None) ELSE hs[i]

\* Mutant: a node that steps down leaves its reads waiting.
FailPendingProposals(n) == [n EXCEPT !.waiting = {}]

\* failPending: the waiting proposals and reads are answered with an error.
FailPending(n) == [n EXCEPT !.waiting = {}, !.reads = {}]

IsReply(m) == m.type \in {"RequestVoteReply", "AppendEntriesReply", "InstallSnapshotReply"}

\* The messages of M that belong to a call of node i to node j.
Link(M, i, j) == {m \in M : IF IsReply(m) THEN m.from = j /\ m.to = i
                                          ELSE m.from = i /\ m.to = j}

\* The networks that may result from sending calls into M.  Of a link with
\* Capacity calls under way either the new call is lost, or the older ones
\* are.  The caller of InstallSnapshot notices (see InstallFails), the others
\* ignore the timeout.
Networks(M, calls) ==
    LET Crowded  == {c \in calls : Cardinality(Link(M, c.from, c.to)) >= Capacity}
        Older(c) == {m \in Link(M, c.from, c.to) :
                        m.type \notin {"InstallSnapshot", "InstallSnapshotReply"}}
    IN  {(M \ UNION {Older(c) : c \in W}) \cup (calls \ Crowded) \cup W : W \in SUBSET Crowded}

\* Mutant: the reply of an earlier campaign is counted, too.
AwaitsAnyTerm(i, term, state) == hs'[i].term >= term /\ role'[i] = state

\* The guard of the callbacks of sendVote and sendAppend: node i is still in the
\* term of its call, and still candidate (leader).  Terms only grow and a role is
\* not regained within a term: once the guard fails, it fails for good.
Awaits(i, term, state) == hs'[i].term = term /\ role'[i] = state

\* The messages that can still make a difference.  The others leave the network
\* at once: the replies nobody awaits, a denied vote of the same term, and the
\* calls of a term their receiver has left, when nobody awaits the reply.
Live(m) ==
    CASE m.type = "RequestVote"        -> m.term >= hs'[m.to].term
                                              \/ Awaits(m.from, m.term, "candidate")
      [] m.type = "AppendEntries"      -> m.term >= hs'[m.to].term
                                              \/ Awaits(m.from, m.term, "leader")
      [] m.type = "InstallSnapshot"    -> m.term >= hs'[m.to].term \/ m.open
      [] m.type = "RequestVoteReply"   -> Awaits(m.to, m.sent, "candidate")
                                              /\ (m.granted \/ m.term > m.sent)
      [] m.type = "AppendEntriesReply" -> Awaits(m.to, m.sent, "leader")
      [] m.type = "InstallSnapshotReply" -> TRUE

\* The end of a handler of node i: n is its record, the messages in done leave
\* the network, those in replies enter it, the calls it started go out.
Finish(i, n, done, replies, calls) ==
    /\ node' = [node EXCEPT ![i] = [n EXCEPT !.out = {}]]
    /\ msgs' \in Networks({m \in (msgs \ done) \cup replies : Live(m)}, calls \cup n.out)

\* Mutant: the term is taken over, the role is kept.
BecomeFollowerInTerm(i, term) ==
    /\ hs' = [hs EXCEPT ![i] = SteppedDown(i, term)]
    /\ UNCHANGED <<role, votes>>

BecomeFollower(i, term) ==
    /\ hs'    = [hs EXCEPT ![i] = SteppedDown(i, term)]
    /\ role'  = [role EXCEPT ![i] = "follower"]
    /\ votes' = [votes EXCEPT ![i] = {}]

\* What leaves the network when the request m is delivered: nothing if a call
\* with the same content may be under way.
Delivered(m) == IF Resend THEN {} ELSE {m}

-----------------------------------------------------------------------------
(***************************************************************************)
(* Elections.                                                              *)
(***************************************************************************)

\* becomeLeader after a vote count that reached the quorum.
Elected(n, i, term) == Accept(ResetProgress(n, i), i, term, "noop", None)

VoteCalls(i, term) ==
    {[type |-> "RequestVote", from |-> i, to |-> j, term |-> term,
      lastIndex |-> LastIndex(node[i].log), lastTerm |-> LastTerm(node[i].log)] :
        j \in node[i].conf.voters \ {i}}

\* tick of a voter whose election timeout has passed: campaign.
Campaign(i) ==
    LET term == hs[i].term + 1
        wins == 1 >= Quorum(node[i].conf)
    IN  /\ role[i] # "leader"
        /\ i \in Campaigners /\ term <= MaxTerm
        /\ i \in node[i].conf.voters
        /\ hs'      = [hs EXCEPT ![i] = Persisted(i, term, i)]
        /\ granted' = granted \cup {[voter |-> i, term |-> term, candidate |-> i]}
        /\ votes'   = [votes EXCEPT ![i] = {i}]
        /\ role'    = [role EXCEPT ![i] = IF wins THEN "leader" ELSE "candidate"]
        /\ Finish(i, Housekeeping(IF wins THEN Elected(node[i], i, term) ELSE node[i]),
                  {}, {}, IF wins THEN {} ELSE VoteCalls(i, term))
        /\ UNCHANGED restarts

\* Mutant: the candidate's last index is not looked at.
UpToDateByTerm(log, lastIndex, lastTerm) == lastTerm >= LastTerm(log)

UpToDate(log, lastIndex, lastTerm) ==
    IF lastTerm # LastTerm(log) THEN lastTerm > LastTerm(log) ELSE lastIndex >= LastIndex(log)

VoteReply(m, term, ok) ==
    [type |-> "RequestVoteReply", from |-> m.to, to |-> m.from, term |-> term,
     granted |-> ok, sent |-> m.term]

HandleRequestVote(m) ==
    LET i     == m.to
        newer == m.term > hs[i].term
        known == SteppedDown(i, m.term)
        grant == /\ m.term >= hs[i].term
                 /\ known.votedFor \in {None, m.from}
                 /\ UpToDate(node[i].log, m.lastIndex, m.lastTerm)
    IN  /\ m.type = "RequestVote"
        /\ hs'      = [hs EXCEPT ![i] = IF grant THEN Persisted(i, m.term, m.from) ELSE known]
        /\ role'    = [role EXCEPT ![i] = IF newer THEN "follower" ELSE @]
        /\ votes'   = [votes EXCEPT ![i] = IF newer THEN {} ELSE @]
        /\ granted' = IF grant
                      THEN granted \cup {[voter |-> i, term |-> m.term, candidate |-> m.from]}
                      ELSE granted
        /\ Finish(i, IF newer THEN FailPending(node[i]) ELSE node[i],
                  Delivered(m), {VoteReply(m, known.term, grant)}, {})
        /\ UNCHANGED restarts

\* The callback of sendVote, with onVoteReply.
OnVoteReply(m) ==
    LET i       == m.to
        counted == votes[i] \cup {m.from}
        wins    == Cardinality(counted) >= Quorum(node[i].conf)
    IN  /\ m.type = "RequestVoteReply"
        /\ \/ /\ m.term > hs[i].term
              /\ BecomeFollower(i, m.term)
              /\ Finish(i, FailPending(node[i]), {m}, {}, {})
           \/ /\ m.term = hs[i].term /\ m.granted
              /\ UNCHANGED hs
              /\ votes' = [votes EXCEPT ![i] = counted]
              /\ role'  = [role EXCEPT ![i] = IF wins THEN "leader" ELSE @]
              /\ Finish(i, IF wins THEN Elected(node[i], i, hs[i].term) ELSE node[i],
                        {m}, {}, {})
        /\ UNCHANGED <<granted, restarts>>

-----------------------------------------------------------------------------
(***************************************************************************)
(* Log replication.                                                        *)
(***************************************************************************)

\* tick of a leader whose heartbeat is due.
Heartbeat(i) ==
    /\ role[i] = "leader"
    /\ UNCHANGED <<hs, role, votes, granted, restarts>>
    /\ Finish(i, Housekeeping(Bcast(node[i], i, hs[i].term)), {}, {}, {})

\* Any other tick that finds something to apply or to snapshot.
IdleTick(i) ==
    /\ Housekeeping(node[i]) # node[i]
    /\ UNCHANGED <<hs, role, votes, granted, restarts>>
    /\ Finish(i, Housekeeping(node[i]), {}, {}, {})

Propose(i, v) ==
    LET n == AppendData(node[i], i, hs[i].term, "normal", v)
        w == [n EXCEPT !.waiting = @ \cup {LastIndex(n.log)}]
    IN  /\ role[i] = "leader"
        /\ LastIndex(node[i].log) < MaxIndex
        /\ UNCHANGED <<hs, role, votes, granted, restarts>>
        /\ Finish(i, Bcast(MaybeCommit(w, i, hs[i].term), i, hs[i].term), {}, {}, {})

FirstIndexOfTerm(log, t) ==
    LET X == {x \in log.snapIndex + 1 .. LastIndex(log) : Has(log, x) /\ Term(log, x) = t}
    IN  CASE t = 0            -> LastIndex(log) + 1
          [] t # 0 /\ X = {}  -> 0
          [] t # 0 /\ X # {}  -> CHOOSE x \in X : \A y \in X : x <= y

\* The search runs down from the last entry and gives up below t.
LastIndexOfTerm(log, t) ==
    LET Known == {x \in log.snapIndex + 1 .. LastIndex(log) : Has(log, x)}
        X == {x \in Known : /\ Term(log, x) = t
                            /\ \A y \in Known : y > x => Term(log, y) > t}
    IN  IF X = {} THEN 0 ELSE CHOOSE x \in X : TRUE

AppendReply(m, term, ok, match, conflictIndex, conflictTerm) ==
    [type |-> "AppendEntriesReply", from |-> m.to, to |-> m.from, term |-> term,
     success |-> ok, match |-> match, conflictIndex |-> conflictIndex,
     conflictTerm |-> conflictTerm, sent |-> m.term,
     hint |-> m.prevIndex + 1 + Len(m.ents)]

\* Mutant: the term of the entry at prevIndex is not compared.
ConflictsByIndex(log, m) == m.prevIndex > LastIndex(log)

\* The conflict that makes a follower reject an AppendEntries: no entry at
\* prevIndex, or one of another term.
Conflicts(log, m) ==
    \/ m.prevIndex > LastIndex(log)
    \/ m.prevIndex > 0 /\ ~(KnowsTerm(log, m.prevIndex) /\ Term(log, m.prevIndex) = m.prevTerm)

\* Mutant: a log that is too short is reported one entry too short.
RejectionBelow(log, m, term) ==
    AppendReply(m, term, FALSE, 0, LastIndex(log) - 1, Term(log, m.prevIndex))

Rejection(log, m, term) ==
    LET t     == Term(log, m.prevIndex)
        first == FirstIndexOfTerm(log, t)
    IN  IF m.prevIndex > LastIndex(log)
        THEN AppendReply(m, term, FALSE, 0, LastIndex(log) + 1, 0)
        ELSE AppendReply(m, term, FALSE, 0, IF first = 0 THEN m.prevIndex ELSE first, t)

HandleAppendEntries(m) ==
    LET i == m.to
        stepsDown == m.term > hs[i].term \/ role[i] # "follower"
        n     == IF stepsDown THEN FailPending(node[i]) ELSE node[i]
        taken == FollowCommit(TakeEntries(n, m.ents), m.commit)
    IN  /\ m.type = "AppendEntries"
        /\ \/ /\ m.term < hs[i].term
              /\ UNCHANGED <<hs, role, votes>>
              /\ Finish(i, node[i], Delivered(m),
                        {AppendReply(m, hs[i].term, FALSE, 0, 0, 0)}, {})
           \/ /\ m.term >= hs[i].term
              /\ IF stepsDown THEN BecomeFollower(i, m.term) ELSE UNCHANGED <<hs, role, votes>>
              /\ IF Conflicts(n.log, m)
                 THEN Finish(i, n, Delivered(m), {Rejection(n.log, m, m.term)}, {})
                 ELSE Finish(i, taken, Delivered(m),
                             {AppendReply(m, m.term, TRUE, LastIndex(taken.log), 0, 0)}, {})
        /\ UNCHANGED <<granted, restarts>>

\* Mutant: MatchIndex is set to the next index.
AcknowledgedToNext(n, i, term, m) ==
    LET j == m.from
        k == AckReads([n EXCEPT !.match[j] = m.hint, !.next[j] = m.hint], j)
        a == MaybeCommit(k, i, term)
    IN  IF m.hint <= LastIndex(a.log) THEN SendTo(a, i, term, {j}) ELSE a

\* onAppendReply, success.
Acknowledged(n, i, term, m) ==
    LET j     == m.from
        match == CASE m.match > n.match[j]                             -> m.match
                   [] m.match <= n.match[j] /\ m.hint - 1 > n.match[j] -> m.hint - 1
                   [] OTHER                                            -> n.match[j]
        k == AckReads([n EXCEPT !.match[j] = match, !.next[j] = match + 1], j)
        a == MaybeCommit(k, i, term)
        b == IF match + 1 <= LastIndex(a.log) THEN SendTo(a, i, term, {j}) ELSE a
    IN  MaybePromoteLearner(b, i, term, j)

\* onAppendReply, rejection: back up to the conflict and try again.
BackedUp(n, i, term, m) ==
    LET j    == m.from
        last == LastIndexOfTerm(n.log, m.conflictTerm)
        next == CASE m.conflictTerm # 0 /\ last > 0 -> last + 1
                  [] ~(m.conflictTerm # 0 /\ last > 0) /\ m.conflictIndex > 0 -> m.conflictIndex
                  [] OTHER -> MaxOf(NextOf(n, j) - 1, 1)
    IN  SendTo([n EXCEPT !.next[j] = next], i, term, {j})

\* The callback of sendAppend.
OnAppendReply(m) ==
    LET i == m.to
        n == IF m.success THEN Acknowledged(node[i], i, hs[i].term, m)
             ELSE BackedUp(node[i], i, hs[i].term, m)
    IN  /\ m.type = "AppendEntriesReply"
        /\ \/ /\ m.term > hs[i].term
              /\ BecomeFollower(i, m.term)
              /\ Finish(i, FailPending(node[i]), {m}, {}, {})
           \/ /\ m.term <= hs[i].term
              /\ UNCHANGED <<hs, role, votes>>
              /\ Finish(i, n, {m}, {}, {})
        /\ UNCHANGED <<granted, restarts>>

-----------------------------------------------------------------------------
(***************************************************************************)
(* Linearizable reads (readindex.go): a leader notes its commit index, asks *)
(* all members for a sign of life, and answers when a quorum has replied.  *)
(***************************************************************************)
Promised == UNION {node[i].acked : i \in Server}

LinearizableRead(i) ==
    LET n == node[i]
        r == Read(i, n.commit, hs[i].term, Promised)
    IN  /\ role[i] = "leader"
        /\ CurrentTermCommitted(n, hs[i].term)
        /\ Cardinality(n.reads) < MaxReads
        /\ UNCHANGED <<hs, role, votes, granted, restarts>>
        /\ Finish(i, TryFinishReads(Bcast([n EXCEPT !.reads = @ \cup {r}], i, hs[i].term)),
                  {}, {}, {})

-----------------------------------------------------------------------------
(***************************************************************************)
(* Snapshots sent to a node that is behind the leader's log.               *)
(***************************************************************************)

InstallReply(m, term) ==
    [type |-> "InstallSnapshotReply", from |-> m.to, to |-> m.from, term |-> term,
     sent |-> m.term, index |-> m.snap.index]

\* A role other than follower survives a snapshot of the same term.
HandleInstallSnapshot(m) ==
    LET i     == m.to
        newer == m.term > hs[i].term
        n     == IF newer THEN FailPending(node[i]) ELSE node[i]
    IN  /\ m.type = "InstallSnapshot"
        /\ IF newer THEN BecomeFollower(i, m.term) ELSE UNCHANGED <<hs, role, votes>>
        /\ Finish(i, IF m.term < hs[i].term THEN n ELSE Install(n, m.snap, m.conf),
                  Delivered(m), IF m.open THEN {InstallReply(m, hs[i].term)} ELSE {}, {})
        /\ UNCHANGED <<granted, restarts>>

\* The callbacks of sendSnapshot.  Neither looks at the role or the term the
\* node has by now, and the second one calls sendAppend.
OnInstallReply(m) ==
    LET i == m.to
        j == m.from
        n == [node[i] EXCEPT !.installing[j] = FALSE, !.match[j] = m.index,
                             !.next[j] = m.index + 1]
    IN  /\ m.type = "InstallSnapshotReply"
        /\ \/ /\ m.term > m.sent
              /\ BecomeFollower(i, m.term)
              /\ Finish(i, FailPending(node[i]), {m}, {}, {})
           \/ /\ m.term <= m.sent
              /\ UNCHANGED <<hs, role, votes>>
              /\ Finish(i, SendTo(n, i, hs[i].term, {j}), {m}, {}, {})
        /\ UNCHANGED <<granted, restarts>>

\* An InstallSnapshot call that times out at its caller, before or after it is
\* delivered; the request itself may still arrive.
InstallFails(m) ==
    LET called == m.type = "InstallSnapshot" /\ m.open
        i == IF called THEN m.from ELSE m.to
        j == IF called THEN m.to ELSE m.from
    IN  /\ called \/ m.type = "InstallSnapshotReply"
        /\ UNCHANGED <<hs, role, votes, granted, restarts>>
        /\ Finish(i, [node[i] EXCEPT !.installing[j] = FALSE,
                                     !.next[j] = NextOf(node[i], j)],
                  {m}, IF called THEN {[m EXCEPT !.open = FALSE]} ELSE {}, {})

-----------------------------------------------------------------------------
(***************************************************************************)
(* Membership changes asked for by clients.  The API adds learners only.   *)
(***************************************************************************)
Changed(conf, c) ==
    [voters   |-> conf.voters \ {c.remove},
     learners |-> (conf.learners \cup ({c.add} \ {None})) \ {c.remove}]

ChangeMembership(i, c) ==
    LET next == Changed(node[i].conf, c)
    IN  /\ role[i] = "leader"
        /\ node[i].pending <= node[i].commit
        /\ c.add \notin Members(node[i].conf)
        /\ next.voters # {}
        /\ LastIndex(node[i].log) < MaxIndex
        /\ UNCHANGED <<hs, role, votes, granted, restarts>>
        /\ Finish(i, Accept(node[i], i, hs[i].term, "config", next), {}, {}, {})

-----------------------------------------------------------------------------
(***************************************************************************)
(* Crashes.  A node comes back with what it had persisted: it replays its  *)
(* WAL, loads its newest snapshot, and its hard state's commit index is    *)
(* raised to that snapshot.                                                *)
(***************************************************************************)
\* Mutant: a restarted node has forgotten its vote.
RebootForgetsVote(i, hard, wal, snap) ==
    LET c == MaxOf(hard.commit, snap.index)
    IN  /\ restarts < MaxRestarts /\ i \in Crashers
        /\ restarts' = restarts + 1
        /\ hs'    = [hs EXCEPT ![i] = [term |-> hard.term, votedFor |-> None, commit |-> c]]
        /\ role'  = [role EXCEPT ![i] = "follower"]
        /\ votes' = [votes EXCEPT ![i] = {}]
        /\ node'  = [node EXCEPT ![i] = Booted(i, wal, snap, c, node[i].acked, node[i].missed)]
        /\ UNCHANGED granted

Reboot(i, hard, wal, snap) ==
    LET c == MaxOf(hard.commit, snap.index)
    IN  /\ restarts < MaxRestarts /\ i \in Crashers
        /\ restarts' = restarts + 1
        /\ hs'    = [hs EXCEPT ![i] = [hard EXCEPT !.commit = c]]
        /\ role'  = [role EXCEPT ![i] = "follower"]
        /\ votes' = [votes EXCEPT ![i] = {}]
        /\ node'  = [node EXCEPT ![i] = Booted(i, wal, snap, c, node[i].acked, node[i].missed)]
        /\ UNCHANGED granted

\* Nobody waits for the replies to the calls of a dead process; the calls
\* themselves may still arrive.
Orphaned(M, i) ==
    {IF m.type = "InstallSnapshot" /\ m.from = i THEN [m EXCEPT !.open = FALSE] ELSE m :
        m \in {x \in M : ~(IsReply(x) /\ x.to = i)}}

Restart(i) ==
    /\ Reboot(i, hs[i], node[i].wal, node[i].snap)
    /\ msgs' = Orphaned(msgs, i)

\* The process dies while it handles the request m: only a prefix of what the
\* handler writes is on disk, and there is no reply.  (Handlers that write only
\* once, and those whose last write is on disk, leave what Restart leaves.)
CrashInHandler(m) ==
    LET i     == m.to
        n     == node[i]
        known == SteppedDown(i, m.term)
    IN  /\ ~IsReply(m) /\ m.term >= hs[i].term
        /\ \/ Reboot(i, known, n.wal, n.snap)
           \/ /\ m.type = "AppendEntries" /\ ~Conflicts(n.log, m)
              /\ \E k \in 1..Len(m.ents) :
                    Reboot(i, known, TakeEntries(n, SubSeq(m.ents, 1, k)).wal, n.snap)
        /\ msgs' = Orphaned(msgs \ Delivered(m), i)

ZeroReply(m) ==
    CASE m.type = "RequestVote"                -> {VoteReply(m, 0, FALSE)}
      [] m.type = "AppendEntries"              -> {AppendReply(m, 0, FALSE, 0, 0, 0)}
      [] m.type = "InstallSnapshot" /\ m.open  -> {InstallReply(m, 0)}
      [] m.type = "InstallSnapshot" /\ ~m.open -> {}

\* Node.Stop overtakes the request m: do returns without running the handler,
\* and the caller gets the zero value of the reply.
StopWhileServing(m) ==
    LET i == m.to
    IN  /\ ~IsReply(m)
        /\ Reboot(i, hs[i], node[i].wal, node[i].snap)
        /\ msgs' = Orphaned(msgs \ Delivered(m), i) \cup {r \in ZeroReply(m) : Live(r)}

-----------------------------------------------------------------------------
Next ==
    \/ \E i \in Server :
          \/ Campaign(i)
          \/ Heartbeat(i)
          \/ IdleTick(i)
          \/ Restart(i)
          \/ LinearizableRead(i)
          \/ \E v \in Value : Propose(i, v)
          \/ \E c \in Changes : ChangeMembership(i, c)
    \/ \E m \in msgs :
          \/ HandleRequestVote(m)
          \/ OnVoteReply(m)
          \/ HandleAppendEntries(m)
          \/ OnAppendReply(m)
          \/ HandleInstallSnapshot(m)
          \/ OnInstallReply(m)
          \/ InstallFails(m)
          \/ CrashInHandler(m)
          \/ StopWhileServing(m)

Spec == Init /\ [][Next]_vars
=============================================================================
