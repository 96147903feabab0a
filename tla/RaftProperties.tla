--------------------------- MODULE RaftProperties ---------------------------
(***************************************************************************)
(* What the cluster of module Raft promises.  Which of these hold depends  *)
(* on the constants: see README.md for the runs.                           *)
(***************************************************************************)
EXTENDS Raft

Entries == [index : Nat, term : Nat, type : {"normal", "noop"}, data : Value \cup {None}]
               \cup [index : Nat, term : Nat, type : {"config"}, data : Membership]

Logs == [snapIndex : Nat, snapTerm : Nat, ents : Seq(Entries)]

Snapshots == [index : Nat, term : Nat, sm : Seq(Entries)]

VoteRequests == [type : {"RequestVote"}, from : Server, to : Server, term : Nat,
                 lastIndex : Nat, lastTerm : Nat]
VoteReplies  == [type : {"RequestVoteReply"}, from : Server, to : Server, term : Nat,
                 granted : BOOLEAN, sent : Nat]
AppendCalls  == [type : {"AppendEntries"}, from : Server, to : Server, term : Nat,
                 prevIndex : Nat, prevTerm : Nat, ents : Seq(Entries), commit : Nat]
AppendReplies == [type : {"AppendEntriesReply"}, from : Server, to : Server, term : Nat,
                  success : BOOLEAN, match : Nat, conflictIndex : Nat, conflictTerm : Nat,
                  sent : Nat, hint : Nat]
SnapshotCalls == [type : {"InstallSnapshot"}, from : Server, to : Server, term : Nat,
                  snap : Snapshots, conf : Membership, open : BOOLEAN]
SnapshotReplies == [type : {"InstallSnapshotReply"}, from : Server, to : Server, term : Nat,
                    sent : Nat, index : Nat]

Calls    == VoteRequests \cup AppendCalls \cup SnapshotCalls
Messages == Calls \cup VoteReplies \cup AppendReplies \cup SnapshotReplies

Reads == [index : Nat, acks : SUBSET Server, term : Nat, known : SUBSET Entries]

Nodes == [log : Logs, wal : Logs, snap : Snapshots, commit : Nat, applied : Nat,
          sm : Seq(Entries), waiting : SUBSET Nat, acked : SUBSET Entries,
          reads : SUBSET Reads, missed : SUBSET [term : Nat, entry : Entries],
          next : [Server -> Nat], match : [Server -> Nat],
          installing : [Server -> BOOLEAN], conf : Membership, pending : Nat,
          out : SUBSET (AppendCalls \cup SnapshotCalls)]

\* Every variable keeps its type, and a node between two handlers has sent
\* all the calls its last handler started.
TypeOK ==
    /\ hs \in [Server -> [term : Nat, votedFor : Server \cup {None}, commit : Nat]]
    /\ role \in [Server -> {"follower", "candidate", "leader"}]
    /\ votes \in [Server -> SUBSET Server]
    /\ node \in [Server -> Nodes]
    /\ \A i \in Server : node[i].out = {}
    /\ msgs \in SUBSET Messages
    /\ granted \in SUBSET [voter : Server, term : Nat, candidate : Server]
    /\ restarts \in Nat

-----------------------------------------------------------------------------
\* Two nodes are never leaders of the same term, whatever requests, replies
\* and restarts fall between the votes (election.go, fsm.go, hardstate.go).
ElectionSafety ==
    \A i, j \in Server :
        role[i] = "leader" /\ role[j] = "leader" /\ hs[i].term = hs[j].term => i = j

\* Why ElectionSafety holds as long as the voters stay the same: every vote
\* that is counted or on its way is on the disk of its voter, which remembers
\* it and gives no second one; a candidate counts the votes of its own term
\* only (the guards of sendVote's callback), and a leader has a quorum of them.
Voters == UNION {Peers[i] : i \in Server}

FixedVoters == \A i \in Server : node[i].conf.voters = Voters

Vote(voter, term, candidate) == [voter |-> voter, term |-> term, candidate |-> candidate]

VotesRecorded ==
    \A g \in granted :
        /\ g.term <= hs[g.voter].term
        /\ g.term = hs[g.voter].term => hs[g.voter].votedFor = g.candidate

OneVote ==
    \A g, h \in granted : g.voter = h.voter /\ g.term = h.term => g.candidate = h.candidate

BallotsGenuine ==
    \A m \in msgs :
        /\ m.type = "RequestVote" => m.to \in Voters
        /\ m.type = "RequestVoteReply" /\ m.granted =>
              /\ m.from \in Voters
              /\ Vote(m.from, m.sent, m.to) \in granted
              /\ hs[m.to].term = m.sent
              /\ role[m.to] = "candidate"

VotesGenuine ==
    \A i \in Server : role[i] # "follower" =>
        \A j \in votes[i] : j \in Voters /\ Vote(j, hs[i].term, i) \in granted

LeadersElected ==
    \A i \in Server : role[i] = "leader" =>
        Cardinality(votes[i]) > Cardinality(Voters) \div 2

ElectionInv ==
    /\ VotesRecorded
    /\ OneVote
    /\ BallotsGenuine
    /\ VotesGenuine
    /\ LeadersElected

\* If two logs hold entries of the same term at the same index, they hold
\* the same entries up to there (sendAppend's prev check, handleAppendEntries).
LogMatching ==
    \A i, j \in Server :
        LET a == node[i].log
            b == node[j].log
        IN  \A x \in 1..MinOf(LastIndex(a), LastIndex(b)) :
                Has(a, x) /\ Has(b, x) /\ Term(a, x) = Term(b, x) =>
                    \A y \in 1..x : Has(a, y) /\ Has(b, y) => At(a, y) = At(b, y)

\* Whatever a node knows to be committed is in the log of every leader of
\* its term or of a later one (logUpToDate, maybeCommit's current-term rule,
\* and the commit index followers take from LeaderCommit).
LeaderCompleteness ==
    \A i, j \in Server :
        role[i] = "leader" /\ hs[i].term >= hs[j].term =>
            \A x \in 1..node[j].commit :
                Has(node[j].log, x) /\ x > node[i].log.snapIndex =>
                    Has(node[i].log, x) /\ At(node[i].log, x) = At(node[j].log, x)

\* The state machines of two nodes have applied the same entries in the same
\* order, as far as both have got.
StateMachineSafety ==
    \A i, j \in Server :
        \A x \in 1..MinOf(Len(node[i].sm), Len(node[j].sm)) : node[i].sm[x] = node[j].sm[x]

\* An entry whose proposer was told success is in the log, or covered by a
\* snapshot, of a quorum of the cluster, so that no election can lose it.
AckedDurable ==
    \A i \in Server : \A e \in node[i].acked :
        LET Holders == {j \in Peers[i] :
                          \/ e.index <= node[j].log.snapIndex
                          \/ Has(node[j].log, e.index) /\ At(node[j].log, e.index) = e}
        IN  Cardinality(Holders) > Cardinality(Peers[i]) \div 2

\* Why LogMatching holds as long as nobody has taken a snapshot.  An entry and the
\* term of the one before it are a link; every log, and every AppendEntries call, is
\* made of links, and only the leader of a term makes new ones of that term.
Uncompacted == \A i \in Server : node[i].snap.index = 0

Aligned(log) ==
    /\ log.snapIndex = 0 /\ log.snapTerm = 0
    /\ \A k \in 1..Len(log.ents) : log.ents[k].index = k

LinkOf(entry, before) == [entry |-> entry, before |-> before]

LogLink(log, k) == LinkOf(log.ents[k], IF k = 1 THEN 0 ELSE log.ents[k - 1].term)

CallLink(m, k) == LinkOf(m.ents[k], IF k = 1 THEN m.prevTerm ELSE m.ents[k - 1].term)

AppendsUnderWay == {m \in msgs : m.type = "AppendEntries"}

Links ==
    (UNION {{LogLink(node[i].log, k) : k \in 1..Len(node[i].log.ents)} : i \in Server})
    \cup (UNION {{CallLink(m, k) : k \in 1..Len(m.ents)} : m \in AppendsUnderWay})

LogsPlain == \A i \in Server : Aligned(node[i].log) /\ node[i].wal = node[i].log

CallsAligned ==
    \A m \in AppendsUnderWay :
        /\ m.prevIndex = 0 => m.prevTerm = 0
        /\ \A k \in 1..Len(m.ents) : m.ents[k].index = m.prevIndex + k

\* Nobody sends a snapshot, and the reply to an AppendEntries call is awaited.
NoTransfers ==
    \A m \in msgs :
        /\ m.type \notin {"InstallSnapshot", "InstallSnapshotReply"}
        /\ m.type = "AppendEntriesReply" => hs[m.to].term = m.sent /\ role[m.to] = "leader"

LinksUnique ==
    \A l, k \in Links :
        l.entry.index = k.entry.index /\ l.entry.term = k.entry.term => l = k

\* A node was elected in the term of every link, and is candidate of it no more.
LinksElected ==
    \A l \in Links : \E c \in Server, Q \in SUBSET Voters :
        /\ Cardinality(Q) > Cardinality(Voters) \div 2
        /\ \A v \in Q : Vote(v, l.entry.term, c) \in granted
        /\ hs[c].term >= l.entry.term
        /\ hs[c].term = l.entry.term => role[c] # "candidate"

LeadersAhead ==
    \A i \in Server : role[i] = "leader" =>
        \A l \in Links : l.entry.term = hs[i].term => l.entry.index <= Len(node[i].log.ents)

\* Why logs match (appendData, sendAppend, handleAppendEntries): an entry of
\* an index and term is one entry behind one predecessor in whatever log or call it
\* is, because only a leader elected in its term makes it, behind all it made before.
LogInv ==
    /\ LogsPlain
    /\ CallsAligned
    /\ NoTransfers
    /\ LinksUnique
    /\ LinksElected
    /\ LeadersAhead

\* Why MatchIndexSound holds as long as nobody has taken a snapshot, although a
\* follower reports its whole log: until the log of a follower is the beginning of
\* its leader's, the leader calls it at or behind the fork of the two logs, never
\* before it, so that the first call the follower accepts cuts off what is not the
\* leader's.  The zero reply of a node that was stopped (do) moves a leader before
\* the fork.
NoBlanks == \A m \in msgs : m.type = "AppendEntriesReply" => m.term > 0

\* Call c carries a part of log.
CopyOf(c, log) ==
    /\ c.type = "AppendEntries"
    /\ c.prevIndex \in 0..Len(log.ents)
    /\ c.prevTerm = Term(log, c.prevIndex)
    /\ c.prevIndex + Len(c.ents) <= Len(log.ents)
    /\ \A k \in 1..Len(c.ents) : c.ents[k] = log.ents[c.prevIndex + k]

\* Log a is the beginning of log b.
Begins(a, b) ==
    /\ Len(a.ents) <= Len(b.ents)
    /\ \A x \in 1..Len(a.ents) : a.ents[x] = b.ents[x]

\* Position p is not before the fork of logs a and b.
PastFork(a, b, p) ==
    \A x \in 1..Len(a.ents) :
        x <= Len(b.ents) /\ a.ents[x].term = b.ents[x].term => x <= p

\* Position p is not before the last entry of log that is older than term.
PastOlder(log, term, p) == \A x \in 1..Len(log.ents) : log.ents[x].term < term => x <= p

\* The positions at which leader i has called, or will call, node j in its term.
Sent(i, j) ==
    {NextOf(node[i], j) - 1} \cup
        {m.prevIndex : m \in {c \in AppendsUnderWay :
                                c.from = i /\ c.to = j /\ c.term = hs[i].term}}

Replies(i, j) == {m \in msgs : m.type = "AppendEntriesReply" /\ m.from = j /\ m.to = i}

TermsOrdered ==
    /\ \A l \in Links : l.before <= l.entry.term
    /\ \A i \in Server : \A x \in 1..Len(node[i].log.ents) :
          node[i].log.ents[x].term <= hs[i].term
    /\ \A m \in AppendsUnderWay : \A k \in 1..Len(m.ents) : m.ents[k].term <= m.term

\* A node was elected in the term of every call, and is candidate of it no more.
CallsElected ==
    \A m \in AppendsUnderWay :
        /\ m.from # m.to
        /\ m.ents = <<>> => m.prevIndex > 0 /\ m.prevTerm = m.term
        /\ hs[m.from].term >= m.term
        /\ hs[m.from].term = m.term => role[m.from] # "candidate"
        /\ \E Q \in SUBSET Voters :
              /\ Cardinality(Q) > Cardinality(Voters) \div 2
              /\ \A v \in Q : Vote(v, m.term, m.from) \in granted

RepliesCurrent ==
    \A m \in msgs : m.type = "AppendEntriesReply" =>
        /\ m.from # m.to
        /\ m.term >= m.sent
        /\ m.success => m.term = m.sent

\* A leader's log ends in its term; it holds all links and all calls of the term.
LeadersHold ==
    \A i \in Server : role[i] = "leader" =>
        LET log == node[i].log
        IN  /\ Len(log.ents) > 0 /\ log.ents[Len(log.ents)].term = hs[i].term
            /\ node[i].match[i] <= Len(log.ents)
            /\ \A l \in Links : l.entry.term = hs[i].term =>
                  \E x \in 1..Len(log.ents) : l = LogLink(log, x)
            /\ \A m \in AppendsUnderWay :
                  m.from = i /\ m.term = hs[i].term => CopyOf(m, log)

\* Node j has not yet heard of the term of leader i.
Unreached(i, j) ==
    /\ node[i].match[j] = 0
    /\ Replies(i, j) = {}
    /\ \A p \in Sent(i, j) : PastOlder(node[i].log, hs[i].term, p)

\* Node j knows the term of leader i, and has all of its log from it.
Following(i, j) ==
    /\ Begins(node[j].log, node[i].log)
    /\ node[i].match[j] <= Len(node[j].log.ents)
    /\ \A m \in Replies(i, j) : m.success =>
          m.match <= Len(node[j].log.ents) /\ m.hint - 1 <= Len(node[j].log.ents)

\* Rejection m reports log a too short, or an entry of a term of which a has one
\* behind the fork.
Reports(m, a, b) ==
    \/ m.conflictTerm = 0 /\ m.conflictIndex > Len(a.ents)
    \/ /\ m.conflictTerm # 0
       /\ m.conflictIndex \in 1..Len(a.ents)
       /\ a.ents[m.conflictIndex].term = m.conflictTerm
       /\ \E p \in 1..Len(a.ents) : a.ents[p].term = m.conflictTerm /\ PastFork(a, b, p - 1)

\* Node j knows the term of leader i, and has not yet accepted a call of it.
Forked(i, j) ==
    /\ node[i].match[j] = 0
    /\ \A p \in Sent(i, j) : PastFork(node[j].log, node[i].log, p)
    /\ \A m \in Replies(i, j) :
          m.term = m.sent => ~m.success /\ Reports(m, node[j].log, node[i].log)

ProgressKnown ==
    \A i, j \in Server : role[i] = "leader" /\ i # j =>
        /\ hs[j].term < hs[i].term => Unreached(i, j)
        /\ hs[j].term = hs[i].term => Following(i, j) \/ Forked(i, j)

\* What a leader knows of a follower's log, and what calls and replies under way
\* will tell it (NextIndex and MatchIndex in onAppendReply against the conflict that
\* handleAppendEntries reports): either the follower's log is the beginning of the
\* leader's, or the leader's calls do not match before the fork.
MatchInv ==
    /\ TermsOrdered
    /\ CallsElected
    /\ RepliesCurrent
    /\ LeadersHold
    /\ ProgressKnown

\* Why LeaderCompleteness, StateMachineSafety and AckedDurable hold as long as nobody
\* has taken a snapshot and voters stay the same.  In what follows p is the beginning
\* of a log; it is chosen when a majority backs it, as Backed says: from then on
\* nobody can be elected without p, and no call can take it away.
Upto(log, x) == [snapIndex |-> 0, snapTerm |-> 0, ents |-> SubSeq(log.ents, 1, x)]

Majority(Q) == Q \subseteq Voters /\ Cardinality(Q) > Cardinality(Voters) \div 2

\* What is written about p has got as far as log, or something later has.
Reaches(log, p) ==
    \E y \in 1..Len(log.ents) :
        \/ log.ents[y].term > LastTerm(p)
        \/ log.ents[y].term = LastTerm(p) /\ y >= Len(p.ents)

\* The nodes of A have p, in its term or in a later one.
Held(A, p) == \A v \in A : hs[v].term >= LastTerm(p) /\ Begins(p, node[v].log)

\* A candidate of a later term that lacks p has no vote of A.
Unelectable(A, p) ==
    \A k \in Server : role[k] = "candidate" /\ hs[k].term > LastTerm(p) =>
        Begins(p, node[k].log) \/ \A v \in A : Vote(v, hs[k].term, k) \notin granted

NoneReaches(p) == \A j \in Server : Reaches(node[j].log, p) => Begins(p, node[j].log)

\* Call m carries nothing but p where p is, and comes after it elsewhere.
Fits(m, p) ==
    /\ \A k \in 1..Len(m.ents) : m.prevIndex + k <= Len(p.ents) => m.ents[k] = p.ents[m.prevIndex + k]
    /\ m.prevIndex \in 1..Len(p.ents) => m.prevTerm = p.ents[m.prevIndex].term
    /\ m.prevIndex > Len(p.ents) => m.prevTerm >= LastTerm(p)

CallsFit(p) == \A m \in AppendsUnderWay : m.term >= LastTerm(p) => Fits(m, p)

\* A node that hears of no new term from a call has what p says, or forks from p
\* where the call cuts it off.
CallsMeet(p) ==
    \A m \in AppendsUnderWay : m.term >= LastTerm(p) /\ hs[m.to].term = m.term =>
        \/ Begins(node[m.to].log, p) \/ Begins(p, node[m.to].log)
        \/ PastFork(p, node[m.to].log, m.prevIndex)

Backed(A, p) ==
    /\ Held(A, p)
    /\ Unelectable(A, p)
    /\ NoneReaches(p)
    /\ CallsFit(p)
    /\ CallsMeet(p)

Beginnings == UNION {{Upto(node[i].log, x) : x \in 1..Len(node[i].log.ents)} : i \in Server}

Chosen == {p \in Beginnings : \E Q \in SUBSET Voters : Majority(Q) /\ Backed(Q, p)}

\* The nodes that leader i knows, or will learn, to have its log up to x.
Acks(i, x) ==
    {v \in Server : \/ v = i \/ node[i].match[v] >= x
                    \/ \E m \in Replies(i, v) : m.success /\ (m.match >= x \/ m.hint > x)}

\* A majority without a node of A is in a term later than term.
Lost(A, term) ==
    \E Q \in SUBSET Voters : Majority(Q) /\ \A v \in Q : v \notin A /\ hs[v].term > term

OwnEntries ==
    \A i \in Server : role[i] = "leader" =>
        \A x \in 1..Len(node[i].log.ents) : node[i].log.ents[x].term = hs[i].term =>
            Lost(Acks(i, x), hs[i].term) \/ Backed(Acks(i, x), Upto(node[i].log, x))

AcksBounded ==
    \A i, v \in Server : role[i] = "leader" =>
        /\ node[i].match[v] <= Len(node[i].log.ents)
        /\ \A m \in Replies(i, v) : m.success =>
              m.match <= Len(node[i].log.ents) /\ m.hint <= Len(node[i].log.ents) + 1

CallsFresh ==
    \A m \in AppendsUnderWay : hs[m.to].term < m.term =>
        \A k \in 1..Len(m.ents) : m.ents[k].term = m.term

\* Votes are asked for, and given, in the term of the candidate at the latest, and
\* what a request says of a log holds as long as its sender is candidate.
VotesAsked ==
    /\ \A g \in granted : hs[g.candidate].term >= g.term
    /\ \A m \in msgs : m.type = "RequestVote" =>
          /\ hs[m.from].term >= m.term
          /\ hs[m.from].term = m.term /\ role[m.from] = "candidate" =>
                m.lastIndex = LastIndex(node[m.from].log) /\ m.lastTerm = LastTerm(node[m.from].log)

\* The commit index of node j is in a chosen beginning of its log.
Settled(j) ==
    node[j].commit > 0 => \E p \in Chosen :
        /\ LastTerm(p) <= hs[j].term
        /\ node[j].commit <= Len(p.ents)
        /\ \A x \in 1..node[j].commit : p.ents[x] = node[j].log.ents[x]

CommitsChosen ==
    /\ \A j \in Server :
          /\ hs[j].commit <= node[j].commit /\ node[j].commit <= Len(node[j].log.ents)
          /\ Settled(j)
    /\ \A m \in AppendsUnderWay : m.commit > 0 =>
          \E p \in Chosen : LastTerm(p) <= m.term /\ m.commit <= Len(p.ents)

AppliedCommitted ==
    \A j \in Server :
        /\ node[j].applied <= node[j].commit
        /\ node[j].sm = SubSeq(node[j].log.ents, 1, node[j].applied)
        /\ node[j].snap.sm = <<>>
        /\ \A e \in node[j].acked : \E p \in Chosen : e.index \in 1..Len(p.ents) /\ p.ents[e.index] = e

\* What a leader has written is backed by those who have acknowledged it, unless too
\* many have gone on to a later term; so what it commits is chosen (maybeCommit).
CommitInv ==
    /\ OwnEntries
    /\ AcksBounded
    /\ CallsFresh
    /\ VotesAsked
    /\ CommitsChosen
    /\ AppliedCommitted

\* What a leader believes of a follower of its term is true: the follower's
\* log agrees with the leader's up to MatchIndex.  The follower reports its
\* whole log (reply.MatchIndex = LastIndex), not the entries of the call.
MatchIndexSound ==
    \A i, j \in Server :
        role[i] = "leader" /\ hs[j].term = hs[i].term =>
            \A x \in 1..node[i].match[j] :
                \/ x <= node[j].log.snapIndex \/ x <= node[i].log.snapIndex
                \/ /\ Has(node[j].log, x) /\ Has(node[i].log, x)
                   /\ At(node[j].log, x) = At(node[i].log, x)

\* A crash at any moment loses nothing a node has answered for: replaying the
\* WAL under the newest snapshot gives back the log in memory (restoreLog and
\* New against the appends and truncations of the handlers).
Recoverable ==
    \A i \in Server :
        LET n == node[i]
        IN  (IF n.snap.index = 0 THEN n.wal ELSE Compact(n.wal, n.snap.index, n.snap.term)) = n.log

\* A linearizable read sees every entry whose proposer, at any node, had been told
\* success before the read was asked (LinearizableRead, ackReads, tryFinishReads).  It
\* holds of two nodes, where nobody is elected without the vote of the node that
\* reads, and not of three.
ReadsCurrent == \A i \in Server : node[i].missed = {}

\* Who waits for an answer waits at a leader, which is a voter: for entries of its term,
\* or for a read.  The leader of a term is told by nobody but itself of what it
\* promises in it, so its commit index is past that.
PendingAtLeaders ==
    \A i \in Server :
        /\ role[i] # "follower" => i \in Voters
        /\ role[i] # "leader" => node[i].waiting = {} /\ node[i].reads = {}
        /\ \A x \in node[i].waiting :
              x \in 1..Len(node[i].log.ents) /\ node[i].log.ents[x].term = hs[i].term
        /\ role[i] = "leader" =>
              \A e \in Promised : e.term = hs[i].term => e.index <= node[i].commit

\* The reads of n wait for all that was promised when they were asked.
ReadsFit(n) ==
    \A r \in n.reads : \A e \in r.known :
        /\ r.index <= Len(n.log.ents)
        /\ e.index \in 1..r.index /\ n.log.ents[e.index] = e

\* Why ReadsCurrent holds of two voters: what is chosen is on both of them, so a leader
\* that has committed in its term has committed all that anybody was told of
\* (currentTermCommitted), whoever confirms its reads.
ReadInv ==
    /\ PendingAtLeaders
    /\ \A i \in Server : ReadsFit(node[i])
    /\ ReadsCurrent

-----------------------------------------------------------------------------
\* A node's term never goes back, and within a term its vote is never taken
\* back or given to another, restarts included.
VoteKept ==
    [][\A i \in Server :
          /\ hs'[i].term >= hs[i].term
          /\ hs'[i].term = hs[i].term /\ hs[i].votedFor # None =>
                hs'[i].votedFor = hs[i].votedFor]_vars

\* While a leader stays leader of its term it only appends to its log or
\* compacts it.
LeaderAppendOnly ==
    [][\A i \in Server :
          role[i] = "leader" /\ role'[i] = "leader" /\ hs'[i].term = hs[i].term =>
              \A x \in 1..LastIndex(node[i].log) :
                  Has(node[i].log, x) =>
                      \/ x <= node'[i].log.snapIndex
                      \/ Has(node'[i].log, x) /\ At(node'[i].log, x) = At(node[i].log, x)]_vars

\* The nodes implement one replicated log: they apply the same entries in the same
\* order, what one has applied stays, and nobody is told of an entry that no node
\* has applied.  (Of a node that has restarted the longest history is not kept.)
Agreed ==
    node[CHOOSE j \in Server : \A i \in Server : Len(node[i].sm) <= Len(node[j].sm)].sm

Cluster == INSTANCE ReplicatedLog
    WITH Replica <- Server,
         log     <- Agreed,
         state   <- [i \in Server |-> node[i].sm],
         told    <- Promised

ImplementsReplicatedLog == Cluster!Spec

\* What is agreed upon also when nodes restart and have nothing applied: the longest
\* chosen beginning.
Longest(S) == CHOOSE s \in S : \A t \in S : Len(t) <= Len(s)

ChosenLog == Longest({<<>>} \cup {p.ents : p \in Chosen})

ChosenCluster == INSTANCE ReplicatedLog
    WITH Replica <- Server,
         log     <- ChosenLog,
         state   <- [i \in Server |-> node[i].sm],
         told    <- Promised

ImplementsThroughCrashes == ChosenCluster!Spec

\* A running node's commit index and applied index never go back.
CommitMonotone ==
    [][\A i \in Server : restarts' = restarts =>
          node'[i].commit >= node[i].commit /\ node'[i].applied >= node[i].applied]_vars
=============================================================================
