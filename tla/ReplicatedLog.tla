--------------------------- MODULE ReplicatedLog ---------------------------
(***************************************************************************)
(* What raft promises to the state machine above it: one sequence of       *)
(* commands, of which every replica has applied a beginning.  The sequence *)
(* only grows at its end; nobody is told of a command that is not in it.   *)
(* A replica that restarts falls back to what it had saved.                *)
(***************************************************************************)
EXTENDS Integers, Sequences

CONSTANT Replica

VARIABLES
    log,        \* the commands every replica applies, in this order
    state,      \* state[r]: the commands replica r has applied
    told        \* the commands whose callers were told success

vars == <<log, state, told>>

Beginnings(s) == {SubSeq(s, 1, n) : n \in 0..Len(s)}

Init ==
    /\ log   = <<>>
    /\ state = [r \in Replica |-> <<>>]
    /\ told  = {}

\* Commands are agreed upon, replicas apply what is agreed upon, callers are told.
\* One handler of a leader may do all of it.
\* (The new log has a name of its own so that it is computed once a step.)
Advance ==
    \E new \in {log'} :
        /\ {log} \cup {state'[r] : r \in Replica} \subseteq Beginnings(new)
        /\ \A r \in Replica : state[r] \in Beginnings(state'[r])
        /\ told \subseteq told'
        /\ \A c \in told' : \E x \in 1..Len(new) : new[x] = c

\* A crash may come in the middle of a handler, when what it had written is agreed upon.
FallBack(r) ==
    /\ log \in Beginnings(log')
    /\ state'[r] \in Beginnings(state[r])
    /\ \A s \in Replica \ {r} : state'[s] = state[s]
    /\ UNCHANGED told

Next == Advance \/ \E r \in Replica : FallBack(r)

Spec == Init /\ [][Next]_vars
=============================================================================
