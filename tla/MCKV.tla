-------------------------------- MODULE MCKV --------------------------------
(* Instances of KVSessions for TLC. *)
EXTENDS KVProperties, TLC

CONSTANTS alice, bob, idA, noId

\* One caller alone, with a client_id of its own.
SoloId == alice :> idA

\* One caller with a client_id of its own, one without.
OwnIds == alice :> idA @@ bob :> noId

\* Two callers that send the same client_id, as two uses of raftctl do.
SharedIds == alice :> idA @@ bob :> idA

\* One caller puts and deletes, the other one puts.
SomeOps == alice :> {"put", "delete"} @@ bob :> {"put"}

AllOps == [c \in Clients |-> {"put", "delete"}]

ReplicaSymmetry == Permutations(Replicas)

\* Numbers are those of one clock that never goes back, or ticks between requests.
OneClock == \A a, b \in Sent : a.try < b.try => a.cmd.seq < b.cmd.seq

OneClockSpec == Init /\ [][Next /\ OneClock']_vars

\* A caller asks only when it is answered, and numbers its puts 1, 2, ...; its deletes
\* get the time, which is later than 1970 by more than that.
Sequential ==
    /\ attempts <= Cardinality(told) + 1
    /\ \A a, b \in Sent :
          /\ a.cmd.op = b.cmd.op /\ a.try < b.try => a.cmd.seq < b.cmd.seq
          /\ a.cmd.op = "put" /\ b.cmd.op = "delete" => a.cmd.seq < b.cmd.seq

SequentialSpec == Init /\ [][Next /\ Sequential']_vars

\* Rising as a premise.
RisingSpec == Init /\ [][Next /\ Rising']_vars
=============================================================================
