--------------------------- MODULE Linearizability ---------------------------
(***************************************************************************)
(* Package linearizability: Check, run on every history that clients of a  *)
(* key-value store can record.  The store answers what it likes; clocks    *)
(* may give two events the same time.                                      *)
(***************************************************************************)
EXTENDS Naturals, FiniteSets, SequencesExt

CONSTANTS
    Ids,        \* Event.ID: one call of an id is under way at a time
    Keys,       \* the registers
    Values,     \* what Put writes
    NotFound,   \* "": what Get of a key without a value returns
    MaxCalls    \* bound: the calls of a history

ASSUME HistoryAssumption == NotFound \notin Values /\ MaxCalls \in Nat

VARIABLE history    \* a History: its Events in the order they were recorded

Init == history = <<>>

-----------------------------------------------------------------------------
(***************************************************************************)
(* The recorders.                                                          *)
(***************************************************************************)
Record(kind, id, op, key, value) ==
    \E tick \in {0, 1} :
        history' = Append(history,
            [kind |-> kind, id |-> id, op |-> op, key |-> key, value |-> value,
             time |-> tick + IF history = <<>> THEN 0 ELSE Last(history).time])

\* The positions of the events e of id, and the invocation it waits for.
Of(id)      == {i \in DOMAIN history : history[i].id = id}
Pending(id) == {i \in Of(id) : history[i].kind = "invoke" /\ \A j \in Of(id) : j <= i}

Begin(id) ==
    /\ Pending(id) = {}
    /\ Cardinality({i \in DOMAIN history : history[i].kind = "invoke"}) < MaxCalls
    /\ \E key \in Keys :
        \/ \E v \in Values : Record("invoke", id, "put", key, v)
        \/ \E op \in {"get", "delete"} : Record("invoke", id, op, key, NotFound)

End(id) ==
    \E i \in Pending(id) :
        LET e == history[i]
        IN  \/ e.op = "get" /\ \E v \in Values \cup {NotFound} : Record("ok", id, e.op, e.key, v)
            \/ e.op # "get" /\ Record("ok", id, e.op, e.key, e.value)
            \/ Record("fail", id, e.op, e.key, e.value)

Next == \E id \in Ids : Begin(id) \/ End(id)

Spec == Init /\ [][Next]_history

-----------------------------------------------------------------------------
(***************************************************************************)
(* Check.                                                                  *)
(***************************************************************************)
\* The invocation at position i with the set of its OK events, one or none: a call
\* that failed and one without a reply are both taken for failed.
Call(h, i) ==
    [at |-> i, ev |-> h[i],
     ok |-> {h[j] : j \in {k \in i+1..Len(h) :
                /\ h[k].kind = "ok" /\ h[k].id = h[i].id
                /\ \A l \in i+1..k-1 : h[l].id # h[i].id}}]

Calls(h) == {Call(h, i) : i \in {k \in DOMAIN h : h[k].kind = "invoke"}}

Failed(c) == c.ok = {}

\* Mutants: calls may be put in any order; a call that ends when another begins has to
\* come first.
AnyOrder(calls, a) == a \in calls

NotAfter(calls, a) == \A b \in calls \ {a} : \A r \in b.ok : ~(r.time <= a.ev.time)

\* canLinearize, among the calls not used yet: none ended before a began.
CanLinearize(calls, a) == \A b \in calls \ {a} : \A r \in b.ok : ~(r.time < a.ev.time)

\* step: the state after c, if c can have had its reply.  A failed call did nothing.
Step(state, c) ==
    IF Failed(c) THEN {state} ELSE
        CASE c.ev.op = "put"    -> {[state EXCEPT ![c.ev.key] = c.ev.value]}
          [] c.ev.op = "delete" -> {[state EXCEPT ![c.ev.key] = NotFound]}
          [] OTHER              -> {s \in {state} : \A r \in c.ok : s[c.ev.key] = r.value}

\* The states of the registers.
States == [Keys -> Values \cup {NotFound}]

\* search, where a call of ops that is not in calls is used.
Search(ops, state) ==
    LET search[calls \in SUBSET ops] ==
            [s \in States |->
                \/ calls = {}
                \/ \E c \in calls : /\ CanLinearize(calls, c)
                                    /\ \E next \in Step(s, c) : search[calls \ {c}][next]]
    IN  search[ops][state]

Check(h) == Search(Calls(h), [k \in Keys |-> NotFound])

-----------------------------------------------------------------------------
(***************************************************************************)
(* What Check is to decide.                                                *)
(***************************************************************************)
\* An order of calls is legal if a Get that ended returned what the last call before it
\* left in its register.
Legal(order) ==
    \A p \in DOMAIN order : \A r \in order[p].ok : order[p].ev.op = "get" =>
        LET writes == {q \in 1..p-1 : order[q].ev.key = order[p].ev.key /\ order[q].ev.op # "get"}
        IN  r.value = IF writes = {} THEN NotFound ELSE order[Max(writes)].ev.value

\* It keeps real time if no call comes before one that ended before it began.
InRealTime(order) ==
    \A p, q \in DOMAIN order : p < q =>
        \A r \in order[q].ok : r.time >= order[p].ev.time

\* A history is linearizable if such an order exists of all calls that ended and of
\* some of the others: what they did, nobody was told.
Linearizable(h) ==
    \E effective \in SUBSET {c \in Calls(h) : Failed(c)} :
        \E order \in SetToSeqs(effective \cup {c \in Calls(h) : ~Failed(c)}) :
            Legal(order) /\ InRealTime(order)

\* Check accepts no history that is not linearizable, whatever failed in it.
CheckIsSound == Check(history) => Linearizable(history)

\* Check accepts every linearizable history in which every call was answered.
CheckIsExact ==
    (\A c \in Calls(history) : ~Failed(c)) /\ Linearizable(history) => Check(history)

\* Check accepts every linearizable history.
CheckIsComplete == Linearizable(history) => Check(history)
=============================================================================
