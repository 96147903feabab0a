----------------------------- MODULE AtomicStore -----------------------------
(***************************************************************************)
(* What the key-value service promises to its callers: one store.  A       *)
(* command takes effect in one step, some time after it was asked for and  *)
(* before it is answered; a numbered one takes effect at most once, and    *)
(* not after one of the same client with a larger number.  An answer is    *)
(* what the command met when it took effect, or what the command met that  *)
(* overtook it.                                                            *)
(***************************************************************************)
EXTENDS Integers

CONSTANTS Keys, Anonymous

VARIABLES
    store,      \* store[k]: the tag of the put whose value key k has, or 0
    asked,      \* the commands callers have asked for
    effects,    \* [cmd, res]: the commands that took effect, and what each met
    answers     \* [cmd, res]: what callers were told of their commands

vars == <<store, asked, effects, answers>>

Init ==
    /\ store   = [k \in Keys |-> 0]
    /\ asked   = {}
    /\ effects = {}
    /\ answers = {}

Ask ==
    /\ \E cmd \in asked' \ asked : asked' = asked \cup {cmd}
    /\ UNCHANGED <<answers, store, effects>>

\* What a command writes.
Value(cmd) == IF cmd.op = "put" THEN cmd.tag ELSE 0

\* x keeps cmd from taking effect when it takes effect before.
Overtakes(x, cmd) == x.id = cmd.id /\ cmd.id # Anonymous /\ x.seq >= cmd.seq

TakeEffect(cmd) ==
    /\ \A e \in effects : ~Overtakes(e.cmd, cmd)
    /\ store'   = [store EXCEPT ![cmd.key] = Value(cmd)]
    /\ effects' = effects \cup
                     {[cmd |-> cmd,
                       res |-> [key |-> cmd.key, value |-> Value(cmd),
                                missing |-> cmd.op = "delete" /\ store[cmd.key] = 0]]}
    /\ UNCHANGED <<asked, answers>>

Answer(a) ==
    /\ a.cmd \in asked
    /\ \E e \in effects : a.res = e.res /\ (e.cmd = a.cmd \/ Overtakes(e.cmd, a.cmd))
    /\ answers' = answers \cup {a}
    /\ UNCHANGED <<store, asked, effects>>

Next ==
    \/ Ask
    \/ \E cmd \in asked : TakeEffect(cmd)
    \/ \E a \in answers' \ answers : Answer(a)

Spec == Init /\ [][Next]_vars
=============================================================================
