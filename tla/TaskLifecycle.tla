--------------------------- MODULE TaskLifecycle ---------------------------
(***************************************************************************)
(* What the durable task store promises its callers, without rows,         *)
(* versions, leases or workers: a task becomes ready only when everything  *)
(* it needs has succeeded, it is leased out at most Budget times, each     *)
(* lease is given back, finished or ended, and an end is final.            *)
(*                                                                         *)
(* A transaction of the store may move several tasks at once (a completion *)
(* releases dependents, a refresh or a recovery sweeps the table), so a    *)
(* step lets every task take one legal step or none.                       *)
(***************************************************************************)
EXTENDS Naturals

CONSTANTS Tasks, Budget

VARIABLES phase, spent, needs

lifecycleVars == <<phase, spent, needs>>

Init ==
    /\ phase = [t \in Tasks |-> "absent"]
    /\ spent = [t \in Tasks |-> 0]
    /\ needs = [t \in Tasks |-> {}]

Moves(t, from, to) == phase[t] \in from /\ phase'[t] = to
Keeps(t) == spent'[t] = spent[t] /\ needs'[t] = needs[t]

\* Everything t needs has succeeded, counting this very step.
Satisfied(t) == \A d \in needs'[t] : phase'[d] = "succeeded"

Submit(t) ==
    /\ phase[t] = "absent"
    /\ phase'[t] \in {"waiting", "ready"}
    /\ phase'[t] = "ready" => Satisfied(t)
    /\ \A d \in needs'[t] : d # t /\ phase[d] # "absent"
    /\ spent'[t] = spent[t]

Release(t) == Moves(t, {"waiting"}, "ready") /\ Satisfied(t) /\ Keeps(t)

Lease(t) ==
    /\ Moves(t, {"ready"}, "leased")
    /\ spent[t] < Budget[t]
    /\ spent'[t] = spent[t] + 1
    /\ needs'[t] = needs[t]

GiveBack(t) == Moves(t, {"leased"}, "ready") /\ spent[t] < Budget[t] /\ Keeps(t)
Finish(t) == Moves(t, {"leased"}, "succeeded") /\ Keeps(t)
End(t) == Moves(t, {"waiting", "ready", "leased"}, "ended") /\ Keeps(t)
Rest(t) == Moves(t, {phase[t]}, phase[t]) /\ Keeps(t)

Next ==
    \A t \in Tasks :
        Rest(t) \/ Submit(t) \/ Release(t) \/ Lease(t) \/ GiveBack(t) \/ Finish(t) \/ End(t)

Spec == Init /\ [][Next]_lifecycleVars
=============================================================================
