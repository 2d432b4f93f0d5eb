----------------------------- MODULE RemoteCall -----------------------------
(***************************************************************************)
(* What a caller of the cross-server link may rely on, whatever the link   *)
(* does: a call runs at most once at the other end and ends at most once,  *)
(* and what it is told is honest.  "ran" means that it ran, "refused" that *)
(* it did not and never will, and "unknown" promises nothing -- the answer *)
(* for which the model is told not to retry.                               *)
(***************************************************************************)
EXTENDS Naturals

CONSTANT Calls

VARIABLES
    stage,      \* "new", "open" or "over"
    outcome,    \* what an ended call was told
    runs        \* how often the other end has run it

vars == <<stage, outcome, runs>>

Outcomes == {"none", "ran", "refused", "unknown"}

Init ==
    /\ stage = [k \in Calls |-> "new"]
    /\ outcome = [k \in Calls |-> "none"]
    /\ runs = [k \in Calls |-> 0]

Ask(k) ==
    /\ stage[k] = "new"
    /\ stage' = [stage EXCEPT ![k] = "open"]
    /\ UNCHANGED <<outcome, runs>>

\* The frame may be carried out long after the caller has given up.
Run(k) ==
    /\ stage[k] # "new"
    /\ outcome[k] # "refused"
    /\ runs[k] = 0
    /\ runs' = [runs EXCEPT ![k] = 1]
    /\ UNCHANGED <<stage, outcome>>

End(k, o) ==
    /\ stage[k] # "over"
    /\ o = "ran" => runs[k] = 1
    /\ o = "refused" => runs[k] = 0
    /\ stage[k] = "new" => o = "refused"
    /\ stage' = [stage EXCEPT ![k] = "over"]
    /\ outcome' = [outcome EXCEPT ![k] = o]
    /\ UNCHANGED runs

Next == \E k \in Calls :
            \/ Ask(k)
            \/ Run(k)
            \/ \E o \in Outcomes \ {"none"} : End(k, o)

Spec == Init /\ [][Next]_vars
=============================================================================
