------------------------------ MODULE AtomicSaga ------------------------------
(***************************************************************************)
(* What a saga promises its caller, whatever it does in between: it ends   *)
(* with every step applied or with none.  libs/saga/README.md calls the    *)
(* two ends COMPLETED and COMPENSATED.                                     *)
(***************************************************************************)
CONSTANT Steps

VARIABLES
    effects,   \* the steps whose action stands
    outcome    \* "running", "committed" or "aborted"

vars == <<effects, outcome>>

Init == effects = {} /\ outcome = "running"

Apply == /\ outcome = "running"
         /\ \E i \in Steps : effects' = effects \cup {i}
         /\ UNCHANGED outcome

Undo == /\ outcome = "running"
        /\ \E i \in effects : effects' = effects \ {i}
        /\ UNCHANGED outcome

Commit == /\ outcome = "running"
          /\ effects = Steps
          /\ outcome' = "committed"
          /\ UNCHANGED effects

Abort == /\ outcome = "running"
         /\ effects = {}
         /\ outcome' = "aborted"
         /\ UNCHANGED effects

Next == Apply \/ Undo \/ Commit \/ Abort

Spec == Init /\ [][Next]_vars
=============================================================================
