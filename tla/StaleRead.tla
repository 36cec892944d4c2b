----------------------------- MODULE StaleRead -----------------------------
(***************************************************************************)
(* What a cache with a time to live promises: an answer may be stale, but  *)
(* it was true at some time within the last Bound ticks.  Permissions      *)
(* implements it for what it answers of the user's roles, EmailTheme for   *)
(* the themes of mails.                                                    *)
(***************************************************************************)
EXTENDS Integers

CONSTANTS
  Value,   \* what can be true, and be answered
  Call,
  Bound,
  None

StaleReadAssumption == Bound \in Nat /\ None \notin Value

VARIABLES
  truth,   \* the set of values that are true now
  age,     \* ticks since each value was last true, as far as Bound + 1
  answer   \* what each call has been answered, until it is over

Never == Bound + 1

Init ==
  /\ truth \subseteq Value
  /\ age = [v \in Value |-> IF v \in truth THEN 0 ELSE Never]
  /\ answer = [c \in Call |-> None]

Change ==
  /\ age' = [v \in Value |-> IF v \in truth' THEN 0 ELSE age[v]]
  /\ UNCHANGED answer

Tick ==
  /\ age' = [v \in Value |->
       IF v \in truth \/ age[v] = Never THEN age[v] ELSE age[v] + 1]
  /\ UNCHANGED <<truth, answer>>

Answer(c) ==
  /\ answer[c] = None
  /\ \E v \in Value : age[v] <= Bound /\ answer' = [answer EXCEPT ![c] = v]
  /\ UNCHANGED <<truth, age>>

\* A restart forgets several at once.
Forget(over) ==
  /\ answer' = [c \in Call |-> IF c \in over THEN None ELSE answer[c]]
  /\ UNCHANGED <<truth, age>>

Next ==
  \/ \E over \in SUBSET Call : Forget(over)
  \/ Change
  \/ Tick
  \/ \E c \in Call : Answer(c)

Spec == Init /\ [][Next]_<<truth, age, answer>>
=============================================================================
