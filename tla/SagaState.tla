------------------------------ MODULE SagaState ------------------------------
(***************************************************************************)
(* The saga document that libs/saga keeps in Redis and the way each method *)
(* of SagaOrchestratorService rewrites it.  A document is a value here;    *)
(* reading and saving it belong to the modules that own the store.         *)
(***************************************************************************)
EXTENDS Integers

CONSTANTS
    NSteps,       \* number of steps of the saga
    Compensable,  \* the steps declared with a compensation action
    NoSaga        \* what getSaga answers when Redis has no document

Step == 0 .. NSteps - 1

SagaStatus == {"PENDING", "COMPLETED", "FAILED", "COMPENSATING", "COMPENSATED"}

SagaRecord == [steps : [Step -> SagaStatus], currentStep : Nat, status : SagaStatus]

ASSUME SagaAssumption ==
    /\ NSteps \in Nat \ {0}
    /\ Compensable \subseteq Step
    /\ NoSaga \notin SagaRecord

\* createSaga: every step and the saga itself start PENDING.
NewSaga ==
    [steps |-> [i \in Step |-> "PENDING"], currentStep |-> 0, status |-> "PENDING"]

\* A status written on the step the saga stands at, if there is one.
MarkCurrent(s, st) ==
    [i \in Step |-> IF i = s.currentStep THEN st ELSE s.steps[i]]

\* Mutant: the last step is taken for reached one step too early.
LastStepDoneEarly(s) == s.currentStep + 2 >= NSteps

LastStepDone(s) == s.currentStep + 1 >= NSteps

\* Mutant: currentStep is advanced before the completed step is marked.
ExecuteStepMarksNext(s) ==
    [steps       |-> MarkCurrent([s EXCEPT !.currentStep = @ + 1], "COMPLETED"),
     currentStep |-> s.currentStep + 1,
     status      |-> IF LastStepDone(s) THEN "COMPLETED" ELSE s.status]

ExecuteStep(s) ==
    [steps       |-> MarkCurrent(s, "COMPLETED"),
     currentStep |-> s.currentStep + 1,
     status      |-> IF LastStepDone(s) THEN "COMPLETED" ELSE s.status]

FailStep(s) ==
    [s EXCEPT !.steps = MarkCurrent(s, "FAILED"), !.status = "COMPENSATING"]

\* Mutant: the backward loop starts one step too low.
CompensationStepsShort(s) ==
    {i \in Compensable : i < s.currentStep - 1 /\ s.steps[i] = "COMPLETED"}

\* The steps compensate() hands back: completed, before the current one, undoable.
CompensationSteps(s) ==
    {i \in Compensable : i < s.currentStep /\ s.steps[i] = "COMPLETED"}

Compensate(s) ==
    [s EXCEPT !.steps = [i \in Step |->
        IF i \in CompensationSteps(s) THEN "COMPENSATING" ELSE s.steps[i]]]

MarkCompensated(s) ==
    [s EXCEPT !.steps = [i \in Step |->
                  IF s.steps[i] = "COMPENSATING" THEN "COMPENSATED" ELSE s.steps[i]],
              !.status = "COMPENSATED"]

\* Mutant: compensations run in the order the steps were executed.
FirstCompensation(todo) == CHOOSE i \in todo : \A j \in todo : i <= j

\* compensate() walks down from the current step: the latest step comes first.
NextCompensation(todo) == CHOOSE i \in todo : \A j \in todo : j <= i
=============================================================================
