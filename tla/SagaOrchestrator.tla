--------------------------- MODULE SagaOrchestrator ---------------------------
(***************************************************************************)
(* One saga from createSaga to its end, driven the way registerWithCity    *)
(* (apps/users) drives it, for any number of steps.  The document lives in *)
(* Redis, where a read may find nothing and a save may be lost without the *)
(* caller being told (libs/redis get and set swallow every error).         *)
(*                                                                         *)
(* The first step runs outside the try block that compensates, the later   *)
(* ones inside it: RollsBack tells them apart.                             *)
(***************************************************************************)
EXTENDS SagaState

CONSTANTS
    Undoable,     \* steps whose compensation the caller has code for
    Ambiguous,    \* steps that may fail after taking effect (a timed-out RPC)
    StoreFaults,  \* Redis may lose the document, a read or a save
    UndoFaults,   \* a compensating action may throw
    Crashes       \* the calling process may die between two steps

ASSUME OrchestratorAssumption ==
    /\ Undoable \subseteq Step
    /\ Ambiguous \subseteq Step
    /\ StoreFaults \in BOOLEAN
    /\ UndoFaults \in BOOLEAN
    /\ Crashes \in BOOLEAN

VARIABLES
    saga,     \* the document under saga:<id>, or NoSaga
    client,   \* where the caller stands
    next,     \* the step the caller is working on
    effects,  \* the steps whose action stands in some service's database
    todo      \* the compensations the caller has still to run

vars == <<saga, client, next, effects, todo>>

Running  == {"start", "act", "record", "fail", "compensate", "undo", "giveUp"}
Finished == {"done", "rolledBack", "error"}
Client   == Running \cup Finished \cup {"crashed"}

TypeOK ==
    /\ saga \in SagaRecord \cup {NoSaga}
    /\ client \in Client
    /\ next \in Step
    /\ effects \subseteq Step
    /\ todo \subseteq Step

Init ==
    /\ saga = NoSaga
    /\ client = "start"
    /\ next = 0
    /\ effects = {}
    /\ todo = {}

\* getSaga answers null when the document is gone or the read failed.
ReadsSaga  == saga # NoSaga
\* Mutant: a caller that finds no document waits for it instead of failing.
NeverReadsNull == FALSE

ReadsNull  == saga = NoSaga \/ StoreFaults

\* saveSaga: the new document, or the old one when Redis refused it.
Save(s) == saga' = s \/ (StoreFaults /\ saga' = saga)

RollsBack(i) == i > 0
\* Mutant: no inner catch, every error goes straight to the caller.
OnErrorNoRollback == client' = "giveUp"

OnError == client' = IF RollsBack(next) THEN "fail" ELSE "giveUp"

Create ==
    /\ client = "start"
    /\ Save(NewSaga)
    /\ client' = "act"
    /\ UNCHANGED <<next, effects, todo>>

ActSucceeds ==
    /\ client = "act"
    /\ effects' = effects \cup {next}
    /\ client' = "record"
    /\ UNCHANGED <<saga, next, todo>>

ActFails ==
    /\ client = "act"
    /\ \/ effects' = effects
       \/ next \in Ambiguous /\ effects' = effects \cup {next}
    /\ OnError
    /\ UNCHANGED <<saga, next, todo>>

\* Mutant: the caller goes on to a step that does not exist.
RecordPastEnd ==
    /\ client = "record"
    /\ ReadsSaga
    /\ Save(ExecuteStep(saga))
    /\ client' = "act"
    /\ next' = next + 1
    /\ UNCHANGED <<effects, todo>>

\* executeStep; completion reported before the caller's last step is an error.
Record ==
    /\ client = "record"
    /\ ReadsSaga
    /\ Save(ExecuteStep(saga))
    /\ IF next = NSteps - 1
       THEN client' = "done" /\ UNCHANGED next
       ELSE IF LastStepDone(saga)
            THEN OnError /\ UNCHANGED next
            ELSE client' = "act" /\ next' = next + 1
    /\ UNCHANGED <<effects, todo>>

RecordThrows ==
    /\ client = "record"
    /\ ReadsNull
    /\ OnError
    /\ UNCHANGED <<saga, next, effects, todo>>

\* The catch block: failStep, compensate, the compensations, markCompensated.
Fail ==
    /\ client = "fail"
    /\ ReadsSaga
    /\ Save(FailStep(saga))
    /\ client' = "compensate"
    /\ UNCHANGED <<next, effects, todo>>

StartCompensation ==
    /\ client = "compensate"
    /\ ReadsSaga
    /\ todo' = CompensationSteps(saga)
    /\ Save(Compensate(saga))
    /\ client' = "undo"
    /\ UNCHANGED <<next, effects>>

UndoStep ==
    /\ client = "undo"
    /\ todo # {}
    /\ LET i == NextCompensation(todo)
       IN /\ todo' = todo \ {i}
          /\ effects' = IF i \in Undoable THEN effects \ {i} ELSE effects
    /\ UNCHANGED <<saga, client, next>>

UndoThrows ==
    /\ UndoFaults
    /\ client = "undo"
    /\ todo \cap Undoable # {}
    /\ client' = "giveUp"
    /\ UNCHANGED <<saga, next, effects, todo>>

Mark ==
    /\ client = "undo"
    /\ todo = {}
    /\ ReadsSaga
    /\ Save(MarkCompensated(saga))
    /\ client' = "rolledBack"
    /\ UNCHANGED <<next, effects, todo>>

CatchThrows ==
    /\ \/ client \in {"fail", "compensate"}
       \/ client = "undo" /\ todo = {}
    /\ ReadsNull
    /\ client' = "giveUp"
    /\ UNCHANGED <<saga, next, effects, todo>>

\* The outer catch: failStep once more, nothing compensated, the error rethrown.
GiveUp ==
    /\ client = "giveUp"
    /\ \/ ReadsSaga /\ Save(FailStep(saga))
       \/ ReadsNull /\ UNCHANGED saga
    /\ client' = "error"
    /\ UNCHANGED <<next, effects, todo>>

\* The hour of TTL runs out, or Redis loses its memory.
Expire ==
    /\ StoreFaults
    /\ saga # NoSaga
    /\ saga' = NoSaga
    /\ UNCHANGED <<client, next, effects, todo>>

Crash ==
    /\ Crashes
    /\ client \in Running
    /\ client' = "crashed"
    /\ UNCHANGED <<saga, next, effects, todo>>

Catch == Fail \/ StartCompensation \/ UndoStep \/ UndoThrows \/ Mark
            \/ CatchThrows \/ GiveUp

Call == Create \/ ActSucceeds \/ ActFails \/ Record \/ RecordThrows \/ Catch

Next == Call \/ Expire \/ Crash

Spec == Init /\ [][Next]_vars

\* The process runs on: no step of registerWithCity waits for ever.
FairSpec == Spec /\ WF_vars(Call)
-------------------------------------------------------------------------------
\* A document says COMPLETED only when every step's action stands, and the
\* caller reports success only then: true however Redis misbehaves, because
\* executeStep advances one recorded step per action that succeeded.
CompletedMeansAllApplied ==
    (client = "done" \/ (saga # NoSaga /\ saga.status = "COMPLETED")) => effects = Step

\* With a store that keeps what it is given: a caller told that the saga was
\* rolled back finds none of the compensable steps applied any more.
RolledBackIsClean ==
    client = "rolledBack" => effects \cap Compensable \cap Undoable \subseteq Ambiguous

\* A step the document records as COMPLETED took effect and still stands: the
\* record never runs ahead of the services it describes.
RecordedStepsStand ==
    saga # NoSaga => \A i \in Step : saga.steps[i] = "COMPLETED" => i \in effects

\* Compensations run backwards: no action is undone while the action of a
\* later step that has still to be compensated stands.
UndoneInReverse ==
    [][\A i \in effects \ effects' : \A j \in todo \cap Undoable : j > i => j \notin effects]_vars

\* Why CompletedMeansAllApplied holds: the caller applies its steps in order, and
\* the document, which may lag behind the caller, is never ahead of it.
ProgressInv ==
    /\ client = "start" => next = 0 /\ saga = NoSaga
    /\ client \in {"act", "record"} =>
          /\ \A i \in Step : i < next => i \in effects
          /\ saga # NoSaga => saga.currentStep <= next
    /\ client = "record" => next \in effects
    /\ client = "done" => effects = Step
    /\ saga # NoSaga /\ saga.status = "COMPLETED" => client = "done"

\* Document and caller agree on the steps done while nothing has failed yet.
InStep ==
    /\ saga # NoSaga
    /\ saga.currentStep = next
    /\ \A i \in Step : saga.steps[i] = (IF i < next THEN "COMPLETED" ELSE "PENDING")

\* Why a rollback is clean when Redis keeps what it is given: what is still to
\* be undone is on the caller's list, and an action nobody recorded is Ambiguous.
RollbackInv ==
    /\ client = "start" => next = 0 /\ effects = {}
    /\ client \in {"act", "record"} => InStep
    /\ client = "act" => effects = {i \in Step : i < next}
    /\ client = "record" => effects = {i \in Step : i <= next}
    /\ client \in {"fail", "compensate"} =>
          /\ saga # NoSaga
          /\ saga.currentStep = next
          /\ \A i \in Step : i < next => i \in effects /\ saga.steps[i] = "COMPLETED"
          /\ \A i \in effects : i < next \/ (i = next /\ i \in Ambiguous)
          /\ \A i \in Step : saga.steps[i] = "COMPLETED" => i < next
    /\ client = "undo" =>
          /\ saga # NoSaga
          /\ effects \cap Compensable \cap Undoable \subseteq todo \cup Ambiguous
          /\ \A i \in Step : saga.steps[i] = "COMPLETED" => i \in effects \ todo
    /\ RecordedStepsStand /\ RolledBackIsClean

\* The conditions under which a saga is all or nothing, and why it is.
Reliable ==
    /\ ~StoreFaults /\ ~UndoFaults
    /\ Ambiguous = {}
    /\ \A i \in Step : i < NSteps - 1 => i \in Compensable /\ i \in Undoable

AtomicInv ==
    /\ client = "undo" => NSteps - 1 \notin effects
    /\ client \in {"giveUp", "error", "rolledBack"} => effects = {}

\* Every call ends: success, a completed rollback or an error.
CallEnds == <>(client \in Finished)

\* The reliable saga is atomic: it implements "all or nothing".
Atomic == INSTANCE AtomicSaga WITH
             Steps <- Step,
             outcome <- CASE client = "done" -> "committed"
                          [] client \in {"rolledBack", "error"} -> "aborted"
                          [] OTHER -> "running"
ImplementsAtomicSaga == Atomic!Spec
===============================================================================
