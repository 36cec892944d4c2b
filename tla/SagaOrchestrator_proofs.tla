------------------------ MODULE SagaOrchestrator_proofs ------------------------
(***************************************************************************)
(* What holds of a saga for every number of steps, every choice of         *)
(* compensable steps and every fault the constants allow.                  *)
(***************************************************************************)
EXTENDS SagaOrchestrator, WellFoundedInduction, TLAPS

USE SagaAssumption, OrchestratorAssumption

\* Every method of the orchestrator turns a document into a document.
LEMMA RecordOperators ==
    ASSUME NEW s \in SagaRecord
    PROVE  /\ ExecuteStep(s) \in SagaRecord
           /\ FailStep(s) \in SagaRecord
           /\ Compensate(s) \in SagaRecord
           /\ MarkCompensated(s) \in SagaRecord
<1>1. \A st \in SagaStatus : MarkCurrent(s, st) \in [Step -> SagaStatus]
  BY DEF SagaRecord, MarkCurrent
<1>2. ExecuteStep(s) \in SagaRecord
  BY <1>1 DEF SagaRecord, ExecuteStep, SagaStatus
<1>3. FailStep(s) \in SagaRecord
  BY <1>1 DEF SagaRecord, FailStep, SagaStatus
<1>4. Compensate(s) \in SagaRecord
  BY DEF SagaRecord, Compensate, SagaStatus
<1>5. MarkCompensated(s) \in SagaRecord
  BY DEF SagaRecord, MarkCompensated, SagaStatus
<1>6. QED
  BY <1>2, <1>3, <1>4, <1>5

\* Field by field, what each method writes and what it keeps.
LEMMA RecordFields ==
    ASSUME NEW s \in SagaRecord
    PROVE  /\ ExecuteStep(s).currentStep = s.currentStep + 1
           /\ ExecuteStep(s).status =
                 IF s.currentStep + 1 >= NSteps THEN "COMPLETED" ELSE s.status
           /\ \A i \in Step : ExecuteStep(s).steps[i] =
                 IF i = s.currentStep THEN "COMPLETED" ELSE s.steps[i]
           /\ FailStep(s).currentStep = s.currentStep
           /\ FailStep(s).status = "COMPENSATING"
           /\ \A i \in Step : FailStep(s).steps[i] =
                 IF i = s.currentStep THEN "FAILED" ELSE s.steps[i]
           /\ Compensate(s).currentStep = s.currentStep
           /\ Compensate(s).status = s.status
           /\ \A i \in Step : Compensate(s).steps[i] =
                 IF i \in CompensationSteps(s) THEN "COMPENSATING" ELSE s.steps[i]
           /\ MarkCompensated(s).status = "COMPENSATED"
           /\ \A i \in Step : MarkCompensated(s).steps[i] =
                 IF s.steps[i] = "COMPENSATING" THEN "COMPENSATED" ELSE s.steps[i]
<1>1. s = [steps |-> s.steps, currentStep |-> s.currentStep, status |-> s.status]
  BY DEF SagaRecord
<1>2. QED
  BY <1>1 DEF ExecuteStep, FailStep, Compensate, MarkCompensated, MarkCurrent, LastStepDone

LEMMA NewSagaIsRecord == NewSaga \in SagaRecord
BY DEF NewSaga, SagaRecord, SagaStatus

LEMMA InitTypeOK == Init => TypeOK
BY DEF Init, TypeOK, Client, Running, Step

LEMMA StepTypeOK == TypeOK /\ [Next]_vars => TypeOK'
<1> SUFFICES ASSUME TypeOK, [Next]_vars
             PROVE  TypeOK'
  OBVIOUS
<1> USE DEF TypeOK, Client, Running, Finished
<1>1. CASE Create
  BY <1>1, NewSagaIsRecord DEF Create, Save
<1>2. CASE ActSucceeds
  BY <1>2 DEF ActSucceeds
<1>3. CASE ActFails
  BY <1>3 DEF ActFails, OnError
<1>4. CASE Record
  <2>1. saga' \in SagaRecord \cup {NoSaga}
    BY <1>4, RecordOperators DEF Record, ReadsSaga, Save
  <2>2. next' \in Step /\ client' \in Client
    BY <1>4 DEF Record, OnError, Step
  <2>3. QED
    BY <1>4, <2>1, <2>2 DEF Record
<1>5. CASE RecordThrows
  BY <1>5 DEF RecordThrows, OnError
<1>6. CASE Fail
  BY <1>6, RecordOperators DEF Fail, ReadsSaga, Save
<1>7. CASE StartCompensation
  BY <1>7, RecordOperators DEF StartCompensation, ReadsSaga, Save, CompensationSteps
<1>8. CASE UndoStep
  BY <1>8 DEF UndoStep
<1>9. CASE UndoThrows
  BY <1>9 DEF UndoThrows
<1>10. CASE Mark
  BY <1>10, RecordOperators DEF Mark, ReadsSaga, Save
<1>11. CASE CatchThrows
  BY <1>11 DEF CatchThrows
<1>12. CASE GiveUp
  BY <1>12, RecordOperators DEF GiveUp, ReadsSaga, Save
<1>13. CASE Expire
  BY <1>13 DEF Expire
<1>14. CASE Crash
  BY <1>14 DEF Crash
<1>15. CASE UNCHANGED vars
  BY <1>15 DEF vars
<1>16. QED
  BY <1>1, <1>2, <1>3, <1>4, <1>5, <1>6, <1>7, <1>8, <1>9, <1>10, <1>11,
     <1>12, <1>13, <1>14, <1>15 DEF Next, Call, Catch

\* The variables keep their types in every behaviour.
THEOREM TypeCorrect == Spec => []TypeOK
<1>1. QED
  BY InitTypeOK, StepTypeOK, PTL DEF Spec
-------------------------------------------------------------------------------
\* compensate() hands its steps out from the last one: as long as something is
\* left to compensate, the next compensation is the largest of what is left.
LEMMA NextCompensationIsLast ==
    ASSUME NEW T, T \subseteq Step, T # {}
    PROVE  NextCompensation(T) \in T /\ \A j \in T : j <= NextCompensation(T)
<1> DEFINE D == {NSteps - 1 - i : i \in T}
<1> DEFINE R == {ss \in Nat \X Nat : ss[1] < ss[2]}
<1>1. D \subseteq Nat /\ D # {}
  <2>1. D \subseteq Nat
    BY DEF Step
  <2>2. PICK i \in T : TRUE
    OBVIOUS
  <2>3. NSteps - 1 - i \in D
    BY <2>2
  <2>4. QED
    BY <2>1, <2>3
<1>2. IsWellFoundedOn(R, Nat)
  BY NatLessThanWellFounded DEF OpToRel
<1>3. PICK d \in D : \A e \in D : ~ (<<e, d>> \in R)
  <2> HIDE DEF R, D
  <2>1. QED
    BY <1>1, <1>2, WFMin
<1>4. \A e \in D : d <= e
  <2> SUFFICES ASSUME NEW e \in D
               PROVE  d <= e
    OBVIOUS
  <2>1. d \in Nat /\ e \in Nat
    BY <1>1
  <2>2. ~ (e < d)
    <3> HIDE DEF D
    <3>1. <<e, d>> \notin R
      BY <1>3
    <3>2. QED
      BY <2>1, <3>1
  <2>3. QED
    BY <2>1, <2>2
<1>5. PICK m \in T : d = NSteps - 1 - m
  BY <1>3
<1>6. \A j \in T : j <= m
  BY <1>4, <1>5 DEF Step
<1>7. QED
  BY <1>6 DEF NextCompensation
-------------------------------------------------------------------------------
\* A saga is COMPLETED, and its caller successful, only when every step's action
\* stands: for every number of steps and under every fault of the constants.
LEMMA StepProgressInv == TypeOK /\ ProgressInv /\ [Next]_vars => ProgressInv'
<1> SUFFICES ASSUME TypeOK, ProgressInv, [Next]_vars
             PROVE  ProgressInv'
  OBVIOUS
<1> USE DEF ProgressInv, TypeOK, Client, Running, Finished, SagaRecord, SagaStatus, Step
<1>1. CASE Create
  BY <1>1 DEF Create, Save, NewSaga
<1>2. CASE ActSucceeds
  BY <1>2 DEF ActSucceeds
<1>3. CASE ActFails
  BY <1>3 DEF ActFails, OnError
<1>4. CASE Record
  <2>1. saga.currentStep <= next /\ saga \in SagaRecord /\ next \in effects
    BY <1>4 DEF Record, ReadsSaga
  <2>2. saga' # NoSaga => saga' \in {saga, ExecuteStep(saga)}
    BY <1>4 DEF Record, Save
  <2>3. CASE next = NSteps - 1
    <3>1. effects = Step
      <4>1. \A i \in Step : i \in effects
        BY <1>4, <2>1, <2>3 DEF Record
      <4>2. QED
        BY <4>1
    <3>2. QED
      BY <1>4, <2>3, <3>1 DEF Record
  <2>4. CASE next # NSteps - 1 /\ LastStepDone(saga)
    <3>1. saga.currentStep \in Nat /\ next \in Nat /\ next < NSteps - 1
      BY <2>1, <2>4
    <3>2. saga.currentStep + 1 >= NSteps
      BY <2>4 DEF LastStepDone
    <3>3. FALSE
      BY <2>1, <3>1, <3>2
    <3>4. QED
      BY <3>3
  <2>5. CASE next # NSteps - 1 /\ ~ LastStepDone(saga)
    <3>1. client' = "act" /\ next' = next + 1 /\ effects' = effects
      BY <1>4, <2>5 DEF Record
    <3>2. saga' # NoSaga => saga'.currentStep <= next + 1 /\ saga'.status = saga.status
      BY <2>1, <2>2, <2>5, RecordFields DEF LastStepDone
    <3>3. \A i \in Step : i < next + 1 => i \in effects
      BY <1>4, <2>1 DEF Record
    <3>4. saga # NoSaga => saga.status # "COMPLETED"
      BY <1>4 DEF Record
    <3>5. saga # NoSaga
      BY <1>4 DEF Record, ReadsSaga
    <3>6. QED
      BY <3>1, <3>2, <3>3, <3>4, <3>5
  <2>6. QED
    BY <2>3, <2>4, <2>5
<1>5. CASE RecordThrows
  BY <1>5 DEF RecordThrows, OnError
<1>6. CASE Fail
  BY <1>6, RecordFields DEF Fail, Save, ReadsSaga
<1>7. CASE StartCompensation
  BY <1>7, RecordFields DEF StartCompensation, Save, ReadsSaga
<1>8. CASE UndoStep
  BY <1>8 DEF UndoStep
<1>9. CASE UndoThrows
  BY <1>9 DEF UndoThrows
<1>10. CASE Mark
  BY <1>10, RecordFields DEF Mark, Save, ReadsSaga
<1>11. CASE CatchThrows
  BY <1>11 DEF CatchThrows
<1>12. CASE GiveUp
  BY <1>12, RecordFields DEF GiveUp, Save, ReadsSaga
<1>13. CASE Expire
  BY <1>13 DEF Expire
<1>14. CASE Crash
  BY <1>14 DEF Crash
<1>15. CASE UNCHANGED vars
  BY <1>15 DEF vars
<1>16. QED
  BY <1>1, <1>2, <1>3, <1>4, <1>5, <1>6, <1>7, <1>8, <1>9, <1>10, <1>11, <1>12, <1>13, <1>14, <1>15
     DEF Next, Call, Catch

THEOREM CompletedIsApplied == Spec => []CompletedMeansAllApplied
<1>1. Init => ProgressInv
  BY DEF Init, ProgressInv
<1>2. TypeOK /\ ProgressInv => CompletedMeansAllApplied
  BY DEF ProgressInv, CompletedMeansAllApplied
<1>3. QED
  BY <1>1, <1>2, StepProgressInv, TypeCorrect, PTL DEF Spec
-------------------------------------------------------------------------------
\* Compensations run from the last step to the first, whatever was lost before.
THEOREM CompensationsRunBackwards == Spec => UndoneInReverse
<1> DEFINE P == \A i \in effects \ effects' :
                   \A j \in todo \cap Undoable : j > i => j \notin effects
<1>1. TypeOK /\ [Next]_vars => [P]_vars
  <2> SUFFICES ASSUME TypeOK, Next
               PROVE  P
    BY DEF TypeOK
  <2>1. CASE UndoStep
    <3>1. todo \subseteq Step /\ todo # {}
      BY <2>1 DEF TypeOK, UndoStep
    <3>2. \A i \in effects \ effects' : i = NextCompensation(todo)
      BY <2>1 DEF UndoStep
    <3>3. \A j \in todo : j <= NextCompensation(todo)
      BY <3>1, NextCompensationIsLast
    <3>4. NextCompensation(todo) \in Step
      BY <3>1, NextCompensationIsLast
    <3>5. QED
      BY <3>1, <3>2, <3>3, <3>4 DEF Step
  <2>2. CASE ~ UndoStep
    <3>1. effects \subseteq effects'
      BY <2>2 DEF Next, Call, Catch, Create, ActSucceeds, ActFails, Record, RecordThrows,
         Fail, StartCompensation, UndoThrows, Mark, CatchThrows, GiveUp, Expire, Crash
    <3>2. QED
      BY <3>1
  <2>3. QED
    BY <2>1, <2>2
<1>2. QED
  BY <1>1, TypeCorrect, PTL DEF Spec, UndoneInReverse
-------------------------------------------------------------------------------
\* With a store that keeps what it is given, RollbackInv is inductive.
LEMMA StepRollbackInv ==
    ~StoreFaults /\ TypeOK /\ RollbackInv /\ [Next]_vars => RollbackInv'
<1> SUFFICES ASSUME ~StoreFaults, TypeOK, RollbackInv, [Next]_vars
             PROVE  RollbackInv'
  OBVIOUS
<1> USE DEF RollbackInv, RecordedStepsStand, RolledBackIsClean, InStep, TypeOK, Client,
        Running, Finished, SagaRecord, SagaStatus
<1>1. CASE Create
  <2>1. saga' = NewSaga /\ effects' = effects /\ next' = next /\ client' = "act"
    BY <1>1 DEF Create, Save
  <2>2. next = 0 /\ effects = {}
    BY <1>1 DEF Create
  <2>3. NewSaga \in SagaRecord
    BY NewSagaIsRecord
  <2>4. QED
    BY <2>1, <2>2, <2>3 DEF NewSaga, Step
<1>2. CASE ActSucceeds
  <2>1. effects' = {i \in Step : i <= next}
    BY <1>2 DEF ActSucceeds, Step
  <2>2. QED
    BY <1>2, <2>1 DEF ActSucceeds
<1>3. CASE ActFails
  BY <1>3 DEF ActFails, OnError, RollsBack, Step
<1>4. CASE Record
  <2>1. saga.currentStep = next /\ saga \in SagaRecord /\ effects = {i \in Step : i <= next}
    BY <1>4 DEF Record
  <2>2. saga' = ExecuteStep(saga) /\ effects' = effects
    BY <1>4 DEF Record, Save
  <2>3. \A i \in Step : saga'.steps[i] = IF i <= next THEN "COMPLETED" ELSE "PENDING"
    <3>1. \A i \in Step : saga.steps[i] = IF i < next THEN "COMPLETED" ELSE "PENDING"
      BY <1>4 DEF Record
    <3>2. \A i \in Step : saga'.steps[i] = IF i = next THEN "COMPLETED" ELSE saga.steps[i]
      BY <2>1, <2>2, RecordFields
    <3>3. QED
      BY <3>1, <3>2 DEF Step
  <2>4. CASE next = NSteps - 1
    BY <1>4, <2>1, <2>2, <2>3, <2>4 DEF Record, Step
  <2>5. CASE next # NSteps - 1
    <3>1. ~ LastStepDone(saga)
      BY <2>1, <2>5 DEF LastStepDone, Step
    <3>2. client' = "act" /\ next' = next + 1
      BY <1>4, <2>5, <3>1 DEF Record
    <3>3. effects' = {i \in Step : i < next'}
      BY <2>1, <2>2, <3>2 DEF Step
    <3>4. InStep'
      BY <2>1, <2>2, <2>3, <3>2, RecordFields, RecordOperators DEF Step
    <3>5. RecordedStepsStand'
      BY <2>3, <3>2, <3>3 DEF Step
    <3>6. QED
      BY <3>2, <3>3, <3>4, <3>5
  <2>6. QED
    BY <2>4, <2>5
<1>5. CASE RecordThrows
  BY <1>5 DEF RecordThrows, ReadsNull
<1>6. CASE Fail
  <2>1. saga' = FailStep(saga) /\ saga \in SagaRecord /\ client' = "compensate"
    BY <1>6 DEF Fail, Save
  <2>2. saga' \in SagaRecord
    BY <2>1, RecordOperators
  <2>3. QED
    BY <1>6, <2>1, <2>2, RecordFields DEF Fail, Step
<1>7. CASE StartCompensation
  <2>1. saga' = Compensate(saga) /\ saga \in SagaRecord /\ client' = "undo"
    BY <1>7 DEF StartCompensation, Save
  <2>2. saga' \in SagaRecord /\ saga' # NoSaga
    BY <2>1, RecordOperators
  <2>3. todo' = CompensationSteps(saga) /\ effects' = effects
    BY <1>7 DEF StartCompensation
  <2>4. effects \cap Compensable \cap Undoable \subseteq todo' \cup Ambiguous
    BY <1>7, <2>3 DEF StartCompensation, CompensationSteps, Step
  <2>5. \A i \in Step : saga'.steps[i] = "COMPLETED" => i \in effects \ todo'
    BY <1>7, <2>1, <2>3, RecordFields DEF StartCompensation
  <2>6. QED
    BY <2>1, <2>2, <2>3, <2>4, <2>5
<1>8. CASE UndoStep
  <2>1. NextCompensation(todo) \in todo
    BY <1>8, NextCompensationIsLast DEF UndoStep
  <2>2. QED
    BY <1>8, <2>1 DEF UndoStep
<1>9. CASE UndoThrows
  BY <1>9 DEF UndoThrows
<1>10. CASE Mark
  <2>1. saga' = MarkCompensated(saga) /\ saga \in SagaRecord /\ client' = "rolledBack"
    BY <1>10 DEF Mark, Save
  <2>2. \A i \in Step : saga'.steps[i] = "COMPLETED" => saga.steps[i] = "COMPLETED"
    BY <2>1, RecordFields
  <2>3. QED
    BY <1>10, <2>1, <2>2 DEF Mark
<1>11. CASE CatchThrows
  BY <1>11 DEF CatchThrows, ReadsNull
<1>12. CASE GiveUp
  <2>1. client' = "error" /\ effects' = effects /\ saga' \in {saga, FailStep(saga)}
    BY <1>12 DEF GiveUp, Save
  <2>2. saga # NoSaga /\ saga' = FailStep(saga) =>
           \A i \in Step : saga'.steps[i] = "COMPLETED" => saga.steps[i] = "COMPLETED"
    BY RecordFields
  <2>3. RecordedStepsStand'
    <3> SUFFICES ASSUME saga' # NoSaga, NEW i \in Step, saga'.steps[i] = "COMPLETED"
                 PROVE  i \in effects
      BY <2>1
    <3>1. saga # NoSaga
      BY <1>12 DEF GiveUp, Save, ReadsSaga
    <3>2. saga.steps[i] = "COMPLETED"
      BY <2>1, <2>2, <3>1
    <3>3. QED
      BY <3>1, <3>2
  <2>4. QED
    BY <2>1, <2>3
<1>13. CASE Expire
  BY <1>13 DEF Expire
<1>14. CASE Crash
  BY <1>14 DEF Crash
<1>15. CASE UNCHANGED vars
  BY <1>15 DEF vars
<1>16. QED
  BY <1>1, <1>2, <1>3, <1>4, <1>5, <1>6, <1>7, <1>8, <1>9, <1>10, <1>11,
     <1>12, <1>13, <1>14, <1>15 DEF Next, Call, Catch

\* A caller told of a rollback finds every action undone that the saga can undo,
\* unless the action stands behind a failure that hid it (Ambiguous).
THEOREM RollbackIsClean == ASSUME ~StoreFaults PROVE Spec => []RolledBackIsClean
<1>1. Init => RollbackInv
  BY DEF Init, RollbackInv, RecordedStepsStand, RolledBackIsClean
<1>2. RollbackInv => RolledBackIsClean
  BY DEF RollbackInv
<1>3. QED
  BY <1>1, <1>2, StepRollbackInv, TypeCorrect, PTL DEF Spec

\* No document records as COMPLETED a step whose action does not stand.
THEOREM RecordIsTrue == ASSUME ~StoreFaults PROVE Spec => []RecordedStepsStand
<1>1. Init => RollbackInv
  BY DEF Init, RollbackInv, RecordedStepsStand, RolledBackIsClean
<1>2. RollbackInv => RecordedStepsStand
  BY DEF RollbackInv
<1>3. QED
  BY <1>1, <1>2, StepRollbackInv, TypeCorrect, PTL DEF Spec
-------------------------------------------------------------------------------
LEMMA StepAtomicInv ==
    Reliable /\ TypeOK /\ RollbackInv /\ AtomicInv /\ [Next]_vars => AtomicInv'
<1> SUFFICES ASSUME Reliable, TypeOK, RollbackInv, AtomicInv, [Next]_vars
             PROVE  AtomicInv'
  OBVIOUS
<1> USE DEF Reliable, RollbackInv, InStep, AtomicInv, TypeOK, Client, Running, Finished
<1>1. CASE Create \/ ActSucceeds \/ Fail \/ UndoThrows \/ CatchThrows \/ RecordThrows
  BY <1>1 DEF Create, ActSucceeds, Fail, UndoThrows, CatchThrows, RecordThrows, ReadsNull
<1>2. CASE ActFails
  BY <1>2 DEF ActFails, OnError, RollsBack, Step
<1>3. CASE Record
  <2>1. next # NSteps - 1 => ~ LastStepDone(saga)
    BY <1>3 DEF Record, LastStepDone, Step
  <2>2. client' \in {"done", "act"}
    BY <1>3, <2>1 DEF Record
  <2>3. QED
    BY <2>2
<1>4. CASE StartCompensation
  BY <1>4 DEF StartCompensation, Step
<1>5. CASE UndoStep
  BY <1>5 DEF UndoStep
<1>6. CASE Mark
  <2>1. effects \cap Compensable \cap Undoable = {} /\ NSteps - 1 \notin effects
    BY <1>6 DEF Mark
  <2>2. effects = {}
    BY <2>1 DEF Step
  <2>3. QED
    BY <1>6, <2>2 DEF Mark
<1>7. CASE GiveUp
  BY <1>7 DEF GiveUp
<1>8. CASE Expire \/ Crash
  BY <1>8 DEF Expire, Crash
<1>9. CASE UNCHANGED vars
  BY <1>9 DEF vars
<1>10. QED
  BY <1>1, <1>2, <1>3, <1>4, <1>5, <1>6, <1>7, <1>8, <1>9 DEF Next, Call, Catch

\* With a reliable store, failures that tell the truth and compensations that
\* work, registerWithCity's use of the orchestrator is all or nothing.
THEOREM SagaIsAtomic == ASSUME Reliable PROVE Spec => ImplementsAtomicSaga
<1>1. Init => Atomic!Init
  BY DEF Init, Atomic!Init
<1>2. Init => RollbackInv /\ AtomicInv /\ ProgressInv
  BY DEF Init, RollbackInv, RecordedStepsStand, RolledBackIsClean, AtomicInv, ProgressInv
<1>3. ~StoreFaults
  BY DEF Reliable
<1>4. TypeOK /\ ProgressInv /\ ProgressInv' /\ AtomicInv /\ AtomicInv' /\ [Next]_vars
         => [Atomic!Next]_(Atomic!vars)
  <2> SUFFICES ASSUME TypeOK, ProgressInv, ProgressInv', AtomicInv, AtomicInv', [Next]_vars
               PROVE  [Atomic!Next]_(Atomic!vars)
    OBVIOUS
  <2> USE DEF Atomic!Next, Atomic!vars, ProgressInv, AtomicInv, Reliable
  <2>1. CASE ActSucceeds
    BY <2>1 DEF ActSucceeds, Atomic!Apply, TypeOK
  <2>2. CASE ActFails
    BY <2>2 DEF ActFails, OnError, Atomic!Apply
  <2>3. CASE UndoStep
    <3>1. client' = client /\ client = "undo"
      BY <2>3 DEF UndoStep
    <3>2. CASE effects' = effects
      BY <3>1, <3>2
    <3>3. CASE effects' # effects
      BY <2>3, <3>1, <3>3 DEF UndoStep, Atomic!Undo
    <3>4. QED
      BY <3>2, <3>3
  <2>4. CASE Record
    <3>1. client = "record" /\ effects' = effects
      BY <2>4 DEF Record
    <3>2. CASE client' = "done"
      BY <3>1, <3>2 DEF Atomic!Commit
    <3>3. CASE client' # "done"
      BY <2>4, <3>1, <3>3 DEF Record, OnError
    <3>4. QED
      BY <3>2, <3>3
  <2>5. CASE Mark \/ GiveUp
    BY <2>5 DEF Mark, GiveUp, Atomic!Abort
  <2>6. CASE Create \/ RecordThrows \/ Fail \/ StartCompensation \/ UndoThrows
                \/ CatchThrows \/ Expire \/ Crash
    BY <2>6 DEF Create, RecordThrows, OnError, Fail, StartCompensation, UndoThrows,
         CatchThrows, Expire, Crash, Running
  <2>7. CASE UNCHANGED vars
    BY <2>7 DEF vars
  <2>8. QED
    BY <2>1, <2>2, <2>3, <2>4, <2>5, <2>6, <2>7 DEF Next, Call, Catch
<1>5. QED
  BY <1>1, <1>2, <1>3, <1>4, StepAtomicInv, StepRollbackInv, StepProgressInv,
     TypeCorrect, PTL DEF Spec, ImplementsAtomicSaga, Atomic!Spec
===============================================================================
