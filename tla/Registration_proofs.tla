-------------------------- MODULE Registration_proofs --------------------------
(***************************************************************************)
(* What holds of register() for every set of concurrent requests, every    *)
(* assignment of e-mails and cities to them and, unless a theorem says     *)
(* otherwise, every fault.                                                 *)
(***************************************************************************)
EXTENDS RegistrationSaga, TLAPS

USE RegistrationAssumption

\* The saga operators on a two-step document, with NSteps = 2.
LEMMA TwoStepRecords ==
    /\ Saga!NewSaga \in Saga!SagaRecord
    /\ \A s \in Saga!SagaRecord :
          /\ Saga!ExecuteStep(s) \in Saga!SagaRecord
          /\ Saga!FailStep(s) \in Saga!SagaRecord
          /\ Saga!Compensate(s) \in Saga!SagaRecord
          /\ Saga!MarkCompensated(s) \in Saga!SagaRecord
<1>1. Saga!NewSaga \in Saga!SagaRecord
  BY DEF Saga!NewSaga, Saga!SagaRecord, Saga!SagaStatus
<1>2. ASSUME NEW s \in Saga!SagaRecord
      PROVE  /\ Saga!ExecuteStep(s) \in Saga!SagaRecord
             /\ Saga!FailStep(s) \in Saga!SagaRecord
             /\ Saga!Compensate(s) \in Saga!SagaRecord
             /\ Saga!MarkCompensated(s) \in Saga!SagaRecord
  <2>1. \A st \in Saga!SagaStatus : Saga!MarkCurrent(s, st) \in [Saga!Step -> Saga!SagaStatus]
    BY DEF Saga!SagaRecord, Saga!MarkCurrent
  <2>2. Saga!ExecuteStep(s) \in Saga!SagaRecord
    BY <2>1 DEF Saga!SagaRecord, Saga!ExecuteStep, Saga!SagaStatus
  <2>3. Saga!FailStep(s) \in Saga!SagaRecord
    BY <2>1 DEF Saga!SagaRecord, Saga!FailStep, Saga!SagaStatus
  <2>4. Saga!Compensate(s) \in Saga!SagaRecord
    BY DEF Saga!SagaRecord, Saga!Compensate, Saga!SagaStatus
  <2>5. Saga!MarkCompensated(s) \in Saga!SagaRecord
    BY DEF Saga!SagaRecord, Saga!MarkCompensated, Saga!SagaStatus
  <2>6. QED
    BY <2>2, <2>3, <2>4, <2>5
<1>3. QED
  BY <1>1, <1>2

LEMMA StepTypeOK == TypeOK /\ [Next]_vars => TypeOK'
<1> SUFFICES ASSUME TypeOK, [Next]_vars
             PROVE  TypeOK'
  OBVIOUS
<1> USE DEF TypeOK, Running, Answered, Goto, Suffer
<1>1. ASSUME NEW r \in Request, Handler(r)
      PROVE  TypeOK'
  <2>1. CASE CheckEmail(r)
    BY <2>1 DEF CheckEmail
  <2>2. CASE CreateSaga(r)
    BY <2>2, TwoStepRecords DEF CreateSaga, Save
  <2>3. CASE CreateUser(r)
    BY <2>3 DEF CreateUser
  <2>4. CASE CreateUserRefused(r)
    BY <2>4 DEF CreateUserRefused
  <2>5. CASE RecordUser(r)
    BY <2>5, TwoStepRecords DEF RecordUser, Save, ReadsSaga
  <2>6. CASE CallCore(r)
    BY <2>6 DEF CallCore
  <2>7. CASE CityAssigned(r)
    BY <2>7 DEF CityAssigned
  <2>8. CASE CityRefused(r)
    BY <2>8 DEF CityRefused
  <2>9. CASE CallTimesOut(r)
    BY <2>9 DEF CallTimesOut
  <2>10. CASE RecordCity(r)
    BY <2>10, TwoStepRecords DEF RecordCity, Save, ReadsSaga
  <2>11. CASE EmitUserCreated(r)
    BY <2>11 DEF EmitUserCreated
  <2>12. CASE FailStep(r)
    BY <2>12, TwoStepRecords DEF FailStep, Save, ReadsSaga
  <2>13. CASE Compensate(r)
    BY <2>13, TwoStepRecords DEF Compensate, Save, ReadsSaga
  <2>14. CASE DeleteUser(r)
    BY <2>14 DEF DeleteUser
  <2>19. CASE DatabaseFails(r)
    BY <2>19 DEF DatabaseFails, Taken
  <2>15. CASE MarkCompensated(r)
    BY <2>15, TwoStepRecords DEF MarkCompensated, Save, ReadsSaga
  <2>16. CASE SagaNotFound(r)
    BY <2>16 DEF SagaNotFound
  <2>17. CASE GiveUp(r)
    BY <2>17, TwoStepRecords DEF GiveUp, Save, ReadsSaga
  <2>18. QED
    BY <1>1, <2>1, <2>2, <2>3, <2>4, <2>5, <2>6, <2>7, <2>8, <2>9, <2>10, <2>11, <2>12,
       <2>13, <2>14, <2>15, <2>16, <2>17, <2>19
       DEF Handler
<1>2. ASSUME NEW r \in Request, Environment(r)
      PROVE  TypeOK'
  <2>1. CASE CoreHandles(r)
    BY <2>1 DEF CoreHandles
  <2>2. CASE CoreCrashes(r)
    BY <2>2 DEF CoreCrashes
  <2>3. CASE SagaExpires(r)
    BY <2>3 DEF SagaExpires
  <2>4. CASE UsersCrashes(r)
    BY <2>4 DEF UsersCrashes
  <2>5. QED
    BY <1>2, <2>1, <2>2, <2>3, <2>4 DEF Environment
<1>3. CASE UNCHANGED vars
  BY <1>3 DEF vars
<1>4. QED
  BY <1>1, <1>2, <1>3 DEF Next

\* The variables keep their types in every behaviour.
THEOREM TypeCorrect == Spec => []TypeOK
<1>1. Init => TypeOK
  BY DEF Init, TypeOK, Running
<1>2. QED
  BY <1>1, StepTypeOK, PTL DEF Spec
-------------------------------------------------------------------------------
LEMMA StepHandlerInv == TypeOK /\ HandlerInv /\ [Next]_vars => HandlerInv'
<1> SUFFICES ASSUME TypeOK, HandlerInv, [Next]_vars
             PROVE  HandlerInv'
  OBVIOUS
<1> USE DEF TypeOK, HandlerInv, Running, Answered, Goto
<1>1. ASSUME NEW r \in Request, Handler(r)
      PROVE  HandlerInv'
  <2>1. CASE CheckEmail(r)
    BY <2>1 DEF CheckEmail
  <2>2. CASE CreateSaga(r)
    BY <2>2 DEF CreateSaga
  <2>3. CASE CreateUser(r)
    BY <2>3 DEF CreateUser, Taken
  <2>4. CASE CreateUserRefused(r)
    BY <2>4 DEF CreateUserRefused
  <2>5. CASE RecordUser(r)
    BY <2>5 DEF RecordUser
  <2>6. CASE CallCore(r)
    BY <2>6 DEF CallCore
  <2>7. CASE CityAssigned(r)
    BY <2>7 DEF CityAssigned
  <2>8. CASE CityRefused(r)
    BY <2>8 DEF CityRefused
  <2>9. CASE CallTimesOut(r)
    BY <2>9 DEF CallTimesOut
  <2>10. CASE RecordCity(r)
    BY <2>10 DEF RecordCity
  <2>11. CASE EmitUserCreated(r)
    BY <2>11 DEF EmitUserCreated
  <2>12. CASE FailStep(r)
    BY <2>12 DEF FailStep
  <2>13. CASE Compensate(r)
    BY <2>13 DEF Compensate
  <2>14. CASE DeleteUser(r)
    BY <2>14 DEF DeleteUser
  <2>19. CASE DatabaseFails(r)
    BY <2>19 DEF DatabaseFails, Taken
  <2>15. CASE MarkCompensated(r)
    BY <2>15 DEF MarkCompensated
  <2>16. CASE SagaNotFound(r)
    BY <2>16 DEF SagaNotFound
  <2>17. CASE GiveUp(r)
    BY <2>17 DEF GiveUp
  <2>18. QED
    BY <1>1, <2>1, <2>2, <2>3, <2>4, <2>5, <2>6, <2>7, <2>8, <2>9, <2>10, <2>11, <2>12,
       <2>13, <2>14, <2>15, <2>16, <2>17, <2>19
       DEF Handler
<1>2. ASSUME NEW r \in Request, Environment(r)
      PROVE  HandlerInv'
  <2>1. CASE CoreHandles(r)
    BY <2>1 DEF CoreHandles
  <2>2. CASE CoreCrashes(r)
    BY <2>2 DEF CoreCrashes
  <2>3. CASE SagaExpires(r)
    BY <2>3 DEF SagaExpires
  <2>4. CASE UsersCrashes(r)
    BY <2>4 DEF UsersCrashes
  <2>5. QED
    BY <1>2, <2>1, <2>2, <2>3, <2>4 DEF Environment
<1>3. CASE UNCHANGED vars
  BY <1>3 DEF vars
<1>4. QED
  BY <1>1, <1>2, <1>3 DEF Next

LEMMA HandlerInvHolds == Spec => []HandlerInv
<1>1. Init => HandlerInv
  BY DEF Init, HandlerInv
<1>2. QED
  BY <1>1, StepHandlerInv, TypeCorrect, PTL DEF Spec

\* However the requests interleave, one e-mail has one owner.
THEOREM OneOwner == Spec => []OneOwnerPerEmail
<1>1. HandlerInv => OneOwnerPerEmail
  BY DEF HandlerInv, OneOwnerPerEmail
<1>2. QED
  BY <1>1, HandlerInvHolds, PTL

\* Whoever is told "created" is registered, with a city if one was asked for.
THEOREM Registered == Spec => []CreatedMeansRegistered
<1>1. HandlerInv => CreatedMeansRegistered
  BY DEF HandlerInv, CreatedMeansRegistered
<1>2. QED
  BY <1>1, HandlerInvHolds, PTL

\* No consumer of user.created looks for a user that is not there.
THEOREM Announced == Spec => []AnnouncedUsersExist
<1>1. HandlerInv => AnnouncedUsersExist
  BY DEF HandlerInv, AnnouncedUsersExist
<1>2. QED
  BY <1>1, HandlerInvHolds, PTL
-------------------------------------------------------------------------------
\* What the steps of registerWithCity find in the document they left behind.
LEMMA TwoStepFields ==
    /\ Saga!ExecuteStep(Saga!NewSaga).currentStep = 1
    /\ Saga!ExecuteStep(Saga!NewSaga).steps[0] = "COMPLETED"
    /\ Saga!ExecuteStep(Saga!NewSaga).status = "PENDING"
    /\ Saga!NewSaga.status = "PENDING"
    /\ ~ Saga!LastStepDone(Saga!NewSaga)
    /\ \A s \in Saga!SagaRecord :
          /\ Saga!FailStep(s).status = "COMPENSATING"
          /\ Saga!Compensate(s).status = s.status
    /\ \A s \in Saga!SagaRecord :
          s.currentStep = 1 /\ s.steps[0] = "COMPLETED" =>
             /\ Saga!FailStep(s).currentStep = 1
             /\ Saga!FailStep(s).steps[0] = "COMPLETED"
             /\ 0 \in Saga!CompensationSteps(s)
<1>1. 0 \in Saga!Step
  BY DEF Saga!Step
<1>2. \A s \in Saga!SagaRecord :
         s = [steps |-> s.steps, currentStep |-> s.currentStep, status |-> s.status]
  BY DEF Saga!SagaRecord
<1>3. QED
  BY <1>1, <1>2
     DEF Saga!ExecuteStep, Saga!NewSaga, Saga!LastStepDone, Saga!MarkCurrent, Saga!FailStep,
         Saga!Compensate, Saga!CompensationSteps

\* A step leaves alone what it does not change about a request.
LEMMA CleanUnchanged ==
    ASSUME NEW q \in Request, Clean(q), pc'[q] = pc[q], saga'[q] = saga[q],
           fault'[q] = fault[q], q \in users' <=> q \in users
    PROVE  Clean(q)'
BY DEF Clean

\* What a handler's step does to its own request, by what its save does.
LEMMA StepClean ==
    ASSUME TypeOK, HandlerInv, NEW r \in Request, Clean(r), Handler(r)
    PROVE  Clean(r)'
<1> DEFINE Worse == /\ fault'[r] \in {"some", "unrecorded"}
                    /\ fault[r] = "unrecorded" => fault'[r] = "unrecorded"
<1> USE DEF TypeOK, HandlerInv, Clean, Running, Answered, Goto, Suffer
<1>1. CASE CheckEmail(r)
  BY <1>1 DEF CheckEmail
<1>2. CASE CreateSaga(r)
  <2>1. CASE saga'[r] = Saga!NewSaga /\ fault'[r] = fault[r]
    BY <1>2, <2>1, TwoStepRecords, TwoStepFields DEF CreateSaga
  <2>2. CASE saga'[r] = saga[r] /\ Worse
    BY <1>2, <2>2, TwoStepRecords, TwoStepFields DEF CreateSaga
  <2>3. QED
    BY <1>2, <2>1, <2>2 DEF CreateSaga, Save
<1>3. CASE CreateUser(r)
  BY <1>3 DEF CreateUser
<1>4. CASE CreateUserRefused(r)
  BY <1>4, TwoStepRecords, TwoStepFields DEF CreateUserRefused
<1>5. CASE RecordUser(r)
  <2>1. CASE saga'[r] = Saga!ExecuteStep(saga[r]) /\ fault'[r] = fault[r]
    <3>1. saga[r] = Saga!NewSaga /\ saga'[r] = Saga!ExecuteStep(Saga!NewSaga)
      BY <1>5, <2>1 DEF RecordUser, ReadsSaga
    <3>2. pc'[r] = "call" /\ saga'[r] \in Saga!SagaRecord /\ saga'[r] # NoSaga
      BY <1>5, <3>1, TwoStepRecords, TwoStepFields DEF RecordUser
    <3>3. QED
      BY <3>1, <3>2, TwoStepFields
  <2>2. CASE saga'[r] = saga[r] /\ fault'[r] = "unrecorded"
    <3>1. saga[r] = Saga!NewSaga /\ pc'[r] \in {"call", "giveUp"}
      BY <1>5, <2>2 DEF RecordUser, ReadsSaga
    <3>2. saga'[r].status = "PENDING"
      BY <2>2, <3>1, TwoStepFields
    <3>3. QED
      BY <2>2, <3>1, <3>2
  <2>3. QED
    BY <1>5, <2>1, <2>2 DEF RecordUser, Save
<1>6. CASE CallCore(r)
  BY <1>6 DEF CallCore
<1>7. CASE CityAssigned(r)
  BY <1>7 DEF CityAssigned
<1>8. CASE CityRefused(r)
  BY <1>8 DEF CityRefused
<1>9. CASE CallTimesOut(r)
  BY <1>9 DEF CallTimesOut
<1>10. CASE RecordCity(r)
  <2>1. CASE saga'[r] = Saga!ExecuteStep(saga[r]) /\ fault'[r] = fault[r]
    BY <1>10, <2>1, TwoStepRecords, TwoStepFields DEF RecordCity, ReadsSaga
  <2>2. CASE saga'[r] = saga[r] /\ Worse
    BY <1>10, <2>2, TwoStepRecords, TwoStepFields DEF RecordCity, ReadsSaga
  <2>3. QED
    BY <1>10, <2>1, <2>2 DEF RecordCity, Save
<1>11. CASE EmitUserCreated(r)
  BY <1>11 DEF EmitUserCreated
<1>12. CASE FailStep(r)
  <2>1. CASE saga'[r] = Saga!FailStep(saga[r]) /\ fault'[r] = fault[r]
    <3>1. saga[r] \in Saga!SagaRecord /\ pc[r] = "fail" /\ pc'[r] = "compensate"
      BY <1>12 DEF FailStep, ReadsSaga
    <3>2. /\ saga'[r] \in Saga!SagaRecord
          /\ saga'[r] # NoSaga
          /\ saga'[r].status = "COMPENSATING"
      BY <2>1, <3>1, TwoStepRecords, TwoStepFields
    <3>3. fault[r] # "unrecorded" =>
             saga'[r].currentStep = 1 /\ saga'[r].steps[0] = "COMPLETED"
      BY <1>12, <2>1, <3>1, TwoStepFields DEF FailStep, ReadsSaga
    <3>4. QED
      BY <2>1, <3>1, <3>2, <3>3
  <2>2. CASE saga'[r] = saga[r] /\ Worse
    <3>1. pc[r] = "fail" /\ pc'[r] = "compensate" /\ saga[r] # NoSaga
      BY <1>12 DEF FailStep, ReadsSaga
    <3>2. QED
      BY <2>2, <3>1
  <2>3. QED
    BY <1>12, <2>1, <2>2 DEF FailStep, Save
<1>13. CASE Compensate(r)
  <2>1. CASE saga'[r] = Saga!Compensate(saga[r]) /\ fault'[r] = fault[r]
    <3>1. saga[r] \in Saga!SagaRecord /\ pc[r] = "compensate"
      BY <1>13 DEF Compensate, ReadsSaga
    <3>2. pc'[r] = "undo" \/ (pc'[r] = "mark" /\ 0 \notin Saga!CompensationSteps(saga[r]))
      BY <1>13 DEF Compensate
    <3>3. fault[r] # "unrecorded" => pc'[r] = "undo"
      BY <1>13, <3>1, <3>2, TwoStepFields DEF Compensate, ReadsSaga
    <3>4. /\ saga'[r] \in Saga!SagaRecord
          /\ saga'[r] # NoSaga
          /\ saga'[r].status = saga[r].status
          /\ saga[r].status \notin {"COMPLETED", "COMPENSATED"}
      BY <1>13, <2>1, <3>1, TwoStepRecords, TwoStepFields DEF Compensate, ReadsSaga
    <3>5. QED
      BY <2>1, <3>2, <3>3, <3>4
  <2>2. CASE saga'[r] = saga[r] /\ Worse
    <3>1. saga[r] \in Saga!SagaRecord /\ pc[r] = "compensate" /\ saga[r] # NoSaga
      BY <1>13 DEF Compensate, ReadsSaga
    <3>2. pc'[r] = "undo" \/ (pc'[r] = "mark" /\ 0 \notin Saga!CompensationSteps(saga[r]))
      BY <1>13 DEF Compensate
    <3>3. fault[r] # "unrecorded" => pc'[r] = "undo"
      BY <1>13, <3>1, <3>2, TwoStepFields DEF Compensate, ReadsSaga
    <3>4. saga[r].status \notin {"COMPLETED", "COMPENSATED"}
      BY <3>1
    <3>5. QED
      BY <2>2, <3>1, <3>2, <3>3, <3>4
  <2>3. QED
    BY <1>13, <2>1, <2>2 DEF Compensate, Save
<1>14. CASE DeleteUser(r)
  BY <1>14 DEF DeleteUser
<1>15. CASE DatabaseFails(r)
  <2>1. saga'[r] = saga[r] /\ fault'[r] \in {"some", "unrecorded"}
    BY <1>15 DEF DatabaseFails
  <2>2. pc[r] \in {"check", "create", "undo"} /\ pc'[r] \in {"giveUp", "failed"}
    BY <1>15 DEF DatabaseFails
  <2>3. saga[r] # NoSaga => saga[r].status \notin {"COMPLETED", "COMPENSATED"}
    BY <2>2, TwoStepFields
  <2>4. QED
    BY <2>1, <2>2, <2>3
<1>16. CASE MarkCompensated(r)
  <2>1. CASE saga'[r] = Saga!MarkCompensated(saga[r]) /\ fault'[r] = fault[r]
    <3>1. pc[r] = "mark" /\ pc'[r] = "rolledBack"
      BY <1>16 DEF MarkCompensated
    <3>2. users' = users
      BY <1>16 DEF MarkCompensated
    <3>3. QED
      BY <2>1, <3>1, <3>2
  <2>2. CASE saga'[r] = saga[r] /\ Worse
    <3>1. pc[r] = "mark" /\ pc'[r] = "rolledBack" /\ users' = users
      BY <1>16 DEF MarkCompensated
    <3>2. QED
      BY <2>2, <3>1
  <2>3. QED
    BY <1>16, <2>1, <2>2 DEF MarkCompensated, Save
<1>17. CASE SagaNotFound(r)
  BY <1>17, TwoStepRecords, TwoStepFields DEF SagaNotFound, ReadsNull
<1>18. CASE GiveUp(r)
  <2>1. CASE saga[r] # NoSaga /\ saga'[r] = Saga!FailStep(saga[r]) /\ fault'[r] = fault[r]
    <3>1. pc[r] = "giveUp" /\ pc'[r] = "failed" /\ users' = users
      BY <1>18 DEF GiveUp
    <3>2. fault[r] = "none" => saga[r] # NoSaga /\ r \notin users
      BY <3>1
    <3>3. saga[r] # NoSaga =>
             saga[r] \in Saga!SagaRecord /\ saga'[r].status = "COMPENSATING"
      BY <2>1, TwoStepFields
    <3>4. QED
      BY <2>1, <3>1, <3>2, <3>3, TwoStepRecords
  <2>2. CASE saga'[r] = saga[r] /\ Worse
    BY <1>18, <2>2, TwoStepRecords, TwoStepFields DEF GiveUp, ReadsSaga
  <2>3. QED
    BY <1>18, <2>1, <2>2 DEF GiveUp, Save, ReadsSaga, ReadsNull
<1>19. QED
  BY <1>1, <1>2, <1>3, <1>4, <1>5, <1>6, <1>7, <1>8, <1>9, <1>10, <1>11, <1>12, <1>13,
     <1>14, <1>15, <1>16, <1>17, <1>18
     DEF Handler

LEMMA StepCleanInv == TypeOK /\ HandlerInv /\ CleanInv /\ [Next]_vars => CleanInv'
<1> SUFFICES ASSUME TypeOK, HandlerInv, CleanInv, [Next]_vars
             PROVE  CleanInv'
  OBVIOUS
<1>1. ASSUME NEW r \in Request, Handler(r)
      PROVE  CleanInv'
  <2>1. ASSUME NEW q \in Request, q # r
        PROVE  pc'[q] = pc[q] /\ saga'[q] = saga[q] /\ fault'[q] = fault[q]
    BY <1>1, <2>1
       DEF TypeOK, Goto, Suffer, Save, Handler, CheckEmail, CreateSaga, CreateUser,
           CreateUserRefused, RecordUser, CallCore, CityAssigned, CityRefused, CallTimesOut,
           RecordCity, EmitUserCreated, FailStep, Compensate, DeleteUser, DatabaseFails,
           MarkCompensated, SagaNotFound, GiveUp
  <2>2. ASSUME NEW q \in Request, q # r
        PROVE  q \in users' <=> q \in users
    BY <1>1, <2>2
       DEF Handler, CheckEmail, CreateSaga, CreateUser, CreateUserRefused, RecordUser,
           CallCore, CityAssigned, CityRefused, CallTimesOut, RecordCity, EmitUserCreated,
           FailStep, Compensate, DeleteUser, DatabaseFails, MarkCompensated, SagaNotFound,
           GiveUp
  <2>3. QED
    BY <1>1, <2>1, <2>2, StepClean, CleanUnchanged DEF CleanInv
<1>2. ASSUME NEW r \in Request, Environment(r)
      PROVE  CleanInv'
  <2>1. CASE CoreHandles(r)
    BY <2>1 DEF CoreHandles, TypeOK, CleanInv, Clean, Running, Goto, Suffer
  <2>2. CASE CoreCrashes(r)
    BY <2>2 DEF CoreCrashes, TypeOK, CleanInv, Clean, Running, Goto, Suffer
  <2>3. CASE SagaExpires(r)
    BY <2>3 DEF SagaExpires, TypeOK, CleanInv, Clean, Running, Goto, Suffer
  <2>4. CASE UsersCrashes(r)
    BY <2>4 DEF UsersCrashes, TypeOK, CleanInv, Clean, Running, Goto, Suffer
  <2>5. QED
    BY <1>2, <2>1, <2>2, <2>3, <2>4 DEF Environment
<1>3. CASE UNCHANGED vars
  BY <1>3, CleanUnchanged DEF vars, CleanInv
<1>4. QED
  BY <1>1, <1>2, <1>3 DEF Next

\* Under every fault of Redis, of the database and of core: which row a failure
\* can leave behind, and what its document says then.
THEOREM FailureIsClean == Spec => []FailureLeavesNoUser
<1>1. Init => CleanInv
  BY DEF Init, CleanInv, Clean
<1>2. TypeOK /\ CleanInv => FailureLeavesNoUser
  BY DEF TypeOK, CleanInv, Clean, FailureLeavesNoUser
<1>3. QED
  BY <1>1, <1>2, StepCleanInv, HandlerInvHolds, TypeCorrect, PTL DEF Spec

-------------------------------------------------------------------------------
\* When core answers in time, an assignment is there only for a caller that is
\* about to learn of it or has: no call is left in the queue behind its caller.
AssignmentInv ==
    \A r \in Request :
        /\ r \in queue => pc[r] = "waiting" /\ reply[r] = "none" /\ r \notin assigned
        /\ pc[r] = "waiting" /\ r \notin queue => reply[r] # "none"
        /\ reply[r] = "error" => r \notin assigned
        /\ r \in assigned => pc[r] \in {"waiting", "recordCity", "emit", "created"}
        /\ pc[r] \in {"check", "createSaga", "create", "recordUser", "call"} =>
              reply[r] = "none"
        /\ fault[r] # "none" => DatabaseFaults /\ pc[r] \in {"giveUp", "failed"}

LEMMA StepAssignmentInv ==
    ~StoreFaults /\ ~SlowCore /\ ~Crashes /\ TypeOK /\ CleanInv /\ AssignmentInv
      /\ [Next]_vars => AssignmentInv'
<1> SUFFICES ASSUME ~StoreFaults, ~SlowCore, ~Crashes, TypeOK, CleanInv, AssignmentInv,
                    [Next]_vars
             PROVE  AssignmentInv'
  OBVIOUS
<1> USE DEF TypeOK, AssignmentInv, Running, Answered, Goto, Suffer
<1>1. ASSUME NEW r \in Request, Handler(r)
      PROVE  AssignmentInv'
  <2>1. CASE CheckEmail(r)
    BY <2>1 DEF CheckEmail
  <2>2. CASE CreateSaga(r)
    BY <2>2 DEF CreateSaga, Save
  <2>3. CASE CreateUser(r)
    BY <2>3 DEF CreateUser
  <2>4. CASE CreateUserRefused(r)
    BY <2>4 DEF CreateUserRefused
  <2>5. CASE RecordUser(r)
    BY <2>5 DEF RecordUser, Save
  <2>6. CASE CallCore(r)
    BY <2>6 DEF CallCore
  <2>7. CASE CityAssigned(r)
    BY <2>7 DEF CityAssigned
  <2>8. CASE CityRefused(r)
    BY <2>8 DEF CityRefused
  <2>9. CASE CallTimesOut(r)
    BY <2>9 DEF CallTimesOut
  <2>10. CASE RecordCity(r)
    BY <2>10 DEF RecordCity, Save
  <2>11. CASE EmitUserCreated(r)
    BY <2>11 DEF EmitUserCreated
  <2>12. CASE FailStep(r)
    BY <2>12 DEF FailStep, Save
  <2>13. CASE Compensate(r)
    BY <2>13 DEF Compensate, Save
  <2>14. CASE DeleteUser(r)
    BY <2>14 DEF DeleteUser
  <2>19. CASE DatabaseFails(r)
    BY <2>19 DEF DatabaseFails
  <2>15. CASE MarkCompensated(r)
    BY <2>15 DEF MarkCompensated, Save
  <2>16. CASE SagaNotFound(r)
    BY <2>16 DEF SagaNotFound, ReadsNull, CleanInv, Clean
  <2>17. CASE GiveUp(r)
    BY <2>17 DEF GiveUp, Save, ReadsNull, CleanInv, Clean
  <2>18. QED
    BY <1>1, <2>1, <2>2, <2>3, <2>4, <2>5, <2>6, <2>7, <2>8, <2>9, <2>10, <2>11, <2>12,
       <2>13, <2>14, <2>15, <2>16, <2>17, <2>19
       DEF Handler
<1>2. ASSUME NEW r \in Request, Environment(r)
      PROVE  AssignmentInv'
  <2>1. CASE CoreHandles(r)
    BY <2>1 DEF CoreHandles
  <2>2. QED
    BY <1>2, <2>1 DEF Environment, CoreCrashes, SagaExpires, UsersCrashes
<1>3. CASE UNCHANGED vars
  BY <1>3 DEF vars
<1>4. QED
  BY <1>1, <1>2, <1>3 DEF Next

\* With a Redis that keeps what it is given, a core that answers in time and
\* processes that live, no assignment outlives a failed registration: of the
\* faults, only these three leave one behind.
THEOREM NoneOrphaned ==
    ASSUME ~StoreFaults, ~SlowCore, ~Crashes PROVE Spec => []NoOrphanAssignment
<1>1. Init => CleanInv /\ AssignmentInv
  BY DEF Init, CleanInv, Clean, AssignmentInv
<1>2. AssignmentInv => NoOrphanAssignment
  BY DEF AssignmentInv, NoOrphanAssignment
<1>3. QED
  BY <1>1, <1>2, StepCleanInv, StepAssignmentInv, HandlerInvHolds, TypeCorrect, PTL DEF Spec

-------------------------------------------------------------------------------
(* The refinement of SagaOrchestrator, request by request. *)

\* Where the general saga sees a handler that stands at each place.
LEMMA ClientAt ==
    ASSUME NEW r \in Request
    PROVE  /\ pc[r] \in {"check", "createSaga", "duplicate"} => Client(r) = "start"
           /\ pc[r] \in {"create", "call"} => Client(r) = "act"
           /\ pc[r] = "waiting" /\ reply[r] # "ok" => Client(r) = "act"
           /\ pc[r] = "waiting" /\ reply[r] = "ok" => Client(r) = "record"
           /\ pc[r] \in {"recordUser", "recordCity"} => Client(r) = "record"
           /\ pc[r] \in {"undo", "mark"} => Client(r) = "undo"
           /\ pc[r] \in {"emit", "created"} => Client(r) = "done"
           /\ pc[r] = "failed" => Client(r) = "error"
           /\ pc[r] \in {"fail", "compensate", "giveUp", "rolledBack", "crashed"} =>
                 Client(r) = pc[r]
BY DEF Client

\* The same after a step.
LEMMA ClientNext ==
    ASSUME NEW r \in Request
    PROVE  /\ pc'[r] \in {"check", "createSaga", "duplicate"} => Client(r)' = "start"
           /\ pc'[r] \in {"create", "call"} => Client(r)' = "act"
           /\ pc'[r] = "waiting" /\ reply'[r] # "ok" => Client(r)' = "act"
           /\ pc'[r] = "waiting" /\ reply'[r] = "ok" => Client(r)' = "record"
           /\ pc'[r] \in {"recordUser", "recordCity"} => Client(r)' = "record"
           /\ pc'[r] \in {"undo", "mark"} => Client(r)' = "undo"
           /\ pc'[r] \in {"emit", "created"} => Client(r)' = "done"
           /\ pc'[r] = "failed" => Client(r)' = "error"
           /\ pc'[r] \in {"fail", "compensate", "giveUp", "rolledBack", "crashed"} =>
                 Client(r)' = pc'[r]
BY DEF Client

RefineInv == TypeOK /\ HandlerInv /\ CleanInv /\ AssignmentInv

\* A step of another request is none of this one's saga.
LEMMA OthersStutter ==
    ASSUME NEW q \in WithCity, pc'[q] = pc[q], reply'[q] = reply[q], saga'[q] = saga[q],
           q \in users' <=> q \in users, q \in assigned' <=> q \in assigned
    PROVE  UNCHANGED CitySaga(q)!vars
<1>1. Client(q)' = Client(q)
  BY DEF Client
<1>2. QED
  BY <1>1 DEF CitySaga!vars

LEMMA HandlerRefines ==
    ASSUME ~StoreFaults, ~DatabaseFaults, ~SlowCore, RefineInv, NEW q \in WithCity, Handler(q)
    PROVE  [CitySaga(q)!Next]_(CitySaga(q)!vars)
<1> q \in Request
  OBVIOUS
<1> USE DEF RefineInv, TypeOK, Goto, Running, Answered, InFirstStep
<1>0. Clean(q) /\ fault[q] = "none"
  BY DEF CleanInv, AssignmentInv
<1>1. CASE CheckEmail(q)
  <2>1. Client(q) = "start" /\ Client(q)' = "start"
    BY <1>1, ClientAt, ClientNext DEF CheckEmail
  <2>2. QED
    BY <1>1, <2>1 DEF CheckEmail, CitySaga!vars
<1>2. CASE CreateSaga(q)
  <2>1. Client(q) = "start" /\ Client(q)' = "act"
    BY <1>2, ClientAt, ClientNext DEF CreateSaga
  <2>2. CitySaga(q)!Create
    BY <1>2, <2>1
       DEF CreateSaga, Save, CitySaga!Create, CitySaga!Save, CitySaga!NewSaga, Saga!NewSaga,
           CitySaga!Step, Saga!Step
  <2>3. QED
    BY <2>2 DEF CitySaga!Next, CitySaga!Call
<1>3. CASE CreateUser(q)
  <2>1. Client(q) = "act" /\ Client(q)' = "record"
    BY <1>3, ClientAt, ClientNext DEF CreateUser
  <2>2. CitySaga(q)!ActSucceeds
    BY <1>3, <2>1 DEF CreateUser, CitySaga!ActSucceeds
  <2>3. QED
    BY <2>2 DEF CitySaga!Next, CitySaga!Call
<1>4. CASE CreateUserRefused(q)
  <2>1. Client(q) = "act" /\ Client(q)' = "giveUp"
    BY <1>4, ClientAt, ClientNext DEF CreateUserRefused
  <2>2. CitySaga(q)!ActFails
    BY <1>4, <2>1
       DEF CreateUserRefused, CitySaga!ActFails, CitySaga!OnError, CitySaga!RollsBack
  <2>3. QED
    BY <2>2 DEF CitySaga!Next, CitySaga!Call
<1>5. CASE RecordUser(q)
  <2>0. saga[q] = Saga!NewSaga /\ saga[q] # NoSaga /\ pc' = [pc EXCEPT ![q] = "call"]
    BY <1>0, <1>5, TwoStepFields DEF RecordUser, Clean, ReadsSaga
  <2>1. Client(q) = "record" /\ Client(q)' = "act"
    BY <1>5, <2>0, ClientAt, ClientNext DEF RecordUser
  <2>2. saga'[q] = CitySaga(q)!ExecuteStep(saga[q]) /\ ~ CitySaga(q)!LastStepDone(saga[q])
    BY <1>5, <2>0, TwoStepFields
       DEF RecordUser, Save, CitySaga!ExecuteStep, Saga!ExecuteStep, CitySaga!MarkCurrent,
           Saga!MarkCurrent, CitySaga!LastStepDone, Saga!LastStepDone, CitySaga!Step,
           Saga!Step
  <2>3. CitySaga(q)!Record
    BY <1>5, <2>0, <2>1, <2>2
       DEF RecordUser, CitySaga!Record, CitySaga!Save, CitySaga!ReadsSaga
  <2>4. QED
    BY <2>3 DEF CitySaga!Next, CitySaga!Call
<1>6. CASE CallCore(q)
  <2>1. Client(q) = "act" /\ Client(q)' = "act"
    BY <1>6, ClientAt, ClientNext DEF CallCore, AssignmentInv
  <2>2. QED
    BY <1>6, <2>1 DEF CallCore, CitySaga!vars
<1>7. CASE CityAssigned(q)
  <2>1. Client(q) = "record" /\ Client(q)' = "record"
    BY <1>7, ClientAt, ClientNext DEF CityAssigned
  <2>2. QED
    BY <1>7, <2>1 DEF CityAssigned, CitySaga!vars
<1>8. CASE CityRefused(q)
  <2>1. Client(q) = "act" /\ Client(q)' = "fail"
    BY <1>8, ClientAt, ClientNext DEF CityRefused
  <2>2. CitySaga(q)!ActFails
    BY <1>8, <2>1 DEF CityRefused, CitySaga!ActFails, CitySaga!OnError, CitySaga!RollsBack
  <2>3. QED
    BY <2>2 DEF CitySaga!Next, CitySaga!Call
<1>9. ~ CallTimesOut(q)
  BY DEF CallTimesOut, AssignmentInv
<1>10. CASE RecordCity(q)
  <2>0. saga[q] # NoSaga /\ saga[q] \in Saga!SagaRecord
    BY <1>10 DEF RecordCity, ReadsSaga
  <2>1. Client(q) = "record" /\ Client(q)' = "done"
    BY <1>10, ClientAt, ClientNext DEF RecordCity
  <2>2. saga'[q] = CitySaga(q)!ExecuteStep(saga[q])
    BY <1>10
       DEF RecordCity, Save, CitySaga!ExecuteStep, Saga!ExecuteStep, CitySaga!MarkCurrent,
           Saga!MarkCurrent, CitySaga!LastStepDone, Saga!LastStepDone, CitySaga!Step,
           Saga!Step
  <2>3. CitySaga(q)!Record
    BY <1>10, <2>0, <2>1, <2>2
       DEF RecordCity, CitySaga!Record, CitySaga!Save, CitySaga!ReadsSaga
  <2>4. QED
    BY <2>3 DEF CitySaga!Next, CitySaga!Call
<1>11. CASE EmitUserCreated(q)
  <2>1. Client(q) = "done" /\ Client(q)' = "done"
    BY <1>11, ClientAt, ClientNext DEF EmitUserCreated
  <2>2. QED
    BY <1>11, <2>1 DEF EmitUserCreated, CitySaga!vars
<1>12. CASE FailStep(q)
  <2>1. Client(q) = "fail" /\ Client(q)' = "compensate"
    BY <1>12, ClientAt, ClientNext DEF FailStep
  <2>2. saga'[q] = CitySaga(q)!FailStep(saga[q])
    BY <1>12
       DEF FailStep, Save, CitySaga!FailStep, Saga!FailStep, CitySaga!MarkCurrent,
           Saga!MarkCurrent, CitySaga!Step, Saga!Step
  <2>3. CitySaga(q)!Fail
    BY <1>12, <2>1, <2>2
       DEF FailStep, ReadsSaga, CitySaga!Fail, CitySaga!Save, CitySaga!ReadsSaga
  <2>4. QED
    BY <2>3 DEF CitySaga!Next, CitySaga!Call, CitySaga!Catch
<1>13. CASE Compensate(q)
  <2>0. saga[q] # NoSaga /\ saga[q] \in Saga!SagaRecord
    BY <1>13 DEF Compensate, ReadsSaga
  <2>1. 0 \in Saga!CompensationSteps(saga[q])
    BY <1>0, <1>13, <2>0, TwoStepFields DEF Compensate, Clean
  <2>2. CitySaga(q)!CompensationSteps(saga[q]) = {0}
    BY <1>0, <1>13, <2>1
       DEF Compensate, Clean, CitySaga!CompensationSteps, Saga!CompensationSteps
  <2>3. Client(q) = "compensate" /\ Client(q)' = "undo"
    BY <1>13, <2>1, ClientAt, ClientNext DEF Compensate
  <2>4. saga'[q] = CitySaga(q)!Compensate(saga[q])
    BY <1>13
       DEF Compensate, Save, CitySaga!Compensate, Saga!Compensate,
           CitySaga!CompensationSteps, Saga!CompensationSteps, CitySaga!Step, Saga!Step
  <2>5. CitySaga(q)!StartCompensation
    BY <1>13, <2>0, <2>1, <2>2, <2>3, <2>4
       DEF Compensate, CitySaga!StartCompensation, CitySaga!Save, CitySaga!ReadsSaga
  <2>6. QED
    BY <2>5 DEF CitySaga!Next, CitySaga!Call, CitySaga!Catch
<1>14. CASE DeleteUser(q)
  <2>1. Client(q) = "undo" /\ Client(q)' = "undo"
    BY <1>14, ClientAt, ClientNext DEF DeleteUser
  <2>2. CitySaga(q)!NextCompensation({0}) = 0
    BY DEF CitySaga!NextCompensation
  <2>3. CitySaga(q)!UndoStep
    BY <1>14, <2>1, <2>2 DEF DeleteUser, CitySaga!UndoStep
  <2>4. QED
    BY <2>3 DEF CitySaga!Next, CitySaga!Call, CitySaga!Catch
<1>15. CASE MarkCompensated(q)
  <2>1. Client(q) = "undo" /\ Client(q)' = "rolledBack"
    BY <1>15, ClientAt, ClientNext DEF MarkCompensated
  <2>2. saga'[q] = CitySaga(q)!MarkCompensated(saga[q])
    BY <1>15
       DEF MarkCompensated, Save, CitySaga!MarkCompensated, Saga!MarkCompensated,
           CitySaga!Step, Saga!Step
  <2>3. CitySaga(q)!Mark
    BY <1>15, <2>1, <2>2
       DEF MarkCompensated, ReadsSaga, CitySaga!Mark, CitySaga!Save, CitySaga!ReadsSaga
  <2>4. QED
    BY <2>3 DEF CitySaga!Next, CitySaga!Call, CitySaga!Catch
<1>16. ~ SagaNotFound(q)
  BY <1>0, TwoStepRecords DEF SagaNotFound, ReadsNull, Clean
<1>17. CASE GiveUp(q)
  <2>1. Client(q) = "giveUp" /\ Client(q)' = "error"
    BY <1>17, ClientAt, ClientNext DEF GiveUp
  <2>2. saga[q] # NoSaga
    BY <1>0, <1>17 DEF GiveUp, Clean
  <2>3. saga'[q] = CitySaga(q)!FailStep(saga[q])
    BY <1>17, <2>2
       DEF GiveUp, Save, ReadsSaga, ReadsNull, CitySaga!FailStep, Saga!FailStep,
           CitySaga!MarkCurrent, Saga!MarkCurrent, CitySaga!Step, Saga!Step
  <2>4. CitySaga(q)!GiveUp
    BY <1>17, <2>1, <2>2, <2>3
       DEF GiveUp, CitySaga!GiveUp, CitySaga!Save, CitySaga!ReadsSaga
  <2>5. QED
    BY <2>4 DEF CitySaga!Next, CitySaga!Call, CitySaga!Catch
<1>18. ~ DatabaseFails(q)
  BY DEF DatabaseFails
<1>19. QED
  BY <1>1, <1>2, <1>3, <1>4, <1>5, <1>6, <1>7, <1>8, <1>9, <1>10, <1>11, <1>12, <1>13,
     <1>14, <1>15, <1>16, <1>17, <1>18
     DEF Handler

LEMMA CoreRefines ==
    ASSUME RefineInv, NEW q \in WithCity, CoreHandles(q)
    PROVE  [CitySaga(q)!Next]_(CitySaga(q)!vars)
<1> q \in Request
  OBVIOUS
<1> USE DEF RefineInv, TypeOK, InFirstStep, CoreHandles
<1>1. pc[q] = "waiting" /\ pc' = pc /\ Client(q) = "act"
  BY ClientAt DEF AssignmentInv
<1>2. CASE reply' = [reply EXCEPT ![q] = "ok"] /\ assigned' = assigned \cup {q}
  <2>1. Client(q)' = "record"
    BY <1>1, <1>2, ClientNext
  <2>2. CitySaga(q)!ActSucceeds
    BY <1>1, <1>2, <2>1 DEF CitySaga!ActSucceeds
  <2>3. QED
    BY <2>2 DEF CitySaga!Next, CitySaga!Call
<1>3. CASE reply' = [reply EXCEPT ![q] = "error"] /\ UNCHANGED assigned
  <2>1. Client(q)' = "act"
    BY <1>1, <1>3, ClientNext
  <2>2. QED
    BY <1>1, <1>3, <2>1 DEF CitySaga!vars
<1>4. QED
  BY <1>2, <1>3

\* With the same surroundings and a users database that does not fail, every
\* registration with a city is a run of the general saga: what is proved of that
\* holds of registerWithCity.
THEOREM RegistrationIsSaga ==
    ASSUME ~StoreFaults, ~DatabaseFaults, ~SlowCore, ~Crashes PROVE Spec => ImplementsSaga
<1>1. Init => RefineInv
  BY DEF Init, RefineInv, TypeOK, Running, HandlerInv, CleanInv, Clean, AssignmentInv
<1>2. RefineInv /\ [Next]_vars => RefineInv'
  BY StepTypeOK, StepHandlerInv, StepCleanInv, StepAssignmentInv DEF RefineInv
<1>3. Init => Starts
  <2> SUFFICES ASSUME Init, NEW q \in WithCity PROVE CitySaga(q)!Init
    BY DEF Starts
  <2>1. Client(q) = "start"
    BY ClientAt DEF Init
  <2>2. QED
    BY <2>1 DEF Init, CitySaga!Init, InFirstStep
<1>4. ASSUME RefineInv, [Next]_vars, NEW q \in WithCity
      PROVE  [CitySaga(q)!Next]_(CitySaga(q)!vars)
  <2>1. CASE UNCHANGED vars
    BY <2>1, <1>4, OthersStutter DEF vars
  <2>2. ASSUME NEW r \in Request, r # q, Handler(r) \/ CoreHandles(r)
        PROVE  UNCHANGED CitySaga(q)!vars
    <3>1. pc'[q] = pc[q] /\ reply'[q] = reply[q] /\ saga'[q] = saga[q]
      BY <1>4, <2>2
         DEF RefineInv, TypeOK, Handler, CheckEmail, CreateSaga, CreateUser,
             CreateUserRefused, RecordUser, CallCore, CityAssigned, CityRefused,
             CallTimesOut, RecordCity, EmitUserCreated, FailStep, Compensate, DeleteUser,
             DatabaseFails, MarkCompensated, SagaNotFound, GiveUp, CoreHandles, Save, Goto
    <3>2. (q \in users' <=> q \in users) /\ (q \in assigned' <=> q \in assigned)
      BY <1>4, <2>2
         DEF Handler, CheckEmail, CreateSaga, CreateUser, CreateUserRefused, RecordUser,
             CallCore, CityAssigned, CityRefused, CallTimesOut, RecordCity, EmitUserCreated,
             FailStep, Compensate, DeleteUser, DatabaseFails, MarkCompensated, SagaNotFound,
             GiveUp, CoreHandles
    <3>3. QED
      BY <3>1, <3>2, OthersStutter
  <2>3. QED
    BY <1>4, <2>1, <2>2, HandlerRefines, CoreRefines
       DEF Next, Environment, CoreCrashes, SagaExpires, UsersCrashes
<1>5. RefineInv /\ [Next]_vars => [Steps]_vars
  BY <1>4 DEF Steps
<1>6. QED
  BY <1>1, <1>2, <1>3, <1>5, PTL DEF Spec, ImplementsSaga
===============================================================================
