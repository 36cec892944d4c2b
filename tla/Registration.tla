----------------------------- MODULE Registration -----------------------------
(***************************************************************************)
(* Concurrent calls of UsersService.register.  Each runs its own handler   *)
(* over the users database, its saga document in Redis, the core service   *)
(* behind a RabbitMQ queue, and the fire-and-forget event user.created.    *)
(* A request stands for the user row it would create; its username behaves *)
(* as its e-mail does (checked first, unique in the database).             *)
(***************************************************************************)
EXTENDS Integers

CONSTANTS
    Request,     \* calls of register
    Email,
    EmailOf,     \* the e-mail a request asks for
    WithCity,    \* the requests that name a city and so need a saga
    NoSaga,
    StoreFaults,    \* Redis loses documents, reads and saves
    DatabaseFaults, \* a query of the users database may throw
    SlowCore,       \* core may handle a request after the caller's ten seconds
    Crashes         \* users or core may die between two steps

Saga == INSTANCE SagaState WITH NSteps <- 2, Compensable <- {0, 1}

ASSUME RegistrationAssumption ==
    /\ EmailOf \in [Request -> Email]
    /\ WithCity \subseteq Request
    /\ NoSaga \notin Saga!SagaRecord
    /\ {StoreFaults, DatabaseFaults, SlowCore, Crashes} \subseteq BOOLEAN

VARIABLES
    pc,        \* where each handler stands
    users,     \* rows of the users table
    saga,      \* saga documents in Redis
    queue,     \* CORE_CREATE_USER_CITY_ASSIGNMENT messages waiting for core
    reply,     \* core's answer on its way back
    assigned,  \* rows of core's userCityAssignment table
    announced, \* copies of user.created published for each request
    fault      \* history: whether Redis or the database failed the handler

vars == <<pc, users, saga, queue, reply, assigned, announced, fault>>

Running == {"check", "createSaga", "create", "recordUser", "call", "waiting",
            "recordCity", "emit", "fail", "compensate", "undo", "mark", "giveUp"}
Answered == {"created", "duplicate", "rolledBack", "failed"}

TypeOK ==
    /\ pc \in [Request -> Running \cup Answered \cup {"crashed"}]
    /\ users \subseteq Request
    /\ saga \in [Request -> Saga!SagaRecord \cup {NoSaga}]
    /\ queue \subseteq Request
    /\ reply \in [Request -> {"none", "ok", "error"}]
    /\ assigned \subseteq Request
    /\ announced \in [Request -> 0 .. 2]
    /\ fault \in [Request -> {"none", "some", "unrecorded"}]

Init ==
    /\ pc = [r \in Request |-> "check"]
    /\ users = {}
    /\ saga = [r \in Request |-> NoSaga]
    /\ queue = {}
    /\ reply = [r \in Request |-> "none"]
    /\ assigned = {}
    /\ announced = [r \in Request |-> 0]
    /\ fault = [r \in Request |-> "none"]

Goto(r, label) == pc' = [pc EXCEPT ![r] = label]

ReadsSaga(r) == saga[r] # NoSaga
ReadsNull(r) == saga[r] = NoSaga \/ StoreFaults

Suffer(r, what) ==
    fault' = [fault EXCEPT ![r] = IF @ = "unrecorded" THEN @ ELSE what]

\* RedisService.set answers false instead of throwing, and nobody looks.
Save(r, s) ==
    \/ saga' = [saga EXCEPT ![r] = s] /\ UNCHANGED fault
    \/ /\ StoreFaults
       /\ Suffer(r, IF pc[r] = "recordUser" THEN "unrecorded" ELSE "some")
       /\ UNCHANGED saga

Taken(e) == \E q \in users : EmailOf[q] = e

-------------------------------------------------------------------------------
\* findUnique on the e-mail; hashing the password lets other requests in.
CheckEmail(r) ==
    /\ pc[r] = "check"
    /\ Goto(r, IF Taken(EmailOf[r]) THEN "duplicate"
               ELSE IF r \in WithCity THEN "createSaga" ELSE "create")
    /\ UNCHANGED <<users, saga, queue, reply, assigned, announced, fault>>

CreateSaga(r) ==
    /\ pc[r] = "createSaga"
    /\ Save(r, Saga!NewSaga)
    /\ Goto(r, "create")
    /\ UNCHANGED <<users, queue, reply, assigned, announced>>

\* Mutant: the users table has no unique index on the e-mail.
CreateUserUnchecked(r) ==
    /\ pc[r] = "create"
    /\ users' = users \cup {r}
    /\ Goto(r, IF r \in WithCity THEN "recordUser" ELSE "emit")
    /\ UNCHANGED <<saga, queue, reply, assigned, announced, fault>>

CreateUser(r) ==
    /\ pc[r] = "create"
    /\ ~ Taken(EmailOf[r])
    /\ users' = users \cup {r}
    /\ Goto(r, IF r \in WithCity THEN "recordUser" ELSE "emit")
    /\ UNCHANGED <<saga, queue, reply, assigned, announced, fault>>

\* The unique index refuses the row: the Prisma error reaches the outer catch.
CreateUserRefused(r) ==
    /\ pc[r] = "create"
    /\ Taken(EmailOf[r])
    /\ Goto(r, IF r \in WithCity THEN "giveUp" ELSE "failed")
    /\ UNCHANGED <<users, saga, queue, reply, assigned, announced, fault>>

\* Mutant: the event goes out as soon as the row is written.
RecordUserAndEmit(r) ==
    /\ pc[r] = "recordUser"
    /\ ReadsSaga(r)
    /\ Save(r, Saga!ExecuteStep(saga[r]))
    /\ announced' = [announced EXCEPT ![r] = 1]
    /\ Goto(r, IF Saga!LastStepDone(saga[r]) THEN "giveUp" ELSE "call")
    /\ UNCHANGED <<users, queue, reply, assigned>>

\* Mutant: the first executeStep is forgotten.
RecordUserSkipped(r) ==
    /\ pc[r] = "recordUser"
    /\ Goto(r, "call")
    /\ UNCHANGED <<users, saga, queue, reply, assigned, announced, fault>>

RecordUser(r) ==
    /\ pc[r] = "recordUser"
    /\ ReadsSaga(r)
    /\ Save(r, Saga!ExecuteStep(saga[r]))
    /\ Goto(r, IF Saga!LastStepDone(saga[r]) THEN "giveUp" ELSE "call")
    /\ UNCHANGED <<users, queue, reply, assigned, announced>>

CallCore(r) ==
    /\ pc[r] = "call"
    /\ queue' = queue \cup {r}
    /\ Goto(r, "waiting")
    /\ UNCHANGED <<users, saga, reply, assigned, announced, fault>>

\* Mutant: core fails after its insert and does not take the row back.
CoreHandlesThenFails(r) ==
    /\ r \in queue
    /\ queue' = queue \ {r}
    /\ assigned' = assigned \cup {r}
    /\ \E answer \in {"ok", "error"} : reply' = [reply EXCEPT ![r] = answer]
    /\ UNCHANGED <<pc, users, saga, announced, fault>>

\* createUserCityAssignment in core: the row, or P2002 or another database error.
CoreHandles(r) ==
    /\ r \in queue
    /\ queue' = queue \ {r}
    /\ \/ /\ r \notin assigned
          /\ assigned' = assigned \cup {r}
          /\ reply' = [reply EXCEPT ![r] = "ok"]
       \/ /\ reply' = [reply EXCEPT ![r] = "error"]
          /\ UNCHANGED assigned
    /\ UNCHANGED <<pc, users, saga, announced, fault>>

\* RabbitMQ counts a message as done when core receives it: a crash loses it.
CoreCrashes(r) ==
    /\ Crashes
    /\ r \in queue
    /\ queue' = queue \ {r}
    /\ assigned' \in {assigned, assigned \cup {r}}
    /\ UNCHANGED <<pc, users, saga, reply, announced, fault>>

CityAssigned(r) ==
    /\ pc[r] = "waiting"
    /\ reply[r] = "ok"
    /\ Goto(r, "recordCity")
    /\ UNCHANGED <<users, saga, queue, reply, assigned, announced, fault>>

CityRefused(r) ==
    /\ pc[r] = "waiting"
    /\ reply[r] = "error"
    /\ Goto(r, "fail")
    /\ UNCHANGED <<users, saga, queue, reply, assigned, announced, fault>>

\* Mutant: a timeout is taken for success.
CallTimesOutAsSuccess(r) ==
    /\ pc[r] = "waiting"
    /\ SlowCore \/ (r \notin queue /\ reply[r] = "none")
    /\ Goto(r, "recordCity")
    /\ UNCHANGED <<users, saga, queue, reply, assigned, announced, fault>>

\* Mutant: no timeout on the call; only a broken channel ends it.
CallWaits(r) ==
    /\ pc[r] = "waiting"
    /\ r \notin queue /\ reply[r] = "none"
    /\ Goto(r, "fail")
    /\ UNCHANGED <<users, saga, queue, reply, assigned, announced, fault>>

\* timeout(10000): the message stays queued and a later reply finds nobody.
CallTimesOut(r) ==
    /\ pc[r] = "waiting"
    /\ SlowCore \/ (r \notin queue /\ reply[r] = "none")
    /\ Goto(r, "fail")
    /\ UNCHANGED <<users, saga, queue, reply, assigned, announced, fault>>

RecordCity(r) ==
    /\ pc[r] = "recordCity"
    /\ ReadsSaga(r)
    /\ Save(r, Saga!ExecuteStep(saga[r]))
    /\ Goto(r, "emit")
    /\ UNCHANGED <<users, queue, reply, assigned, announced>>

\* Mutant: publishEvent retries without remembering that it already did.
EmitUserCreatedThrice(r) ==
    /\ pc[r] = "emit"
    /\ \E copies \in 0 .. 3 : announced' = [announced EXCEPT ![r] = copies]
    /\ Goto(r, "created")
    /\ UNCHANGED <<users, saga, queue, reply, assigned, fault>>

\* Lost while the channel is down; twice when a full buffer makes publish
\* answer false although it kept the message, and publishEvent tries again.
EmitUserCreated(r) ==
    /\ pc[r] = "emit"
    /\ \E copies \in 0 .. 2 : announced' = [announced EXCEPT ![r] = copies]
    /\ Goto(r, "created")
    /\ UNCHANGED <<users, saga, queue, reply, assigned, fault>>
-------------------------------------------------------------------------------
\* The inner catch of registerWithCity.
FailStep(r) ==
    /\ pc[r] = "fail"
    /\ ReadsSaga(r)
    /\ Save(r, Saga!FailStep(saga[r]))
    /\ Goto(r, "compensate")
    /\ UNCHANGED <<users, queue, reply, assigned, announced>>

\* Of the steps handed back only CREATE_USER (step 0) has code that undoes it.
Compensate(r) ==
    /\ pc[r] = "compensate"
    /\ ReadsSaga(r)
    /\ Save(r, Saga!Compensate(saga[r]))
    /\ Goto(r, IF 0 \in Saga!CompensationSteps(saga[r]) THEN "undo" ELSE "mark")
    /\ UNCHANGED <<users, queue, reply, assigned, announced>>

DeleteUser(r) ==
    /\ pc[r] = "undo"
    /\ users' = users \ {r}
    /\ Goto(r, "mark")
    /\ UNCHANGED <<saga, queue, reply, assigned, announced, fault>>

\* Mutant: an error of the delete is only logged.
DatabaseErrorsLogged(r) ==
    /\ DatabaseFaults
    /\ \/ pc[r] = "check" /\ Goto(r, "failed") /\ UNCHANGED users
       \/ /\ pc[r] = "create"
          /\ users' = users \/ (~ Taken(EmailOf[r]) /\ users' = users \cup {r})
          /\ Goto(r, IF r \in WithCity THEN "giveUp" ELSE "failed")
       \/ pc[r] = "undo" /\ users' \in {users, users \ {r}} /\ Goto(r, "mark")
    /\ Suffer(r, "some")
    /\ UNCHANGED <<saga, queue, reply, assigned, announced>>

\* A query throws, before or after it took effect.  The error of the check goes
\* to the caller; the create's and the delete's pass through the outer catch,
\* which takes nothing back.
DatabaseFails(r) ==
    /\ DatabaseFaults
    /\ \/ pc[r] = "check" /\ Goto(r, "failed") /\ UNCHANGED users
       \/ /\ pc[r] = "create"
          /\ users' = users \/ (~ Taken(EmailOf[r]) /\ users' = users \cup {r})
          /\ Goto(r, IF r \in WithCity THEN "giveUp" ELSE "failed")
       \/ pc[r] = "undo" /\ users' \in {users, users \ {r}} /\ Goto(r, "giveUp")
    /\ Suffer(r, "some")
    /\ UNCHANGED <<saga, queue, reply, assigned, announced>>

MarkCompensated(r) ==
    /\ pc[r] = "mark"
    /\ ReadsSaga(r)
    /\ Save(r, Saga!MarkCompensated(saga[r]))
    /\ Goto(r, "rolledBack")
    /\ UNCHANGED <<users, queue, reply, assigned, announced>>

\* 'Saga not found': thrown to the inner catch by the second executeStep, to
\* the outer one by every other method.
SagaNotFound(r) ==
    /\ pc[r] \in {"recordUser", "recordCity", "fail", "compensate", "mark"}
    /\ ReadsNull(r)
    /\ Suffer(r, "some")
    /\ Goto(r, IF pc[r] = "recordCity" THEN "fail" ELSE "giveUp")
    /\ UNCHANGED <<users, saga, queue, reply, assigned, announced>>

\* The outer catch: the saga is marked, nothing is undone, the error rethrown.
GiveUp(r) ==
    /\ pc[r] = "giveUp"
    /\ \/ ReadsSaga(r) /\ Save(r, Saga!FailStep(saga[r]))
       \/ ReadsNull(r) /\ Suffer(r, "some") /\ UNCHANGED saga
    /\ Goto(r, "failed")
    /\ UNCHANGED <<users, queue, reply, assigned, announced>>
-------------------------------------------------------------------------------
SagaExpires(r) ==
    /\ StoreFaults
    /\ saga[r] # NoSaga
    /\ saga' = [saga EXCEPT ![r] = NoSaga]
    /\ Suffer(r, "some")
    /\ UNCHANGED <<pc, users, queue, reply, assigned, announced>>

UsersCrashes(r) ==
    /\ Crashes
    /\ pc[r] \in Running
    /\ Goto(r, "crashed")
    /\ UNCHANGED <<users, saga, queue, reply, assigned, announced, fault>>

\* A step of the handler itself, which the users service takes by itself.
Handler(r) ==
    \/ CheckEmail(r) \/ CreateSaga(r) \/ CreateUser(r) \/ CreateUserRefused(r)
    \/ RecordUser(r) \/ CallCore(r) \/ CityAssigned(r) \/ CityRefused(r)
    \/ CallTimesOut(r) \/ RecordCity(r) \/ EmitUserCreated(r)
    \/ FailStep(r) \/ Compensate(r) \/ DeleteUser(r) \/ DatabaseFails(r)
    \/ MarkCompensated(r) \/ SagaNotFound(r) \/ GiveUp(r)

Environment(r) == CoreHandles(r) \/ CoreCrashes(r) \/ SagaExpires(r) \/ UsersCrashes(r)

Next == \E r \in Request : Handler(r) \/ Environment(r)

Spec == Init /\ [][Next]_vars

\* The event loop serves every handler; core promises nothing.
FairSpec == Spec /\ \A r \in Request : WF_vars(Handler(r))
-------------------------------------------------------------------------------
\* Two callers are never both told that they own the same e-mail, although both
\* may have found it free before either row was written.
OneOwnerPerEmail ==
    \A q, r \in Request :
        pc[q] = "created" /\ pc[r] = "created" /\ EmailOf[q] = EmailOf[r] => q = r

\* A caller told "created" has its row, and its city if it asked for one; no
\* later rollback of any request takes them away.  True whatever Redis does.
CreatedMeansRegistered ==
    \A r \in Request :
        pc[r] = "created" => r \in users /\ (r \in WithCity => r \in assigned)

\* Who hears user.created finds the user: the event never runs ahead of a
\* registration that is still to be rolled back.
AnnouncedUsersExist ==
    \A r \in Request : announced[r] > 0 => r \in users /\ pc[r] = "created"

\* What a failure leaves in the users database, whatever Redis, the database and
\* core do.  A caller refused at the check owns no row.  One told that its
\* registration was rolled back owns none either, unless Redis refused to save
\* that the user had been created: then nothing is compensated and "rolled back"
\* is said all the same.  One told of any other error keeps a row only when Redis
\* or the database failed that very handler, and then its document, as long as
\* Redis has it, never reads as a saga that finished or was compensated.
FailureLeavesNoUser ==
    \A r \in users :
        /\ pc[r] # "duplicate"
        /\ pc[r] = "rolledBack" => fault[r] = "unrecorded"
        /\ pc[r] = "failed" =>
              /\ fault[r] # "none"
              /\ saga[r] # NoSaga => saga[r].status \notin {"COMPLETED", "COMPENSATED"}

\* Core holds no assignment of a user whose registration was rolled back.
NoOrphanAssignment ==
    \A r \in Request : pc[r] \in {"rolledBack", "failed"} => r \notin assigned

\* Every caller gets an answer, whatever Redis and core do, unless the process
\* that runs the handler dies.
EveryCallAnswered == \A r \in Request : <>(pc[r] \in Answered \cup {"crashed"})

\* Why the first three hold under every fault: which rows a handler has written
\* follows from where it stands, and a row goes only in DeleteUser.
HandlerInv ==
    /\ \A q, r \in users : EmailOf[q] = EmailOf[r] => q = r
    /\ \A r \in Request :
          /\ pc[r] \in {"call", "waiting", "recordCity", "emit", "created",
                       "recordUser", "fail", "compensate", "undo"} => r \in users
          /\ pc[r] \in {"emit", "created"} /\ r \in WithCity => r \in assigned
          /\ pc[r] = "recordCity" => r \in assigned
          /\ pc[r] \in {"createSaga", "recordUser", "call", "waiting", "recordCity", "fail",
                       "compensate", "undo", "mark", "giveUp", "rolledBack"} => r \in WithCity
          /\ reply[r] = "ok" => r \in assigned
          /\ announced[r] > 0 => pc[r] = "created"

\* Why FailureLeavesNoUser holds.  Until the user is recorded the document is the
\* one createSaga wrote; from then on, unless that save was refused, it records
\* the user's step by the time anything can go wrong after it; and it is there
\* unless Redis failed the handler.
Clean(r) ==
    /\ pc[r] \in {"check", "createSaga"} => saga[r] = NoSaga
    /\ pc[r] \in {"check", "createSaga", "create", "duplicate"} => r \notin users
    /\ pc[r] \in {"create", "recordUser"} => saga[r] \in {NoSaga, Saga!NewSaga}
    /\ pc[r] \in {"call", "waiting", "recordCity", "fail", "compensate", "undo", "mark"}
             \cup {"giveUp", "failed"} /\ saga[r] # NoSaga =>
          saga[r].status \notin {"COMPLETED", "COMPENSATED"}
    /\ fault[r] # "unrecorded" =>
          /\ pc[r] \in {"mark", "rolledBack"} => r \notin users
          /\ pc[r] \in {"call", "waiting", "recordCity", "fail", "compensate"}
                   /\ saga[r] # NoSaga =>
                saga[r].currentStep = 1 /\ saga[r].steps[0] = "COMPLETED"
    /\ fault[r] = "none" =>
          /\ pc[r] \in {"giveUp", "failed"} => r \notin users
          /\ r \in WithCity /\ pc[r] = "create" => saga[r] # NoSaga
          /\ pc[r] \in {"recordUser", "call", "waiting", "recordCity", "fail"}
                   \cup {"compensate", "undo", "mark", "giveUp"} => saga[r] # NoSaga

CleanInv == \A r \in Request : Clean(r)
===============================================================================
