----------------------------- MODULE Scheduler -----------------------------
(***************************************************************************)
(* The hourly run of apps/scheduler.  Every replica of the service is      *)
(* woken at the hour; the one that takes the lock in Redis publishes each  *)
(* enabled task and counts it.  The lock has no owner: it lapses after 300 *)
(* seconds, whether or not the run is over, and the end of a run deletes   *)
(* whatever lock there is by then.                                         *)
(***************************************************************************)
EXTENDS Naturals, FiniteSets

CONSTANTS
  Task,
  Replica,  \* processes of the service
  MaxHour,  \* bound: hours
  None

HourAssumption ==
  /\ MaxHour \in Nat \ {0} /\ IsFiniteSet(Replica)
  /\ None \notin Task /\ None \notin Replica \X (1 .. MaxHour)
  /\ None \notin [status : {"none", "SUCCESS", "FAILED"}, count : Nat]

VARIABLES
  hour,
  due,       \* replicas not yet woken at this hour
  run,       \* runs at work; one that lasts may meet the next of its replica
  lock,      \* key scheduler:hourly:lock; history: the run that set it
  schedule,  \* table schedules
  published, \* history: runs that published the task
  outlived   \* history: a run lost its lock before it ended, and runs have
             \* been at work ever since

scheduleVars == <<hour, due, run, lock, schedule, published, outlived>>

RunId == Replica \X (1 .. MaxHour)

\* "find": has the lock and looks for the tasks.  "next": picks one.
\* "note": has published it.  "fail": could not count it.  "release": ends.
Off     == [at |-> "off"]
Working == [at : {"find", "next", "note", "fail", "release"}, todo : SUBSET Task,
            task : Task \cup {None}]

Row == [status : {"none", "SUCCESS", "FAILED"}, count : 0 .. Cardinality(RunId)]

TypeOK ==
  /\ hour \in 1 .. MaxHour /\ due \subseteq Replica
  /\ run \in [RunId -> Working \cup {Off}]
  /\ lock \in RunId \cup {None}
  /\ schedule \in [Task -> Row \cup {None}]
  /\ published \in [Task -> SUBSET RunId]
  /\ outlived \in BOOLEAN

Init ==
  /\ hour = 1 /\ due = Replica
  /\ run = [r \in RunId |-> Off]
  /\ lock = None
  /\ schedule = [t \in Task |-> None]
  /\ published = [t \in Task |-> {}]
  /\ outlived = FALSE

At(r, place)   == run[r].at = place
Goto(r, place) == run' = [run EXCEPT ![r].at = place]
AtWork         == {r \in RunId : ~At(r, "off")}

\* outlived ends with the last run.
Stays == outlived' = (outlived /\ \E r \in RunId : run'[r].at # "off")

-----------------------------------------------------------------------------

\* POST: a task, enabled.  No endpoint changes or removes one.
Create(t) ==
  /\ schedule[t] = None
  /\ schedule' = [schedule EXCEPT ![t] = [status |-> "none", count |-> 0]]
  /\ UNCHANGED <<hour, due, run, lock, published, outlived>>

\* Mutant: the key is set without NX.
MayAlwaysSet == TRUE

\* RedisService.acquireLock: SET with NX.
MaySet == lock = None

Begin == [at |-> "find", todo |-> {}, task |-> None]

\* handleHourlyTasks of a replica that is woken.  The lock is taken; or it is
\* held, or Redis fails; or Redis fails after it has set the key.
Wake(replica) ==
  LET r == <<replica, hour>>
  IN  /\ replica \in due
      /\ due' = due \ {replica}
      /\ \/ MaySet /\ lock' = r /\ run' = [run EXCEPT ![r] = Begin]
         \/ UNCHANGED <<lock, run>>
         \/ MaySet /\ lock' = r /\ UNCHANGED run
      /\ UNCHANGED <<hour, schedule, published, outlived>>

\* The enabled tasks, or an error.
FindTasks(r) ==
  /\ At(r, "find")
  /\ \/ run' = [run EXCEPT ![r].at = "next",
                             ![r].todo = {t \in Task : schedule[t] # None}]
     \/ Goto(r, "release")
  /\ UNCHANGED <<hour, due, lock, schedule, published, outlived>>

\* executeTask publishes the task, to integration or to whoever listens.
Publish(r, t) ==
  /\ At(r, "next") /\ t \in run[r].todo
  /\ published' = [published EXCEPT ![t] = @ \cup {r}]
  /\ run' = [run EXCEPT ![r] = [at |-> "note", todo |-> @.todo \ {t}, task |-> t]]
  /\ UNCHANGED <<hour, due, lock, schedule, outlived>>

\* And counts it, or enters its catch block.
NoteRun(r) ==
  /\ At(r, "note")
  /\ \/ /\ schedule' = [schedule EXCEPT ![run[r].task].status = "SUCCESS",
                                         ![run[r].task].count = @ + 1]
        /\ Goto(r, "next")
     \/ Goto(r, "fail") /\ UNCHANGED schedule
  /\ UNCHANGED <<hour, due, lock, published, outlived>>

\* Where the second failure ends the run and leaves the other tasks alone.
NoteFailure(r) ==
  /\ At(r, "fail")
  /\ \/ /\ schedule' = [schedule EXCEPT ![run[r].task].status = "FAILED"]
        /\ Goto(r, "next")
     \/ Goto(r, "release") /\ UNCHANGED schedule
  /\ UNCHANGED <<hour, due, lock, published, outlived>>

\* After the last task, or an error: releaseLock deletes the key, whoever
\* set it, and an error of Redis is only logged.
Release(r) ==
  /\ At(r, "release") \/ (At(r, "next") /\ run[r].todo = {})
  /\ lock' \in {lock, None}
  /\ run' = [run EXCEPT ![r] = Off] /\ Stays
  /\ UNCHANGED <<hour, due, schedule, published>>

\* The key lapses.
Outlives == lock \in AtWork

Lapse ==
  /\ lock # None /\ lock' = None
  /\ outlived' = (outlived \/ Outlives)
  /\ UNCHANGED <<hour, due, run, schedule, published>>

\* The next hour; no key lasts that long.
Strike ==
  /\ hour < MaxHour /\ lock = None
  /\ hour' = hour + 1 /\ due' = Replica
  /\ UNCHANGED <<run, lock, schedule, published, outlived>>

\* A replica stops; it is not woken again at this hour.
Crash(replica) ==
  /\ \E r \in AtWork : r[1] = replica
  /\ run' = [r \in RunId |-> IF r[1] = replica THEN Off ELSE run[r]]
  /\ due' = due \ {replica} /\ Stays
  /\ UNCHANGED <<hour, lock, schedule, published>>

Next ==
  \/ \E t \in Task : Create(t)
  \/ \E replica \in Replica : Wake(replica)
  \/ \E r \in RunId : FindTasks(r)
  \/ \E r \in RunId, t \in Task : Publish(r, t)
  \/ \E r \in RunId : NoteRun(r)
  \/ \E r \in RunId : NoteFailure(r)
  \/ \E r \in RunId : Release(r)
  \/ Lapse
  \/ Strike
  \/ \E replica \in Replica : Crash(replica)

Spec == Init /\ [][Next]_scheduleVars

-----------------------------------------------------------------------------

\* A run at work holds the lock, so runs do not overlap, unless one of an
\* unbroken chain of runs outlived its lock; and a task is counted at most
\* once for each run that published it.  Two replicas may still run in one
\* hour, the second woken when the first has ended.
RunsApart ==
  /\ ~outlived => \A r \in AtWork : lock = r
  /\ \A t \in Task : schedule[t] # None => schedule[t].count <= Cardinality(published[t])
=============================================================================
