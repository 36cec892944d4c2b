--------------------------- MODULE RegistrationSaga ---------------------------
(***************************************************************************)
(* Each registration with a city, seen alone, is a run of SagaOrchestrator *)
(* with the two steps CREATE_USER and ASSIGN_CITY.                         *)
(***************************************************************************)
EXTENDS Registration

\* What SagaOrchestrator calls the caller's state, for request r.
Client(r) ==
    CASE pc[r] \in {"check", "createSaga", "duplicate"}                     -> "start"
      [] pc[r] \in {"create", "call"}                                      -> "act"
      [] pc[r] = "waiting" /\ reply[r] # "ok"                              -> "act"
      [] pc[r] = "waiting" /\ reply[r] = "ok"                              -> "record"
      [] pc[r] \in {"recordUser", "recordCity"}                            -> "record"
      [] pc[r] \in {"undo", "mark"}                                        -> "undo"
      [] pc[r] \in {"emit", "created"}                                     -> "done"
      [] pc[r] = "failed"                                                  -> "error"
      [] pc[r] \in {"fail", "compensate", "giveUp", "rolledBack", "crashed"} -> pc[r]

\* With a reliable store a handler gives up in its first step only.
InFirstStep ==
    {"check", "createSaga", "duplicate", "create", "recordUser", "giveUp", "failed"}

CitySaga(r) == INSTANCE SagaOrchestrator WITH
    NSteps <- 2, Compensable <- {0, 1}, Undoable <- {0}, Ambiguous <- {},
    UndoFaults <- FALSE,
    saga <- saga[r],
    client <- Client(r),
    next <- IF pc[r] \in InFirstStep THEN 0 ELSE 1,
    effects <- (IF r \in users THEN {0} ELSE {}) \cup (IF r \in assigned THEN {1} ELSE {}),
    todo <- IF pc[r] = "undo" THEN {0} ELSE {}

Starts == \A r \in WithCity : CitySaga(r)!Init
Steps  == \A r \in WithCity : [CitySaga(r)!Next]_(CitySaga(r)!vars)

\* While Redis and the database are reliable and core is in time, every
\* registration with a city is a run of the saga driver that SagaOrchestrator
\* specifies and proves about.  (The conjunction over r of CitySaga(r)!Spec, in the form TLC
\* evaluates.)
ImplementsSaga == Starts /\ [][Steps]_vars
===============================================================================
