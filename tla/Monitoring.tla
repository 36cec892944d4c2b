----------------------------- MODULE Monitoring -----------------------------
(***************************************************************************)
(* The alerts of libs/monitoring, with the health checks of libs/health.   *)
(* Every minute, whether or not the last check has ended, a check takes    *)
(* the metrics, then the health, and goes through the rules in order; it   *)
(* waits for the alert of a rule to be sent before it judges the next, by  *)
(* then on figures that are minutes old.  A rule that has been triggered   *)
(* rests for its cooldown.  A tick is a minute.                            *)
(*                                                                         *)
(* No app imports the library.                                             *)
(***************************************************************************)
EXTENDS Integers, Sequences

CONSTANTS
  Rules,          \* the rules looked at, in their order
  Cooldown,       \* minutes of each
  World,          \* the states of what is watched that a behaviour goes through
  PrismaService,  \* whether something provides it; nothing does
  Slow            \* ASSUMED: minutes a health check or a webhook takes at most

DefaultRules ==
  <<"high_failure_rate", "queue_stalled", "high_memory_usage",
    "database_connection_issues", "redis_connection_issues", "high_error_rate">>

Speed == {"fast", "slow", "never"}  \* a database answers within a second, later, or not

Rule == {Rules[i] : i \in DOMAIN Rules}

MonitoringAssumption ==
  /\ Rules \in Seq({DefaultRules[p] : p \in DOMAIN DefaultRules})
  /\ \A i, j \in DOMAIN Rules : i < j =>
       \E p, q \in DOMAIN DefaultRules :
         p < q /\ Rules[i] = DefaultRules[p] /\ Rules[j] = DefaultRules[q]
  /\ Cooldown \in [Rule -> Nat \ {0}]
  /\ World \subseteq [heap : {"low", "high"}, errors : {"few", "many"},
                      database : Speed, redis : Speed]
  /\ PrismaService \in BOOLEAN
  /\ Slow \in Nat

VARIABLES
  world,      \* the heap, the errors of the last hour, how fast databases answer
  enabled,    \* the rules that are enabled
  triggered,  \* minutes since lastTriggered of each rule, up to its cooldown
  checks,     \* the checks under way
  alerted,    \* history: minutes since the last alert, likewise
  ended,      \* history: minutes since the condition last held, up to TooOld
  wrong       \* history: whether an alert came too early, or was too old

monitoringVars == <<world, enabled, triggered, checks, alerted, ended, wrong>>

-----------------------------------------------------------------------------
\* What is found, and what the rules make of it.

\* No table of jobs exists and nothing provides the queue service: their
\* figures are 0.
MetricsOf(w) ==
  [failureRate |-> 0, throughput |-> 0, active |-> 0,
   heap |-> w.heap, errors |-> w.errors]
CollectMetrics == MetricsOf(world)

Answered(speed) ==
  CASE speed = "fast"  -> "healthy"
    [] speed = "slow"  -> "degraded"
    [] speed = "never" -> "unhealthy"

CheckDatabase(w) == IF PrismaService THEN Answered(w.database) ELSE "degraded"
CheckRedis(w)    == Answered(w.redis)

GetHealthStatus(w) == [database |-> CheckDatabase(w), redis |-> CheckRedis(w)]

EvaluateAlertCondition(r, metrics, health) ==
  CASE r = "high_failure_rate"          -> metrics.failureRate > 0
    [] r = "queue_stalled"              -> metrics.throughput = 0 /\ metrics.active = 0
    [] r = "high_memory_usage"          -> metrics.heap = "high"
    [] r = "database_connection_issues" -> health.database # "healthy"
    [] r = "redis_connection_issues"    -> health.redis # "healthy"
    [] r = "high_error_rate"            -> metrics.errors = "many"

HoldsIn(r, w) == EvaluateAlertCondition(r, MetricsOf(w), GetHealthStatus(w))
Holds(r)      == HoldsIn(r, world)

-----------------------------------------------------------------------------
\* Minutes a check may have gone on when it judges the rule at i: it has
\* waited for the health and for the alert of each rule before.
Lasted(i) == i * Slow
TooOld    == Lasted(Len(Rules)) + 1

\* next is the first rule not judged yet, 0 before the health is known; begun
\* counts the minutes since the check began, which differ for any two.
Check == [next : 0 .. Len(Rules) + 1, metrics : {MetricsOf(w) : w \in World},
          seen : SUBSET Rule, waited : 0 .. Slow, begun : 0 .. Lasted(Len(Rules) + 1)]

Ages(r) == 0 .. Cooldown[r]

TypeOK ==
  /\ world \in World /\ enabled \subseteq Rule
  /\ \A r \in Rule : triggered[r] \in Ages(r) /\ alerted[r] \in Ages(r)
  /\ checks \subseteq Check
  /\ ended \in [Rule -> 0 .. TooOld]
  /\ wrong \in BOOLEAN

Init ==
  /\ world \in World /\ enabled = Rule
  /\ triggered = Cooldown /\ alerted = Cooldown
  /\ checks = {}
  /\ ended = [r \in Rule |-> IF Holds(r) THEN 0 ELSE TooOld]
  /\ wrong = FALSE

-----------------------------------------------------------------------------
\* What happens around the checks.

\* The heap, the error rate, a database or redis recovers or fails.
Turn(w) ==
  /\ w # world
  /\ world' = w
  /\ ended' = [r \in Rule |-> IF Holds(r) \/ HoldsIn(r, w) THEN 0 ELSE ended[r]]
  /\ UNCHANGED <<enabled, triggered, checks, alerted, wrong>>

\* Other fields of a rule are not changed here.
UpdateAlertRule(r) ==
  /\ enabled' = IF r \in enabled THEN enabled \ {r} ELSE enabled \cup {r}
  /\ UNCHANGED <<world, triggered, checks, alerted, ended, wrong>>

-----------------------------------------------------------------------------
\* checkAlerts.

Older(age, most) == IF age = most THEN most ELSE age + 1

\* The cron of every minute takes the metrics at once.
EveryMinute ==
  /\ \A c \in checks : c.waited < Slow
  /\ checks' = {[c EXCEPT !.waited = @ + 1, !.begun = @ + 1] : c \in checks}
               \cup {[next |-> 0, metrics |-> CollectMetrics, seen |-> {},
                 waited |-> 0, begun |-> 0]}
  /\ triggered' = [r \in Rule |-> Older(triggered[r], Cooldown[r])]
  /\ alerted' = [r \in Rule |-> Older(alerted[r], Cooldown[r])]
  /\ ended' = [r \in Rule |-> IF Holds(r) THEN 0 ELSE Older(ended[r], TooOld)]
  /\ UNCHANGED <<world, enabled, wrong>>

Resting(r) == triggered[r] < Cooldown[r]

\* The next rule that is to be triggered; what comes before it is passed over
\* in the same breath.
Due(from, seen) ==
  {i \in from .. Len(Rules) :
     Rules[i] \in enabled /\ ~Resting(Rules[i]) /\ Rules[i] \in seen}

\* History: an alert about the rule at i.
Alert(i) ==
  LET r == Rules[i] IN
    /\ alerted' = [alerted EXCEPT ![r] = 0]
    /\ wrong' = (wrong \/ alerted[r] < Cooldown[r] \/ ended[r] > Lasted(i))

\* triggerAlert: the alert is kept and the time of the rule noted before it
\* is sent.  Whether it arrives at a channel makes no difference.
Judge(c, from, seen) ==
  IF Due(from, seen) = {}
  THEN /\ checks' = checks \ {c}
       /\ UNCHANGED <<triggered, alerted, wrong>>
  ELSE \E i \in Due(from, seen) :
         /\ \A j \in Due(from, seen) : i <= j
         /\ checks' = (checks \ {c}) \cup
              {[c EXCEPT !.next = i + 1, !.seen = seen, !.waited = 0]}
         /\ triggered' = [triggered EXCEPT ![Rules[i]] = 0]
         /\ Alert(i)

\* getHealthStatus answers, with the state it finds.
HealthKnown(c) ==
  /\ c \in checks /\ c.next = 0
  /\ LET seen == {r \in Rule :
                   EvaluateAlertCondition(r, c.metrics, GetHealthStatus(world))}
     IN  Judge(c, 1, seen)
  /\ UNCHANGED <<world, enabled, ended>>

\* All channels have been tried.
AlertSent(c) ==
  /\ c \in checks /\ c.next > 0
  /\ Judge(c, c.next, c.seen)
  /\ UNCHANGED <<world, enabled, ended>>

Going == \E c \in checks : HealthKnown(c) \/ AlertSent(c)

Next ==
  \/ \E w \in World : Turn(w)
  \/ \E r \in Rule : UpdateAlertRule(r)
  \/ EveryMinute
  \/ Going

Spec == Init /\ [][Next]_monitoringVars

\* The cron fires, and what a check waits for answers or times out.
Fairness == WF_monitoringVars(EveryMinute) /\ WF_monitoringVars(Going)
FairSpec == Spec /\ Fairness

-----------------------------------------------------------------------------
\* However checks overlap, no rule is alerted twice within its cooldown, and
\* an alert is about a condition that held since the check began: it is not
\* older than the health check and the alerts before it may take.
AlertsApartAndRecent == ~wrong

\* A condition that lasts, of a rule that stays enabled, is alerted again and
\* again, whatever the other rules do: it never stays true without an alert.
LastingTroubleIsTold ==
  \A r \in Rule : []<>(Holds(r) /\ r \in enabled => alerted[r] = 0)
=============================================================================
