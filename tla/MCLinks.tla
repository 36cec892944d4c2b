------------------------------ MODULE MCLinks ------------------------------
(* What leaves the service by mail, push or message, the scheduler and the  *)
(* alerts in one run: the two tables of links, which share the steps of     *)
(* MailedLinks, and parts that share nothing.  A behaviour is about one     *)
(* part: kind is chosen in the initial state and never changes, and the     *)
(* variables of the others stay as they are initially.                      *)
EXTENDS MailedLinks

CONSTANTS
  NoRequest,                                     \* PasswordReset
  None,
  Note, Handler, MaxRetries, MaxCopies,          \* Notifications
  Member, Limit,                                 \* BulkNotifications
  Subscriber, Address, MaxContacts,              \* Newsletter
  Call,                                          \* requests, there and below
  Task, Replica, MaxHour,                        \* Scheduler
  City, Main, Credentials,                       \* FirebaseProjects
  Rules, Cooldown, World, PrismaService, Slow,   \* Monitoring
  Error, maxHistorySize, Window, Threshold, Recent, MaxErrors  \* ErrorReports

ASSUME NoRequestAssumption == NoRequest \notin Request

\* The values of some of them: what may be sent for each project,
CredentialsOf == [p \in City \cup {Main} |-> IF p \in City THEN {"s", "t"} ELSE {"d"}]

\* one rule about the metrics and one about the health,
TwoRules  == <<"high_memory_usage", "redis_connection_issues">>
Cooldowns == [high_memory_usage |-> 2, redis_connection_issues |-> 1]

\* with what they watch,
Calm   == [heap |-> "low", errors |-> "few", database |-> "fast", redis |-> "fast"]
Worlds == {Calm, [Calm EXCEPT !.heap = "high"], [Calm EXCEPT !.redis = "slow"],
           [Calm EXCEPT !.heap = "high", !.redis = "never"]}

\* and three errors.
Thrown(code, custom) == [code |-> code, custom |-> custom]
ThreeErrors == {Thrown("INTERNAL_SERVER_ERROR", FALSE),
                Thrown("INTERNAL_SERVER_ERROR", TRUE), Thrown("NOT_FOUND", TRUE)}

VARIABLES
  kind,
  verifiedEvents, emailVerified,                           \* EmailVerification
  password, wrote, marks,                                  \* PasswordReset
  note, queued, linkMail, handler, sent, failed, handled,
  accepted, unsure,                                        \* Notifications
  born, active, bulk, tried, steady, shaken,               \* BulkNotifications
  subscription, call, contacts, events, spoilt,            \* Newsletter
  hour, due, run, lock, schedule, published, outlived,     \* Scheduler
  project, appCache, admin, alone, settled,                \* FirebaseProjects
  world, enabled, triggered, checks, alerted, ended,
  wrong,                                                   \* Monitoring
  errorHistory, happened                                   \* ErrorReports

Verification == INSTANCE EmailVerification
Reset        == INSTANCE PasswordReset

Delivery == INSTANCE Notifications WITH
  Row <- Note, row <- note, mail <- linkMail, mailed <- accepted

Bulks == INSTANCE BulkNotifications WITH User <- Member

Subscriptions == INSTANCE Newsletter WITH User <- Subscriber, row <- subscription

Hourly   == INSTANCE Scheduler
Projects == INSTANCE FirebaseProjects
Alerts   == INSTANCE Monitoring
Errors   == INSTANCE ErrorReports

ASSUME HostedAssumption ==
  /\ Delivery!RetriesAssumption /\ Delivery!RowsAssumption /\ Bulks!LimitAssumption
  /\ Subscriptions!ContactsAssumption /\ Hourly!HourAssumption
  /\ Projects!FirebaseAssumption /\ Alerts!MonitoringAssumption
  /\ Errors!ErrorReportsAssumption

verificationVars == <<verifiedEvents, emailVerified>>
resetVars        == <<password, wrote, marks>>
noteVars ==
  <<note, queued, linkMail, handler, sent, failed, handled, accepted, unsure>>
bulkVars         == <<born, active, bulk, tried, steady, shaken>>
newsVars         == <<subscription, call, contacts, events, spoilt>>
scheduleVars     == <<hour, due, run, lock, schedule, published, outlived>>
projectVars      == <<project, appCache, admin, alone, settled>>
alertVars        == <<world, enabled, triggered, checks, alerted, ended, wrong>>
errorVars        == <<errorHistory, happened>>

hosted ==
  <<noteVars, bulkVars, newsVars, scheduleVars, projectVars, alertVars, errorVars>>
all == <<kind, linkVars, verificationVars, resetVars, hosted>>

\* For the parts it does not matter to.
SomeWorld == CHOOSE w \in World : TRUE

Init ==
  /\ kind \in {"verification", "reset", "delivery", "bulk", "newsletter", "scheduler",
              "projects", "alerts", "errors"}
  /\ Verification!Init
  /\ Reset!Init
  /\ Delivery!Init
  /\ Bulks!Init /\ (kind # "bulk" => active = {} /\ born = <<>>)
  /\ Subscriptions!Init
  /\ Hourly!Init
  /\ Projects!Init /\ (kind # "projects" => \A p \in Projects!Project : project[p] = None)
  /\ Alerts!Init /\ (kind # "alerts" => world = SomeWorld)
  /\ Errors!Init

\* What a step of the links leaves alone.
NotVerification == UNCHANGED <<kind, resetVars, hosted>>
NotReset        == UNCHANGED <<kind, verificationVars, hosted>>
NotAlerts ==
  UNCHANGED <<kind, linkVars, verificationVars, resetVars, noteVars, bulkVars, newsVars,
              scheduleVars, projectVars, errorVars>>

HostedNext ==
  /\ UNCHANGED <<kind, linkVars, verificationVars, resetVars>>
  /\ \/ /\ kind = "delivery" /\ Delivery!Next
        /\ UNCHANGED <<bulkVars, newsVars, scheduleVars, projectVars, alertVars, errorVars>>
     \/ /\ kind = "bulk" /\ Bulks!Next
        /\ UNCHANGED <<noteVars, newsVars, scheduleVars, projectVars, alertVars, errorVars>>
     \/ /\ kind = "newsletter" /\ Subscriptions!Next
        /\ UNCHANGED <<noteVars, bulkVars, scheduleVars, projectVars, alertVars, errorVars>>
     \/ /\ kind = "scheduler" /\ Hourly!Next
        /\ UNCHANGED <<noteVars, bulkVars, newsVars, projectVars, alertVars, errorVars>>
     \/ /\ kind = "projects" /\ Projects!Next
        /\ UNCHANGED <<noteVars, bulkVars, newsVars, scheduleVars, alertVars, errorVars>>
     \/ /\ kind = "alerts" /\ Alerts!Next
        /\ UNCHANGED <<noteVars, bulkVars, newsVars, scheduleVars, projectVars, errorVars>>
     \/ /\ kind = "errors" /\ Errors!Next
        /\ UNCHANGED <<noteVars, bulkVars, newsVars, scheduleVars, projectVars, alertVars>>

Next ==
  \/ kind = "verification" /\ Verification!Next /\ NotVerification
  \/ kind = "reset" /\ Reset!Next /\ NotReset
  \/ HostedNext

Spec == Init /\ [][Next]_all
FairSpec ==
  /\ Spec
  /\ WF_all(kind = "verification" /\ Verification!MarkEmailAsVerified /\ NotVerification)
  /\ \A t \in Token : WF_all(kind = "reset" /\ Reset!MarkTokenAsUsed(t) /\ NotReset)
  /\ WF_all(kind = "alerts" /\ Alerts!EveryMinute /\ NotAlerts)
  /\ WF_all(kind = "alerts" /\ Alerts!Going /\ NotAlerts)

\* Every part keeps its types.
TypeOK ==
  CASE kind = "verification" -> Verification!TypeOK
    [] kind = "reset"        -> Reset!TypeOK
    [] kind = "delivery"     -> Delivery!TypeOK
    [] kind = "bulk"         -> Bulks!TypeOK
    [] kind = "newsletter"   -> Subscriptions!TypeOK
    [] kind = "scheduler"    -> Hourly!TypeOK
    [] kind = "projects"     -> Projects!TypeOK
    [] kind = "alerts"       -> Alerts!TypeOK
    [] kind = "errors"       -> Errors!TypeOK

\* A use is backed and counted across the two databases.  A link is marked as
\* used only by a reset that stored its password, and an address counts as
\* verified only through a link that was accepted; and attempts counts the
\* uses of a link, each once, until a failure.
UsesAddUp ==
  /\ kind = "verification" =>
       Verification!VerifiedByLink /\ Verification!AttemptsAreSuccesses
  /\ kind = "reset" => Reset!UsedLinkReset /\ Reset!AttemptsAreResets

\* What was answered with success arrives in the other database: the address
\* becomes verified, the link of a reset becomes used, or something failed;
\* and what goes on being wrong is alerted again and again.
UseArrives ==
  /\ []<>(/\ kind = "verification" => Verification!AllArrived
          /\ kind = "reset" => Reset!AllMarked)
  /\ kind = "alerts" => Alerts!LastingTroubleIsTold

\* The status of a notification tells what became of it; a subscription has
\* its contact in the e-marketing suite, and only one; and pushes go out with
\* the credentials a city was given last: see Notifications, Newsletter and
\* FirebaseProjects.
NotificationsTell ==
  /\ kind = "delivery" => Delivery!StatusTells
  /\ kind = "newsletter" => Subscriptions!SubscribedOnce
  /\ kind = "projects" => Projects!CredentialsInForce

\* One hourly run at a time, and a count of what was published: see Scheduler;
\* and alerts are apart and recent although checks overlap: see Monitoring.
RunsApart ==
  /\ kind = "scheduler" => Hourly!RunsApart
  /\ kind = "alerts" => Alerts!AlertsApartAndRecent

\* What is read in pages, or kept only in part, tells as much as the whole:
\* a bulk that was answered with success has reached its users, and the
\* errors are judged as if all were kept: see BulkNotifications and
\* ErrorReports.
PartsTellAll ==
  /\ kind = "bulk" => Bulks!BulkReaches
  /\ kind = "errors" => Errors!ToldAsIfAllKept
============================================================================
