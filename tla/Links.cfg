\* Links: four requests and two links, that is two sends, so that a link is
\* superseded, and two requests that open, cancel or use links in between.
\* One attempt is the limit that is met first.
CONSTANTS
  Request = {1, 2, 3, 4}
  NoRequest = 0
  MaxTokens = 2
  MaxAttempts = 1
  Faults = TRUE
  None = None
  \* One row and two handlers, so that a doubled message meets itself.
  Note = {"n1"}
  Handler = {"h1", "h2"}
  MaxRetries = 3
  MaxCopies = 2
  \* Two pages, the second not full.
  Member = {"u1", "u2", "u3"}
  Limit = 2
  Subscriber = {"u1", "u2"}
  Address = {"m1", "m2"}
  MaxContacts = 2
  Call = {"k1", "k2"}
  Task = {"t"}
  Replica = {"a", "b"}
  MaxHour = 2
  City = {"x"}
  Main = "main"
  Credentials <- CredentialsOf
  Rules <- TwoRules
  Cooldown <- Cooldowns
  World <- Worlds
  PrismaService = FALSE
  Slow = 1
  \* Three errors of four are kept; more than two are too many.
  Error <- ThreeErrors
  maxHistorySize = 3
  Window = 2
  Threshold = 2
  Recent = 2
  MaxErrors = 4
SPECIFICATION FairSpec
INVARIANTS
  TypeOK
  NewestAlive
  UsesAddUp
  NotificationsTell
  RunsApart
  PartsTellAll
PROPERTIES
  DeadLinksStayDead
  UseArrives
\* A request is served once, and links lapse.
CHECK_DEADLOCK FALSE
