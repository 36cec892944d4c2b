# A TLA+ model of the Heidi microservices

Heidi is a set of NestJS services for city apps: one service per subject, one
PostgreSQL database per service, RabbitMQ between the services and Redis beside
them. These modules describe the parts of it where steps of several services,
several requests or several devices meet. TLC checks them on small instances,
and TLAPS proves the most important properties for every value of the
constants. All of it is written from the source; `map` in `PROJECT.json` gives the
lines each definition stands for.

Contents: [the system](#the-system), [the modules](#the-modules),
[the runs](#the-runs), [fairness](#fairness), [the proofs](#the-proofs),
[where code and documentation disagree](#where-code-and-documentation-disagree),
[what is not modelled](#what-is-not-modelled), [the plan](#the-plan).

## The system

### How the parts interact

* **HTTP**: each service answers requests with controllers. Handlers are
  `async` functions on one event loop: at every `await` handlers of other
  requests run. Nothing in the code takes a lock across an `await` (the one lock
  is in the scheduler), so *one action per `await` that reads or writes shared
  state* is the granularity of every module.
* **RPC over RabbitMQ** (`libs/rabbitmq`, `client.send`): some callers set
  `timeout(...)`, some set none. A timed-out message stays in the queue, its late
  reply is dropped. NestJS consumes with `noAck`, so a message is gone when the
  process that received it dies.
* **Events over RabbitMQ** (`client.emit`): nobody waits for them. The wrapper
  loses an event when the channel is down and publishes it a second time when
  `publish` answers `false` although it has buffered the message
  (`rmq-client-wrapper.ts:216`).
* **Redis** (`libs/redis`): `get`, `set` and `del` catch every error, log it and
  answer `null` or `false`. Callers do not look at the answer of a write.
* **Databases** (`libs/prisma`): a statement is atomic, handlers are not:
  only the updates of a tile and of a listing by its author use a transaction.
* **Storage** (`libs/storage`): a file and the row that names it are written in
  separate steps.
* **Memory of a process**: themes of mails, Firebase apps, alerts and the error
  history live as long as the process and are not shared between replicas.

### Inventory

| Part | State it keeps | Operations | What is hard about it | What makes it correct | Modules |
|---|---|---|---|---|---|
| Saga orchestrator, `libs/saga` | `saga:<id>` in Redis, TTL one hour | createSaga, executeStep, failStep, compensate, markCompensated | reads and saves lost without notice, a caller that dies, a step that takes effect and then reports failure | COMPLETED only with every action applied; a rollback leaves nothing; compensations run backwards | SagaState, SagaOrchestrator, AtomicSaga |
| Registration, `apps/users` | `users`, core's `userCityAssignment` | register, registerWithCity | check-then-insert on e-mail, timeout against a late reply, failures in the rollback | one owner per e-mail; success means everything is there, failure that nothing is | Registration, RegistrationSaga |
| Sessions, `apps/auth` | key `refresh_token:<userId>`, table `sessions` | login, refresh, logout, revokeSession, revokeAllSessions | key and rows in two stores, handlers of several tabs and devices between their awaits, one token in several hands, equal tokens within a second | signed out stays out; the token that counts is in somebody's hands; no session is hidden | AuthSessions |
| Tokens and guards, `libs/jwt`, `apps/auth` | what a token says, TTL of the key | login, refresh, guards of routes | four lifetimes; a token says what was true when it was signed | who loses a right loses it within a token's life; who comes back in time gets in | TokenLifetimes |
| Guest accounts, `apps/users`, `apps/auth` | `users`, guest sessions | createGuestSession, createGuest, convertGuest, changePassword | check-then-insert per device, conversion under a running session, callers that give up | a conversion that was answered stands | GuestAccounts |
| Roles, permissions, `apps/core`, `libs/rbac` | `userCityAssignment`, `users.role`, permission cache | assignCityAdmin, updateRole, POST and PATCH of a user, hasPermission | two databases, two ways to give a role, swallowed failures, a cache of five minutes nothing clears, a hierarchy read query by query | role and assignments agree; a lost right ends | CityRoles, Permissions, StaleRead |
| Terms, `apps/users`, `libs/rbac` | `termsOfUse`, acceptances | create, update, accept, the guard | unmark-then-mark without transaction, order of guards | one latest version; nobody passes without accepting | TermsOfUse, TermsGuard |
| E-mail verification, `apps/notification`, `apps/users` | `verification_tokens`, `users.emailVerified` | send, resend, verify, cancel, markEmailAsVerified | sends overlap, verdicts are written on old readings, the result arrives by event | a dead link stays dead; who verified can log in | MailedLinks, EmailVerification |
| Password reset, same services | `password_reset_tokens`, `users.password` | requestReset, validate, resetPassword, markUsed | link judged in one database, password written in another, link marked by event | a link is marked only for a reset that happened; uses are counted | MailedLinks, PasswordReset |
| Notification delivery, `apps/notification` | `notifications` | send, handle, mail, push, note the outcome | lost and doubled messages, no acknowledgement, outcome noted afterwards | the status tells what became of the mail | Notifications |
| Bulk notifications | pages of `users` | sendToAll, sendToCity | pages of a list that changes while it is read | success means everybody who was there, once | BulkNotifications |
| Firebase projects | `firebaseProject`, apps of a process | create, update, upsert, delete, initialise | apps made of rows read before, never made anew | pushes use the credentials given last | FirebaseProjects |
| Mail themes | cache of a process | getCityTheme | calls that time out, cache nothing clears | a mail is in a recent theme of its own city | EmailTheme |
| Newsletter, `apps/integration` | contact in the e-marketing suite, `newsletterSubscription` | subscribe | three steps at two places, answers lost | suite and table agree | Newsletter |
| Listing import, `apps/integration`, `apps/core` | feed, `listings` with categories and intervals, `categories` | syncIntegration, syncCategoriesFromIntegration, syncListingFromIntegration | overlapping syncs, statements without a transaction, calls without a timeout | one listing per item; updates repair; no error means all listed | ListingSync |
| Parking spaces, `apps/integration`, `apps/core` | `parkingSpace`, sync logs | sync, syncParkingSpace, dispatch | overlapping syncs, counts missing from reports | rows tell what was reported last | Parking |
| Listings, `apps/core` | `listings` | create, edit, submit, show, moderate, archive | author, moderators and import on one row, verdicts that name no version | what is approved was shown and approved as it is, unless the verdict came too late | Listings |
| Parts of a listing | categories, opening times, exceptions | edit in a transaction, import without | the two overlap at READ COMMITTED | the last writer's parts are there as a whole | ListingParts |
| Favourites | `favorites` | toggle | look first, write later, unique key | the last toggle stands | Favorites |
| Categories, `apps/core` | tree, city links, requests | CRUD, offer, request, resolve | slugs, deletion of what is in use, verdicts of two admins | used categories stay; what is approved is offered | CategoryTree, CityCategories |
| Tiles, `apps/core` | `tiles` and city links | create, update, delete | scope read before the write; no cities means all cities | an admin writes within the cities read | Tiles |
| Files, `libs/storage` and its users | bucket, URL columns, `listingMedia` | upload, replace, delete, URLs set by the import and by users | file and row in separate steps, URL turned back into a key | a URL names a file; a file has its row | Images |
| Scheduler, `apps/scheduler` | `schedule`, Redis lock | hourly run, create | several replicas, lock outlived and deleted by another run | one run at a time; counts of what was published | Scheduler |
| Alerts, `libs/monitoring`, `libs/health` | rules, times of alerts | check every minute, update a rule | checks overlap and judge old figures | no alert twice within its cooldown; lasting trouble is told | Monitoring |
| Error history, `libs/errors` | last errors | report, clear, metrics of a window | a bounded history against a window of time | metrics as if all were kept | ErrorReports |
| Cities, `apps/city` | `cities` | CRUD | what other parts keep of a row | | parts in Images, Permissions, EmailTheme |
| Admins, terminals, `libs/tenancy`, `interceptors`, `metrics`, `logger`, `config`, `i18n`, `prisma` | nothing that another part decides on | CRUD, reads, formatting | none | | none |

The hazards of the code, each at its line and with the properties that would catch
it, are in `PROJECT.json`.

## The modules

Every module is parameterised by CONSTANTS, with a named ASSUME where they need
one, and has one action per operation or per `await` of a handler. Operators whose
comment begins with "Mutant" are small changes of the code next to the definition
they change; no specification uses them. They show that the properties notice such
a change. Variables called *history* in a comment record what the code does not
keep and only the properties read: chiefly what somebody was answered, and whether
a failure or an overlap has spoilt a promise.

### Sagas and registration

`SagaState` is the saga document and what each method of
`SagaOrchestratorService` makes of it, as operators on a document. Note
`currentStep`: a step is executed by *position*, not by name, so a lost save
makes the next call mark the wrong step.

`SagaOrchestrator` is one saga with any number of steps. `saga` is the document
in Redis, `client` and `next` say where the calling handler is, `effects` is the
set of steps whose action stands in some database, and `todo` the compensations
still to run. The handler is the one of `registerWithCity`, generalised from two
steps: a failure of a later step runs failStep, compensate, the compensations and
markCompensated; a failure of the first step, or inside the rollback, goes to the
outer catch, which calls failStep and compensates nothing. Constants switch on lost
reads and saves, failing compensations, crashes and steps that fail
after taking effect (`Ambiguous`).

`AtomicSaga` is the promise of `libs/saga/README.md`: a saga ends with all its
effects or with none. `SagaOrchestrator` implements it when the store and the
compensations are reliable, no step is ambiguous and every step but the last is
compensable (`Reliable`).

`Registration` is any number of concurrent calls of `register`, those with a city
and those without. A request is the row it would insert. `pc` is the handler's
position, `users` the rows, `saga` the documents, `queue` and `reply` the call to
core, `assigned` core's rows, `announced` the copies of `user.created` published, and
`fault` remembers whether Redis or the database failed the handler. A query may throw
(`DatabaseFaults`), the one that deletes the user in the rollback included: the outer
catch answers with a failure and the row stays. `RegistrationSaga` states that each request with a city, seen alone, is a
run of `SagaOrchestrator` with two steps: what is proved of the general saga
therefore says something about this code.

### Accounts and rights

`AuthSessions`: one registered user with several devices. `store` is the only
refresh token `apps/auth` will redeem, `row` the session row written after each
minting, `held` what each tab or device goes on with. The JWT carries no id and a time
in seconds, so two mintings of one second may give one token: `token` says what each
minting gave, a token is named by the first that gave it, and `since` says which
mintings were in the second of the last (`Mintable`). `Share` lets tabs hold one token,
so that two refreshes of it may both pass the comparison. A handler is split where the code
awaits: login and refresh pass their checks, later write the key, later insert the
row; logout drops the key and then closes the rows; a revocation does it the other
way round. `upset` remembers that something has failed, or that a logout has closed
the row of a sign-in that came in after it had dropped the key.
One user is the general case because users share neither keys nor rows.

`GuestAccounts`: rows of `users` that begin as the guest of a device and become
registered, with the sessions auth opens for them. Every handler is a job that
awaits between what it checks and what it writes; auth may give up on a call that
users goes on with, and either may die. `promised` is what the last success told
the owner, `disturbed` the accounts two requests worked on at once.

`TokenLifetimes`: one sign-in against the clock, with the lifetimes of the access
token, the refresh token, the key in Redis and the longer key of `rememberMe`, the
guards that look at nothing but the token, and refreshes that read the user
before they sign.

`CityRoles`: assigning a city across auth, core and users, while administrators create
users with a role and change it by PATCH, of which core hears nothing. `call` is the
position in the chain, `latest` the role given last by either way, `byHand` the users
who have it from an administrator, `strayed` those with a copy that was lost, failed or
was overtaken, and none since that went through alone.

`Permissions`: `hasPermission` under its cache, one action per query: the assignments,
then of each assigned city the children, level by level, while cities and assignments
change in between. `StaleRead` is the abstract
specification of a cache with a time to live: an answer may be stale, but it was
true within the last `Bound` ticks. `Permissions` implements it for what it answers of
the user's roles, which come from one query (`ByRole`). Of the city no such promise
holds, because the way down to it need never have been open as a whole; `ScopeIsRecent`
says that each link of it was, within the same bound. `EmailTheme` implements it too.

`TermsOfUse`: new terms become the latest in two statements, by several admins.
`TermsGuard` extends it with acceptances, the grace period and the guard every app
registers; the model of the guard includes the order in which Nest runs guards.

### Links and messages

`MailedLinks` has the table of one-time links and the steps two services share:
cancel what is pending, create a row, mail it; read and judge a link, then write
the verdict whatever the row holds by then. `EmailVerification` adds accepting, the
event `verification.verified`, the handler in `apps/users` and the "it's not me" link.
`PasswordReset` adds the check by RPC, the write of the password in the other
database and the event that marks the link. The clock is an action that may fall
between any two steps.

`Notifications`: a row, the message that names it, and handlers that deliver first
and note the outcome afterwards, with lost and doubled messages, retries and
crashes. `BulkNotifications`: the pages of a bulk while users come and go.
`FirebaseProjects`: rows and the apps a process has made of them. `EmailTheme`: the
cache of themes. `Newsletter`: the row looked for, the contact, the event, the row
inserted. `Scheduler`: replicas, the lock without an owner, a run that outlives it.
`Monitoring`: overlapping checks that go through the rules, waiting for each alert
to be sent. `ErrorReports`: the bounded history, compared with one that forgets
nothing.

### Content

`ListingSync`: a sync of `apps/integration` (`at`, `left`, `got`, `errors`) and core's
handler of its current call (`core`, `item`, `found`, `cats`): core looks the item
up, then inserts a row or deletes and re-creates its categories and its intervals
and rewrites it, one statement per action. Syncs overlap, the provider edits its
feed between any two steps, a statement fails, either service dies. `alone`
remembers that no other handler has touched the row since it was found, `renamed`
which items changed their title while a sync still held the old one.

`Listings`: the author's edit is one step; a moderator is shown the listing
(`ShowListing`), the verdict sent later reads in one step and writes in another, and
`passed` is the text that was shown, or `Stale` if the row has another by then. `ListingParts`: the author's transaction as its statements, with the row
lock it takes and what READ COMMITTED lets it see, against the import's statements.
`Favorites`, `CategoryTree`, `CityCategories`, `Tiles`: check-then-write on tables that
others change in between; in `CategoryTree` the slug is a base and the number that
makes it unique, and a listing is filed by its edit (syncListingCategories) or by the
import, which drops the old links in a statement of its own (`FileImported`). `Images`: `files` is the bucket, `url` and `media` the columns and
rows that name files; keys and URLs are lists of segments, so that turning a URL
back into a key is modelled by what it does. The import overwrites the hero image and a
user the profile photo with a URL of their own (`SyncHeroImage`, `UpdateProfile`),
which leaves an uploaded file without its row until the next upload. `Parking`: what is fetched, what core
derives of it, and what is stored; a report has the counts core reads, as a whole
and by kind of vehicle.

### The MC modules

`MCRegistration`, `MCListingSync` and `MCAuthLogout` give one module its instance.
`MCAuth`, `MCLinks` and `MCContent` put parts that share nothing into one run: the
rigid variable `kind` is chosen in the initial state, only the part it names takes
steps, and a property is the conjunction of what it says of each part, by `kind`.
The states of the run are the sum of those of its parts, not their product, and
nothing is lost, since the parts do not interact. All three leave their constants
open: `AuthSessions.cfg`, `Links.cfg` and `Content.cfg` give the values, and theorems
are proved of them for every value.

| Module | kinds |
|---|---|
| `MCAuth` | sessions (AuthSessions), guests, roles, permissions, terms, lifetimes |
| `MCLinks` | verification, reset, delivery (Notifications), bulk, newsletter, scheduler, projects (FirebaseProjects), alerts (Monitoring), errors |
| `MCContent` | listings, images, tree (CategoryTree), offers (CityCategories), tiles, parts (ListingParts), favorites, parking, theme (EmailTheme) |

### What the models abstract

Names, e-mails, titles and texts are model values. A token is what its claims and the
second of its minting make it: those of one second may coincide, others do not. Audit rows and logs are left out, because
nothing reads them, except the sync logs of parking. Password hashes and
signatures are not represented: a request whose credentials are wrong changes
nothing. Pages of the feed are fetched in one step; the pages of a bulk are not,
because their order is the point. Times are ticks, and a lifetime is a small number
of them that keeps the order of the lifetimes in the code.

## The runs

TLC is run with two workers; the largest runs (`auth`, `links`, `content`: up to a
million states) take two to three minutes. Deadlock is not checked: every instance
serves a bounded number of requests and then rightly stops.

| Run | Instance | What it shows |
|---|---|---|
| `saga_reliable` | 8 steps, crashes, nothing else fails | TypeOK, `RolledBackIsClean`, `RecordedStepsStand`; the refinement `ImplementsAtomicSaga`. Eight steps let the backward loop, its first and last index and every place of a failure occur |
| `saga_faulty` | 3 steps, Redis loses reads, saves and documents, compensations throw, every step may fail after taking effect | `CompletedMeansAllApplied`, `UndoneInReverse`, `CallEnds`. Three steps are the least with a step before and after the one that is marked wrongly |
| `registration_reliable` | 3 requests for one e-mail, 2 with a city, nothing fails but the requests | `NoOrphanAssignment`: a failed call leaves no assignment; `ImplementsSaga`: each call implements the saga |
| `registration_faulty` | 2 requests with a city for one e-mail, Redis unreliable, queries that throw, core slow, both services may die | `OneOwnerPerEmail`, `CreatedMeansRegistered`, `AnnouncedUsersExist` (events are never ahead of the user), `FailureLeavesNoUser` (exactly which failures leave a row, and what its document says), `EveryCallAnswered` |
| `auth` | sessions: 3 tabs or devices, 3 mintings (a sign-in and two refreshes of its one token), every fault. guests: 2 users, 1 device, 2 addresses, 2 passwords, 2 requests. roles: 1 user, 2 cities, 2 assignments. permissions: a quarter in a suburb of a capital, so that the way down is two queries long; a cache of 1 tick, a check of 1. terms: 1 city, 1 version, 2 rows, 2 admins. lifetimes: 2 devices, one guarded route, lives 1 (access), 2 (refresh), 2 (key), 3 (remembered) | `NoHiddenSession`, `LiveTokenIsHeld`, `SignedOutStaysOut`; `ConversionStands`; `OneLatest`; `RightsFollow`: the role is the one given last and agrees with the assignments, no grant is older than the bound, tokens end |
| `links` | both kinds of link: 4 requests, 2 links, one attempt, every fault. delivery: 1 row, 2 handlers, 3 retries, messages doubled. bulk: 3 users, pages of 2. newsletter: 2 users, 2 addresses, 2 requests. scheduler: 1 task, 2 replicas, 2 hours. projects: a city and the main one, 2 credentials, 2 requests. alerts: 2 rules, cooldowns 2 and 1. errors: history 3, threshold 2, window 2 | `NewestAlive`, `UsesAddUp`, `DeadLinksStayDead`, `UseArrives`; `NotificationsTell` (status, contacts, credentials); `RunsApart` (hourly runs, alerts); `PartsTellAll` (bulk, error rate) |
| `listing_sync` | 2 syncs, 2 items, 2 titles, 2 contents (one with an interval), one edit, one failure | `OneListingPerItem`, `UndisturbedUpdateIsWhole`, `NoErrorMeansListed`, `SyncEnds`. `MCListingSync` drops symmetric cases: which item is edited and which sync starts first |
| `content` | listings: 1 listing, 2 texts, 2 verdicts. images: 1 owner, 2 further files, 2 requests. tree: 3 categories, 2 requests. offers: 2 categories, 2 requests, 2 resolutions. tiles: 1 tile, 2 cities, 2 requests. parts: 2 edits and an import. favorites: 2 users, 1 listing, 2 requests. parking: 2 sites, 3 reports, 2 syncs, 1 fault. theme: 2 cities, life 1, call 1, 2 mails | `ListingsStand`, `RowsTell`, `CatalogueHolds`. A listing whose review fields an admin has set directly is exempt and not followed further (`NoneByHand`); the theorem covers what becomes of it and of the others |
| `registration_orphan`, `auth_logout`, `files_stay`, `terms_guard` | the smallest instances | a statement of the repository that the code does not keep, see [below](#where-code-and-documentation-disagree) |

The bounds let the cases happen that the properties are about, as the mutants show:
each property is broken by a small change of the code within them. Races need two
requests on one row, a third where a device watches two others race, and a second
row only where one row's fate depends on another's. Caches and lifetimes need one
tick more than their life. The names that begin with `Max` bound what would
otherwise grow for ever: tokens, rows, files, errors, hours, edits, retries and
faults.

What to look for in the properties:

* `RolledBackIsClean` and `NoOrphanAssignment` fail as soon as a timed-out step
  may still take effect: that is the difference between the reliable and the
  faulty instance.
* `SignedOutStaysOut` excludes handlers that had passed their checks before the
  user was signed out; they are what `auth_logout` is about.
* `FailureLeavesNoUser` does not say that failures leave nothing, because the code
  does not ensure it: a rollback that Redis or the deletion itself interrupts leaves the
  row, and after a refused save the caller is even told "rolled back". It says that
  nothing else leaves one, and that the document never hides it.
* `LiveTokenIsHeld`: of two refreshes of one token that both pass the comparison the
  later write wins, and the other tab is left with a dead token; but the user keeps one
  that works. It makes no promise after a failure.
* `NoHiddenSession` makes none after that either, nor once a logout has met a login
  (`upset`): logout works on key and rows in the other order than a revocation, and a
  login in between is left with a key and a closed row.
* `RoleMatchesAssignment` (in `RightsFollow`): a role given by PATCH follows no
  assignment, so only for a role that an assignment gave does it promise that there is
  one.
* `ConversionStands` rests on the second look at the device in `createGuest` and on
  the unique index; two conversions of one guest at once really overwrite each
  other, and `disturbed` says so.
* `GrantsAreRecent` (in `RightsFollow`): no change of an assignment clears the
  cache, so five minutes and the length of a check is the best bound there is. That the
  scope was open as a whole at one moment would be too much: the suburb may close after
  the capital's children were read, and the quarter open before the suburb's are.
* `NewestAlive` holds although the two steps of a send are not atomic, because
  the cancelling comes first; the other order breaks it.
* `DeadLinksStayDead` holds although verdicts overwrite each other, because
  `isUsed`, the clock and the counter never go back.
* `StatusTells` (in `NotificationsTell`): delivery comes before the note, so FAILED
  and PENDING have exceptions a reader of the table has to know, SENT has none.
* `BulkReaches`: users who leave during a bulk shift the pages and hide others, so
  the promise is only made for bulks nobody leaves.
* `OneListingPerItem` rests on the unique slug only. It has an exception for
  renamed items, which is real: two syncs holding different titles insert two rows.
* `UndisturbedUpdateIsWhole` and `RowsMatchFiles` say that whatever overlapping
  updates and crashes leave, the next one that runs alone repairs.
* `ApprovedAsReviewed` (in `ListingsStand`): an author's edit takes the approval back,
  and an approval is of the text an admin was shown, except where the text was rewritten
  between the showing and the write of the verdict. Verdicts name no version, so the
  code then does publish a text nobody was shown; the exception is written as `Stale`.
  Fields an admin sets directly (`byHand`) are outside the review.
* `VerdictsAgree` says that the fields for an archived listing agree, not that it is out
  of sight: a query without a filter returns it (see below).
* `RowsMatchFiles`: an upload counts as undisturbed if no import and no user overwrites
  the column; the next undisturbed upload repairs what they have left.

## Fairness

* `SagaOrchestrator`, `Registration`: weak fairness of the handler's own steps. A
  handler is a chain of awaits on calls that answer or fail, the RPC has a timeout
  of ten seconds, and the event loop serves every handler. Core, crashes and
  expiry are not fair: no property depends on core answering.
* `MailedLinks` and what extends it: weak fairness only of handling an event that
  the broker has accepted. Users need not open links, and no handler is assumed to
  finish.
* `Monitoring`: weak fairness of the cron and of going on with the checks: what a
  check waits for answers or times out.
* `ListingSync`: weak fairness of the steps of both event loops. A statement that
  could fail need not fail. A call that core has lost is never answered, so the
  property `SyncEnds` allows a sync to hang there: the code sets no timeout.
* All other modules have safety properties only.

## The proofs

Each `*_proofs` module proves its theorems for every value of the constants that
the ASSUMEs of its module allow; TLC evaluates these assumptions in the runs.
`GuestAccounts` holds its proof itself. TLC evaluates the ASSUMEs of extended modules
only, so a module that `MCAuth`, `MCLinks` or `MCContent` instantiates states its
assumption as a named formula, and `HostedAssumption` of the MC module assumes it of
the instance.

| Module | Theorems | Argument |
|---|---|---|
| `SagaOrchestrator_proofs` | TypeCorrect, CompletedIsApplied, CompensationsRunBackwards under every fault; RollbackIsClean, RecordIsTrue if Redis keeps what it is given; SagaIsAtomic under `Reliable` | `ProgressInv`: the caller applies steps in order and the document is never ahead of it. `RollbackInv`: what has to be undone is on the caller's list. `AtomicInv` adds that a rollback starts without the last effect. That `NextCompensation` is the largest pending step needs a largest element of a set of steps: the library's minimal element of a well-founded order, applied to the distances from the last step. SagaIsAtomic maps each step to a step of `AtomicSaga` or a stutter |
| `Registration_proofs` | TypeCorrect, OneOwner, Registered, Announced, FailureIsClean under every fault; NoneOrphaned if Redis is reliable, core is in time and nobody dies; RegistrationIsSaga if also no query throws | `HandlerInv`: which rows a handler has written follows from where it stands, and only DeleteUser takes one away. `CleanInv`: unless that save was refused, the document has recorded the user's step by the time anything after it can fail; so a rollback that reaches its end has deleted the user, and one that does not leaves a document that says neither COMPLETED nor COMPENSATED. `AssignmentInv`: no call is left in the queue behind its caller. RegistrationIsSaga takes the three together and maps each step of a request to a step of `SagaOrchestrator` or a stutter, and the steps of the others to a stutter |
| `Accounts_proofs` | of sessions: TypeCorrect, OutMeansOut, NoneHidden, LiveHeld; of the other parts of `MCAuth`: RolesFollow, TermsHaveOneLatest, GrantsRecent, TokensEnd; of `MCAuth`: AllTypesCorrect, OneLatestHolds, ConversionHolds, RightsFollowChanges | `SessionInv`: until something is upset a stored token has the row of one of its mintings (`Listed`), or it is about to be written, or a revocation is about to drop the key; and some tab keeps it once its request is answered (`Held`). A row is written for a minting that has taken place (`KnownMintings`). `StaffInv`: a role on its way to users is the one given last, or the user has strayed; and the last role of who is not `byHand` is that of an assignment. `TermsInv`: between the two statements of one admin the terms of a city have no latest version but the one about to be written, unless two admins overlap. `RightsInv`: how long ago a cached value was true and how long it may still be used add up to the bound at most; of the city the same holds for each link of the way, and what a check has found of the hierarchy is in every set that is closed under the links open within the bound. `LifetimesInv`: the same sum for access tokens, and the key outlives the token stored with it |
| `GuestAccounts` | AnsweredConversionStands | `AccountInv`: nobody who works on a settled account has read it as a guest's, and only a converted account has the hash of a password |
| `Links_proofs` | VerificationTypes, VerifiedBacked, ResetTypes, UseBacked; of both tables in `MCLinks`: DeadLinksStay, NewestLinkAlive, and UsesCounted for finitely many requests | `LinkInv`: rows are what has been issued, who writes a row has one, and a verdict about to be written is still right because clock and counter only go up. `VerifyInv`: an accepted link precedes its event, and no step resets `isUsed`; each acceptance is one more element of the set that is counted. `ResetInv`: every mark in flight comes from a request that stored its password, and a link's attempts and marks in flight together are the resets it was used for |
| `Messages_proofs` | of `MCLinks`: NotificationsTold, RunsStayApart, PartsTellEverything, PartsTyped | `DeliveryInv`: how many copies and handlers a message may still have follows from how often it was handled, and what the handler knows of the outcome agrees with `accepted`. `NewsInv`: an address has one contact as soon as a request has got that far, and what a request looked for is still missing when it inserts, unless two requests met. `HourInv`: a run that is not outlived holds the lock, and the counts in the table are those of the messages published. `ProjectInv`: a request that is alone makes its app of the row as it is. `AlertsInv`: the age of a check is at most what it has waited for its health and for the alerts it sent, and every condition it found held since it began. `ErrorInv`: counted from the newest, the history and the window agree as far as both go, a history shorter than the window is full, and what it keeps beyond is too old; so a filter that picks positions picks an end of either. `BulkInv`: while the users are the same, the pages read so far have found those whose rank in the list is before the present page, each once, and the count of pages covers all ranks; while users only come and no page is torn, ranks only grow, so whoever was there at the start has been found, is on this page, or is behind it and the page is not the last |
| `Content_proofs` | of `MCContent`: ContentHolds (the inductive invariant), ContentTyped, ListingsStanding, RowsTelling, CatalogueStands; of `EmailTheme`: ThemesRecent | One inductive invariant per part; a step of the run is a step of one part, so they hold together. `FileInv` (images): of each picture, who is at work on it, the import and the user included, and whether the file it names is there (PicAlone, PicClean); each further file has one row or one request on its way (MedClean); what a removal is about to unname it has emptied. That no two columns or rows share a file follows from AddrTaken and AddrApart: the two kinds of address are told apart by their segments, and a fresh key is in neither. `TreeInv` (categories): the category of a listing's link exists, and what is filed under a category about to be deleted was filed after the deletion had counted. ListsAreWhole: what a list of categories leaves out is the categories in a circle of parents and those below one, by taking the rest of the list as the set of them. `PieceInv` (parts): what a transaction has written, and what the statements of an import see of it under the row lock. `ListingInv`: what ReviewStands says of the rows, but for those set by hand, and what a moderator was shown is the text of the row unless it is `Stale`. `FavInv`: a request nobody overlaps finds what it looked for still so. `OfferInv`: what is approved is offered, has been taken back, is about to be offered, or was cut off. `TileInv`: what a city admin may write lies in the cities read for the request. `LotInv` (parking): a space a sync has been told is stored. `ThemeInv`: a cached theme was in force when it was asked for, at most the cache's age and one slow call ago, and the theme a mail has got was in force while the mail waited for it; that is the refinement of `StaleRead` |
| `ListingSync_proofs` | SyncsConsistent, TypeCorrect, OneListing, AllListed, UndisturbedIsWhole | `SyncInv`: a row found is the item's, every sync that holds an item not renamed holds it under one title, and an insert is under that title; a handler that was alone finds the row in the half-done state it left; what a sync has sent without error is listed |

Where a theorem needs an assumption on faults, its statement says so
(`ASSUME ~StoreFaults PROVE ...`).

Only model-checked, not proved:

* liveness (`CallEnds`, `EveryCallAnswered`, `UseArrives` with
  `LastingTroubleIsTold`, `SyncEnds`), which is outside the prover's reach.

Every invariant and every action property of the passing runs is a theorem.
Induction over data is out of the prover's reach too, and three definitions are
written so that no proof needs it:

* What a list of categories reaches from its roots: `Hierarchy` is the members of
  every set that is closed under "root, or child of a member", so a proof that
  something is left out names one set.
* A page of a filtered and sorted list: a user is on it by rank, which is how many
  active users are newer (`Before`). That the ranks are the numbers below that of the
  users, with no gap (RankReached), is that an injection between finite sets of one
  size is onto; so an empty page is past the end.
* The errors of a window: `Relevant` takes the n-th position where n are counted.
  Where a proof needs the place at which a sorted history begins to be in the window,
  it takes the least element of a set of positions (LeastNumber), which the library's
  minimal element of a well-founded order gives.

One attempt to prove has shown a hypothesis that the run hides: `GrantsRecent` is
about permissions that citizens do not hold (`"CITIZEN" \notin Holders`). A failed read
of the assignments looks like a user who has none, who counts as a citizen of every
city; so a permission that citizens do hold may be granted when nothing that would
allow it was ever true. The run asks for a permission of admins.

## Where code and documentation disagree

Shown by a run:

* `registration_orphan`: compensation is to leave nothing behind, but core may
  handle the assignment after the caller's ten seconds: the user is deleted and the
  assignment stands.
* `auth_logout`: logout is to invalidate the session, but a refresh that had
  passed its comparison writes its token after logout has deleted the key.
* `files_stay`: deleting a medium is to remove its file, but the URL is turned back
  into a key as if the bucket were in its path, so the deletion names no file.
* `terms_guard`: the guard is to hold back who has not accepted, but it runs before
  the guard that finds out who asks, and lets a request without a user pass.

Found while reading, and built into the models as the code has them:

* the outer catch of `registerWithCity` marks the saga COMPENSATING and compensates
  nothing (users.service.ts:249), where `libs/saga/README.md:71` lets failed sagas
  end COMPENSATED;
* `syncHash` is computed over the time of the sync (destination-one.service.ts:245), so
  the skipping of unchanged items (core.service.ts:291) never happens;
* two resets that overlap may use one link, which the schema calls one-time;
* a push is marked SENT although no token of a device is ever found for it;
* the parking lookup sends `cityId` where the handler reads `data.id`
  (core.service.ts:751); the status word "unavailable" contains "available" and is
  stored as open; a kind of vehicle with nothing occupied is counted as another kind;
* the handler of INTEGRATION_SYNC sits on a provider, where Nest does not register
  it (integration.service.ts:81), so the hourly task reaches nothing;
* the managed cities of an admin are `[]` after an error, and `[]` stands for all
  cities where tiles ask;
* the key of a remembered session lives thirty days, the token in it seven
  (auth.service.ts:347, auth.controller.ts:64);
* an error whose code is INTERNAL_SERVER_ERROR is critical as a typed error, but high
  as a plain one;
* the cache of mail themes is never cleared, and a Firebase project moved without
  credentials keeps the app made of the old ones;
* archiving "removes it from public view" (listing.controller.ts:729), but the public
  queries add a condition on status or visibility only if a filter is sent
  (listings.service.ts:1037, 1075), so a query without one returns archived listings;
* PATCH /users/:id and POST /users write a role that no assignment knows of;
* an import overwrites an uploaded hero image's URL, and PATCH profile a photo's, without
  removing the file;
* a rollback that cannot delete the user answers with a failure and leaves the row
  (users.service.ts:220, 241);
* of the alert rules one can never fire and two always do, because what they ask
  for is not measured or not provided, and the lists of alerts grow for ever.

## What is not modelled

* Reads, formatting, validation of input, translations, templates, search filters
  and sort orders: no state that another part depends on.
* Signing, hashing, encryption, the conversion of images, and the transport of
  mails, pushes and text messages: third-party code, taken to be ideal or to fail.
* Admins, terminals, and the fields of cities, users and integrations that no other
  operation decides on: CRUD on single rows, which nothing interleaves with.
* `getParkingSpaces` and its cache: the call it needs always fails (see above).
  The status of a newsletter subscription: one update of a row nobody reads.
  Reminders of favourites and listings: columns nothing acts on.
* Verification by SMS: the same table and rules with a strategy that only logs.
* Tenancy, configuration, translations, Prisma clients, metrics, logs: values read
  at start-up or kept for one request.
* Resolving an alert, and its channels: nothing reads either.
* Seeds, containers, deployment.

`PROJECT.json` lists every part with the reason.

## The plan

Built, most important first: the sagas and registration with their refinements;
sessions; links; the import; accounts, guests, rights and terms; content;
notifications, scheduler, alerts; the theorems of all three MC modules. What is left:

1. The table of patterns, queues and handlers as functions, checked for patterns
   that are sent and never handled.
2. Compositions of parts that are separate now because they meet in one column
   only: `CityRoles` with `Tiles` and `Permissions` over `userCityAssignment`,
   `ListingSync` with `Listings` and `ListingParts` over `listings`, and
   `GuestAccounts` with `AuthSessions` over the key of a user.
3. Two listings and two moderators with different texts in `content`, when the run
   can be split.
