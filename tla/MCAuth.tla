------------------------------- MODULE MCAuth -------------------------------
(* Accounts and rights in one run: AuthSessions, whose devices are          *)
(* interchangeable, and five parts that share nothing with it or with each  *)
(* other.  A behaviour is about one part: kind is chosen in the initial     *)
(* state and never changes, and the variables of the other parts stay as    *)
(* they are initially.                                                      *)
EXTENDS AuthSessions, TLC

CONSTANTS
  d1, d2, d3, None,
  Call,                                    \* requests, in the first three parts
  User, Phone, Mail, Password, Plain,      \* GuestAccounts
  Staff, City,                             \* CityRoles
  Region, Parent, Offices, Asked, Holders, CheckCall,
  TTL, CheckTime,                          \* Permissions
  Place, Version, MaxTerms,                \* TermsOfUse
  Device, AccountRole, Route, AccessLife, RefreshLife, KeyLife, RememberLife,
  SignInTime                               \* TokenLifetimes

Devices == Permutations(Client)

\* A quarter of a suburb of the capital.
ParentOf == [c \in Region |-> CASE c = "quarter" -> "suburb"
                                [] c = "suburb"  -> "capital"
                                [] OTHER         -> None]

VARIABLES
  kind,
  user, key, job, promised, disturbed,                     \* GuestAccounts
  role, assigned, call, latest, byHand, strayed,           \* CityRoles
  granted, active, cache, check, roleAge, cityAge,        \* Permissions
  terms, termsJob, announced, overlapped, broken,          \* TermsOfUse
  account, redis, device, signIn, unsaved, keeps, openAge  \* TokenLifetimes

Guests == INSTANCE GuestAccounts WITH Device <- Phone

Roles == INSTANCE CityRoles WITH User <- Staff

Rights == INSTANCE Permissions WITH
  City <- Region, Call <- CheckCall, Slow <- CheckTime, assigned <- granted, openAge <- cityAge

Terms == INSTANCE TermsOfUse WITH City <- Place, job <- termsJob

Lifetimes == INSTANCE TokenLifetimes WITH
  Role <- AccountRole, Slow <- SignInTime,
  user <- account, key <- redis, job <- signIn, age <- openAge

ASSUME HostedAssumption ==
  /\ Guests!GuestAccountsAssumption /\ Rights!PermissionsAssumption
  /\ Terms!TermsAssumption /\ Lifetimes!LifetimesAssumption

guestVars      == <<user, key, job, promised, disturbed>>
roleVars       == <<role, assigned, call, latest, byHand, strayed>>
permissionVars == <<granted, active, cache, check, roleAge, cityAge>>
termsVars      == <<terms, termsJob, announced, overlapped, broken>>
lifetimeVars   == <<account, redis, device, signIn, unsaved, keeps, openAge>>

all == <<kind, vars, guestVars, roleVars, permissionVars, termsVars, lifetimeVars>>

\* Some account, for the parts it does not matter to.
FirstAccount == CHOOSE a \in [role : AccountRole, isActive : {TRUE}] : TRUE

FirstRoles == [u \in Staff |-> "CITIZEN"]

MCInit ==
  /\ kind \in {"sessions", "guests", "roles", "permissions", "terms", "lifetimes"}
  /\ Init
  /\ Guests!Init
  /\ Roles!Init /\ (kind # "roles" => role = FirstRoles)
  /\ Rights!Init /\ (kind # "permissions" => active = Region)
  /\ Terms!Init
  /\ Lifetimes!Init /\ (kind # "lifetimes" => account = FirstAccount)

MCNext ==
  /\ UNCHANGED kind
  /\ \/ /\ kind = "sessions" /\ Next
        /\ UNCHANGED <<guestVars, roleVars, permissionVars, termsVars, lifetimeVars>>
     \/ /\ kind = "guests" /\ Guests!Next
        /\ UNCHANGED <<vars, roleVars, permissionVars, termsVars, lifetimeVars>>
     \/ /\ kind = "roles" /\ Roles!Next
        /\ UNCHANGED <<vars, guestVars, permissionVars, termsVars, lifetimeVars>>
     \/ /\ kind = "permissions" /\ Rights!Next
        /\ UNCHANGED <<vars, guestVars, roleVars, termsVars, lifetimeVars>>
     \/ /\ kind = "terms" /\ Terms!Next
        /\ UNCHANGED <<vars, guestVars, roleVars, permissionVars, lifetimeVars>>
     \/ /\ kind = "lifetimes" /\ Lifetimes!Next
        /\ UNCHANGED <<vars, guestVars, roleVars, permissionVars, termsVars>>

MCSpec == MCInit /\ [][MCNext]_all

\* Every part keeps its types.
AllTypeOK ==
  CASE kind = "sessions"    -> TypeOK
    [] kind = "guests"      -> Guests!TypeOK
    [] kind = "roles"       -> Roles!TypeOK
    [] kind = "permissions" -> Rights!TypeOK
    [] kind = "terms"       -> Terms!TypeOK
    [] kind = "lifetimes"   -> Lifetimes!TypeOK

\* What createGuestSession and convertGuest have answered stands: see
\* GuestAccounts.
ConversionStands == kind = "guests" => Guests!ConversionStands

\* A user's role is the one given last, by assignment or by hand, unless a
\* copy failed or was overtaken; no permission, once it is taken away, is
\* granted longer than a cached yes and a check may last; and no token is taken
\* longer than it may last, while one that is refreshed in time stays: see
\* CityRoles, Permissions and TokenLifetimes.
RightsFollow ==
  /\ [](kind = "roles" => Roles!RoleMatchesAssignment)
  /\ Rights!GrantsAreRecent
  /\ [](kind = "lifetimes" => Lifetimes!ServedIsRecent /\ Lifetimes!TimelyReturn)

\* A city has one latest version of its terms: see TermsOfUse.
OneLatest == kind = "terms" => Terms!OneLatest
=============================================================================
