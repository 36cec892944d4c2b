----------------------------- MODULE Permissions -----------------------------
(***************************************************************************)
(* PermissionService.hasPermission (libs/rbac) for one user and one        *)
(* permission: a yes is kept in Redis for five minutes and no change of an *)
(* assignment or a city deletes it.  The check reads the assignments in    *)
(* one statement and walks the cities below them one query after another,  *)
(* so the way from an assigned city down to the one that was asked for     *)
(* need never have been open as a whole; each link of it was, when it was  *)
(* read.  No code writes the permissions of roles or the parents of        *)
(* cities, and none takes an assignment away: its role is changed.         *)
(***************************************************************************)
EXTENDS Integers

CONSTANTS
  City,
  Parent,   \* parentCityId of each city, or None
  Offices,  \* the cities the user may be assigned to
  Asked,    \* cities the routes ask about; None: a route that names none
  Holders,  \* the roles the permission is given to
  Call,     \* checks that may be under way at once
  TTL,      \* ticks a yes stays in the cache: 300 seconds
  Slow,     \* ASSUMED: a check takes at most as many ticks
  None

Role  == {"SUPER_ADMIN", "CITY_ADMIN", "CITIZEN"}
Bound == TTL + Slow

PermissionsAssumption ==
  /\ Parent \in [City -> City \cup {None}] /\ None \notin City \cup Role
  /\ Offices \subseteq City
  /\ Asked \subseteq City \cup {None}
  /\ Holders \subseteq Role
  /\ TTL \in Nat \ {0} /\ Slow \in Nat

VARIABLES
  assigned,  \* the user's rows in table user_city_assignments, by city
  active,    \* cities with isActive set
  cache,     \* ticks permission:<user>:<resource>:<action>[:<city>] has left
  check,     \* the checks under way
  roleAge,   \* history: ticks since the user's roles last held the permission
  openAge    \* history: ticks since each city was last active

permissionVars == <<assigned, active, cache, check, roleAge, openAge>>

\* The walk through the cities has found those of managedCityIds; left are the
\* assigned ones it has not come to, and of the one it is at, below holds the
\* cities found below it and todo those whose children are still to be read.
Idle  == [at |-> "idle"]
Check == [at : {"cache", "assignments", "cities", "set"}, scope : Asked, waited : 0 .. Slow,
          roles : SUBSET Role, found : SUBSET City, left : SUBSET City,
          below : SUBSET City, todo : SUBSET City]
Done  == [at : {"granted", "refused"}, scope : Asked]
Ages  == 0 .. Bound + 1

TypeOK ==
  /\ assigned \in [City -> Role \cup {None}]
  /\ active \in SUBSET City
  /\ cache \in [Asked -> 0 .. TTL]
  /\ check \in [Call -> Check \cup Done \cup {Idle}]
  /\ roleAge \in Ages /\ openAge \in [City -> Ages]

Assigned(rows) == {c \in City : rows[c] # None}
Roles(rows)    == {rows[c] : c \in Assigned(rows)}

\* The cities and those below them along a way of open ones: the least set with
\* the cities that has with a city all its open children.
Managed(cities, open) ==
  {c \in City : \A S \in SUBSET City :
     cities \subseteq S /\ (\A d \in open : Parent[d] \in S => d \in S) => c \in S}

\* hasRolePermission: super admins hold every permission.
HasRolePermission(role) == role = "SUPER_ADMIN" \/ role \in Holders

\* A user without assignments counts as a citizen everywhere.
RolesHold(roles) ==
  IF roles = {} THEN HasRolePermission("CITIZEN")
                ELSE \E role \in roles : HasRolePermission(role)

\* What the database says now.
RoleTruth == RolesHold(Roles(assigned))

\* The user's cities and those below, with every link open within so many ticks.
RecentScope(ticks) == Managed(Assigned(assigned), {c \in City : openAge[c] <= ticks})

Init ==
  /\ assigned = [c \in City |-> None] /\ active = City
  /\ cache = [s \in Asked |-> 0] /\ check = [k \in Call |-> Idle]
  /\ roleAge = IF RoleTruth THEN 0 ELSE Bound + 1
  /\ openAge = [c \in City |-> 0]

\* History: what becomes true has age 0 from now on.
Observe ==
  /\ roleAge' = IF RoleTruth' THEN 0 ELSE roleAge
  /\ openAge' = [c \in City |-> IF c \in active' THEN 0 ELSE openAge[c]]

-----------------------------------------------------------------------------
(* The check *)

At(k, place) == check[k].at = place
Goto(k, to)  == check' = [check EXCEPT ![k] = to]
Answer(k, yes) ==
  Goto(k, [at |-> IF yes THEN "granted" ELSE "refused", scope |-> check[k].scope])

\* PermissionsGuard on a route with a permission.  A token that says super
\* admin passes it without coming here.
PermissionsGuard(k, scope) ==
  /\ At(k, "idle")
  /\ Goto(k, [at |-> "cache", scope |-> scope, waited |-> 0, roles |-> {},
              found |-> {}, left |-> {}, below |-> {}, todo |-> {}])
  /\ UNCHANGED <<assigned, active, cache, roleAge, openAge>>

\* Mutant: a hit starts the five minutes anew.
CacheRenewed(k) ==
  /\ At(k, "cache")
  /\ IF cache[check[k].scope] > 0
     THEN Answer(k, TRUE) /\ cache' = [cache EXCEPT ![check[k].scope] = TTL]
     ELSE Goto(k, [check[k] EXCEPT !.at = "assignments"]) /\ UNCHANGED cache
  /\ UNCHANGED <<assigned, active, roleAge, openAge>>

\* redis.get: a yes is the answer; a miss and a failure look the same.
ReadCache(k) ==
  /\ At(k, "cache")
  /\ \/ cache[check[k].scope] > 0 /\ Answer(k, TRUE)
     \/ Goto(k, [check[k] EXCEPT !.at = "assignments"])
  /\ UNCHANGED <<assigned, active, cache, roleAge, openAge>>

\* getUserCityAssignments: an error reads as no assignments.  Then the
\* permission of citizens decides, and it is not cached.
ReadAssignments(k) ==
  /\ At(k, "assignments")
  /\ \E rows \in {assigned, [c \in City |-> None]} :
       IF Assigned(rows) = {} THEN Answer(k, RolesHold({}))
       ELSE Goto(k, [check[k] EXCEPT !.at = "cities", !.roles = Roles(rows),
                                     !.found = Assigned(rows),
                                     !.left = IF check[k].scope = None THEN {}
                                                                       ELSE Assigned(rows)])
  /\ UNCHANGED <<assigned, active, cache, roleAge, openAge>>

\* getAllManagedCities goes on to its next city, in the order the rows came.
NextCity(k, city) ==
  /\ At(k, "cities") /\ check[k].todo = {} /\ city \in check[k].left
  /\ Goto(k, [check[k] EXCEPT !.found = @ \cup check[k].below, !.left = @ \ {city},
                              !.below = {}, !.todo = {city}])
  /\ UNCHANGED <<assigned, active, cache, roleAge, openAge>>

\* getChildCities asks for the active children of one more city.  The order of
\* its recursion is left open.
ReadChildren(k, city) ==
  /\ At(k, "cities") /\ city \in check[k].todo
  /\ LET children == {c \in active : Parent[c] = city}
     IN  Goto(k, [check[k] EXCEPT !.below = @ \cup children,
                                 !.todo = (@ \ {city}) \cup children])
  /\ UNCHANGED <<assigned, active, cache, roleAge, openAge>>

\* One of its queries fails: the assigned city is left without any below it.
ReadFails(k) ==
  /\ At(k, "cities") /\ check[k].todo # {}
  /\ Goto(k, [check[k] EXCEPT !.below = {}, !.todo = {}])
  /\ UNCHANGED <<assigned, active, cache, roleAge, openAge>>

\* isCityInScope; then the roles are looked at one by one, and a yes is to be
\* remembered.
CheckScope(k) ==
  /\ At(k, "cities") /\ check[k].todo = {} /\ check[k].left = {}
  /\ LET c == check[k]
     IN  IF (c.scope = None \/ c.scope \in c.found \cup c.below) /\ RolesHold(c.roles)
         THEN Goto(k, [c EXCEPT !.at = "set"])
         ELSE Answer(k, FALSE)
  /\ UNCHANGED <<assigned, active, cache, roleAge, openAge>>

\* redis.set, which may fail, and the answer.
SetCache(k) ==
  /\ At(k, "set")
  /\ cache' \in {cache, [cache EXCEPT ![check[k].scope] = TTL]}
  /\ Answer(k, TRUE)
  /\ UNCHANGED <<assigned, active, roleAge, openAge>>

\* The request is over, or its process dies.
EndRequest(k) ==
  /\ ~At(k, "idle")
  /\ Goto(k, Idle)
  /\ UNCHANGED <<assigned, active, cache, roleAge, openAge>>

-----------------------------------------------------------------------------
(* What changes under it *)

\* CityRoles: assignCityAdmin or the assignment of a registration.
Assign(city, role) ==
  /\ assigned' = [assigned EXCEPT ![city] = role]
  /\ UNCHANGED <<active, cache, check>>
  /\ Observe

\* POST, PATCH and DELETE of apps/city: a city is there or not.  Nobody asks
\* whether one without a parent is.
SetActive(city) ==
  /\ Parent[city] # None
  /\ active' \in {active \cup {city}, active \ {city}}
  /\ UNCHANGED <<assigned, cache, check>>
  /\ Observe

Older(age, now) == IF now \/ age = Bound + 1 THEN age ELSE age + 1

Tick ==
  /\ \A k \in Call : check[k] \in Check => check[k].waited < Slow
  /\ cache' = [s \in Asked |-> IF cache[s] = 0 THEN 0 ELSE cache[s] - 1]
  /\ check' = [k \in Call |->
       IF check[k] \in Check THEN [check[k] EXCEPT !.waited = @ + 1] ELSE check[k]]
  /\ roleAge' = Older(roleAge, RoleTruth)
  /\ openAge' = [c \in City |-> Older(openAge[c], c \in active)]
  /\ UNCHANGED <<assigned, active>>

Next ==
  \/ \E k \in Call, s \in Asked : PermissionsGuard(k, s)
  \/ \E k \in Call :
       \/ ReadCache(k)
       \/ ReadAssignments(k)
       \/ \E c \in City : NextCity(k, c) \/ ReadChildren(k, c)
       \/ ReadFails(k)
       \/ CheckScope(k)
       \/ SetCache(k)
       \/ EndRequest(k)
  \/ \E c \in Offices, r \in Role : Assign(c, r)
  \/ \E c \in City : SetActive(c)
  \/ Tick

Spec == Init /\ [][Next]_permissionVars

(***************************************************************************)
(* Properties                                                              *)
(***************************************************************************)

\* A permission that was taken from the user is granted for five minutes and
\* the time of a check at most: what is answered of the roles implements
\* StaleRead.
ByRole == INSTANCE StaleRead WITH
  Value  <- {"role"},
  None   <- "nothing",
  truth  <- IF RoleTruth THEN {"role"} ELSE {},
  age    <- [v \in {"role"} |-> roleAge],
  answer <- [k \in Call |-> IF At(k, "granted") THEN "role" ELSE "nothing"]

\* So is one for a city: it is below a city of the user, with every city on the
\* way active within that time, though perhaps never all of them at once.
ScopeIsRecent ==
  [][\A k \in Call :
       At(k, "granted")' /\ ~At(k, "granted") /\ check'[k].scope # None
         => check'[k].scope \in RecentScope(Bound)]_permissionVars

GrantsAreRecent == ByRole!Spec /\ ScopeIsRecent
=============================================================================
