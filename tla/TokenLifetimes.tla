--------------------------- MODULE TokenLifetimes ---------------------------
(***************************************************************************)
(* How long a sign-in lasts: the tokens of libs/jwt, the guards that judge *)
(* a request by its token alone, and the key in redis that a refresh is    *)
(* compared with, each with a lifetime of its own.  login and              *)
(* refreshTokens read the user, and sign and store what they found a while *)
(* later.                                                                  *)
(*                                                                         *)
(* One user with several devices.  Session rows, and what AuthSessions     *)
(* says of handlers that overlap, are left out.                            *)
(***************************************************************************)
EXTENDS Naturals

CONSTANTS
  Device,
  Role,          \* the roles a user may get, of UserRole
  Route,         \* kinds of routes, by the decorator that restricts them
  None,
  AccessLife,    \* JWT_EXPIRES_IN, in ticks
  RefreshLife,   \* JWT_REFRESH_EXPIRES_IN
  KeyLife,       \* seven days, for the key in redis
  RememberLife,  \* thirty days
  Slow           \* ASSUMED: ticks a login or a refresh takes at most

\* The code fixes the lifetimes of the key; the configured ones fit them.
LifetimesAssumption ==
  /\ None \notin Device \cup {"login", "remember", "refresh"}
  /\ Role \subseteq {"SUPER_ADMIN", "CITY_ADMIN", "CITIZEN"}
  /\ Route \subseteq {"any", "city", "super"}
  /\ {AccessLife, RefreshLife, KeyLife, RememberLife} \subseteq Nat \ {0}
  /\ AccessLife <= RefreshLife /\ RefreshLife <= KeyLife /\ KeyLife <= RememberLife
  /\ Slow \in Nat

VARIABLES
  user,     \* role and isActive, as apps/users has them
  key,      \* the stored refresh token: the device that holds it, and ticks left
  device,   \* the tokens of each device
  job,      \* what each device waits for
  unsaved,  \* history: the last token was handed out without being stored
  keeps,    \* history: the devices with the newest token, nothing having failed since
  age       \* history: ticks since each kind of route was last open to the user

lifetimeVars == <<user, key, device, job, unsaved, keeps, age>>

Bound == AccessLife + Slow

Tokens == [access : 0 .. AccessLife, refresh : 0 .. RefreshLife,
           role : Role \cup {None}]  \* the role in the access token
Kind   == {"login", "remember", "refresh"}
Idle   == [kind |-> None]

TypeOK ==
  /\ user \in [role : Role, isActive : BOOLEAN]
  /\ key \in [by : Device \cup {None}, left : 0 .. RememberLife]
  /\ device \in [Device -> Tokens]
  /\ job \in [Device -> {Idle} \cup [kind : Kind, role : Role, waited : 0 .. Slow]]
  /\ unsaved \in BOOLEAN /\ keeps \subseteq Device
  /\ age \in [Route -> 0 .. Bound + 1]

\* numberToRole takes a number it does not know for CITIZEN: there is none.
Admits(route, role) ==
  CASE route = "any"   -> TRUE
    [] route = "city"  -> role \in {"CITY_ADMIN", "SUPER_ADMIN"}
    [] route = "super" -> role = "SUPER_ADMIN"

Stored   == key.left > 0
SignedIn == Stored \/ unsaved \/ \E d \in Device : job[d] # Idle

\* The routes open to the user: who is active, has signed in or is about to,
\* and has the role.
Open == {r \in Route : user.isActive /\ SignedIn /\ Admits(r, user.role)}

\* History: what is open before or after a step is open at that time.
Watch == age' = [r \in Route |-> IF r \in Open \/ r \in Open' THEN 0 ELSE age[r]]

Init ==
  /\ user \in [role : Role, isActive : {TRUE}]
  /\ key = [by |-> None, left |-> 0]
  /\ device = [d \in Device |-> [access |-> 0, refresh |-> 0, role |-> None]]
  /\ job = [d \in Device |-> Idle]
  /\ unsaved = FALSE /\ keeps = {}
  /\ age = [r \in Route |-> Bound + 1]

-----------------------------------------------------------------------------
\* apps/auth

Begin(d, kind) ==
  /\ job[d] = Idle
  /\ user.isActive
  /\ job' = [job EXCEPT ![d] = [kind |-> kind, role |-> user.role, waited |-> 0]]
  /\ UNCHANGED <<user, key, device, unsaved, keeps>>
  /\ Watch

Login(d) == \E kind \in {"login", "remember"} : Begin(d, kind)

\* The token's own lifetime counts, and what the key says of it.
VerifyRefreshToken(d) == device[d].refresh > 0
Refresh(d) == VerifyRefreshToken(d) /\ Stored /\ key.by = d /\ Begin(d, "refresh")

KeyTTL(kind) == IF kind = "remember" THEN RememberLife ELSE KeyLife

GenerateTokenPair(role) == [access |-> AccessLife, refresh |-> RefreshLife, role |-> role]

\* The pair is signed and its refresh token stored, if redis takes it; the
\* answer may not arrive.
StoreToken(d, taken, arrives) ==
  /\ job[d] # Idle
  /\ key' = IF taken
            THEN [by |-> IF arrives THEN d ELSE None, left |-> KeyTTL(job[d].kind)]
            ELSE IF arrives /\ key.by = d THEN [key EXCEPT !.by = None] ELSE key
  /\ device' = IF arrives
               THEN [device EXCEPT ![d] = GenerateTokenPair(job[d].role)] ELSE device
  /\ job' = [job EXCEPT ![d] = Idle]
  /\ unsaved' = (~taken /\ (arrives \/ unsaved))
  /\ keeps' = IF taken THEN IF arrives THEN {d} ELSE {}
              ELSE IF arrives THEN keeps \ {d} ELSE keeps
  /\ UNCHANGED <<user>>
  /\ Watch

\* The user service does not answer or knows the user no more.
GiveUp(d) ==
  /\ job[d] # Idle
  /\ job' = [job EXCEPT ![d] = Idle]
  /\ UNCHANGED <<user, key, device, unsaved, keeps>>
  /\ Watch

-----------------------------------------------------------------------------
\* Requests

\* JwtStrategy takes the role from the token: nobody is asked whether the
\* user still has it, or still is active.
Validate(d) == device[d].role

\* JwtAuthGuard, then AdminOnlyGuard.
CanActivate(d, route) == device[d].access > 0 /\ Admits(route, Validate(d))

\* POST /logout, of any device whose access token is good; the client keeps
\* its tokens, or another has them.
Logout(d) ==
  /\ device[d].access > 0
  /\ key' = [by |-> None, left |-> 0] /\ unsaved' = FALSE /\ keeps' = {}
  /\ UNCHANGED <<user, device, job>>
  /\ Watch

-----------------------------------------------------------------------------
\* PATCH and DELETE /users/:id.
UpdateUser(role, isActive) ==
  /\ user' = [role |-> role, isActive |-> isActive]
  /\ UNCHANGED <<key, device, job, unsaved, keeps>>
  /\ Watch

Less(n) == IF n = 0 THEN 0 ELSE n - 1

Tick ==
  /\ \A d \in Device : job[d] # Idle => job[d].waited < Slow
  /\ key' = IF key.left > 1 THEN [key EXCEPT !.left = @ - 1] ELSE [by |-> None, left |-> 0]
  /\ device' = [d \in Device |->
       [access |-> Less(device[d].access), refresh |-> Less(device[d].refresh),
        role |-> IF device[d].access > 1 THEN device[d].role ELSE None]]
  /\ job' = [d \in Device |->
       IF job[d] = Idle THEN Idle ELSE [job[d] EXCEPT !.waited = @ + 1]]
  /\ age' = [r \in Route |-> IF r \in Open THEN 0
                             ELSE IF age[r] > Bound THEN age[r] ELSE age[r] + 1]
  /\ UNCHANGED <<user, unsaved, keeps>>

Next ==
  \/ \E d \in Device :
       \/ Login(d)
       \/ Refresh(d)
       \/ \E taken, arrives \in BOOLEAN : StoreToken(d, taken, arrives)
       \/ GiveUp(d)
       \/ Logout(d)
  \/ \E role \in Role, isActive \in BOOLEAN : UpdateUser(role, isActive)
  \/ Tick

Spec == Init /\ [][Next]_lifetimeVars

-----------------------------------------------------------------------------
\* No revocation, demotion or deactivation reaches an access token, but it
\* outlives them by its own lifetime and the time a refresh takes at most: a
\* device is served only on routes that were open to the user that recently.
ServedIsRecent ==
  \A d \in Device, r \in Route : CanActivate(d, r) => age[r] <= Bound

\* A device with the newest tokens that comes back within the lifetime of
\* its refresh token finds it stored: the key never goes before the token.
TimelyReturn == \A d \in keeps : VerifyRefreshToken(d) => Stored /\ key.by = d
=============================================================================
