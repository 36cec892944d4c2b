------------------------------ MODULE CityRoles ------------------------------
(***************************************************************************)
(* Roles and city assignments.  A super admin assigns a user to a city:    *)
(* apps/auth looks the user up, apps/core writes the assignment and then   *)
(* has apps/users copy its role into the user's row, which every token is  *)
(* minted from.  One row of a user stands against many assignments, the    *)
(* request to users has no timeout and may be lost, its failure is         *)
(* swallowed, two assignments may run at once, and PATCH /users/:id gives  *)
(* the row a role of its own, which no assignment hears of.                *)
(***************************************************************************)
CONSTANTS
  User,
  City,
  Call,   \* assignments that may be under way at once
  None

Role == {"SUPER_ADMIN", "CITY_ADMIN", "CITIZEN"}

VARIABLES
  role,      \* column role of table users; None: no row
  assigned,  \* table user_city_assignments
  call,      \* where each request stands
  latest,    \* history: the role the user was given last
  byHand,    \* history: users who were given it by POST or PATCH /users
  strayed    \* history: users with a copy of a role lost, failed or overtaken,
             \* and none since that was begun while no other was under way

roleVars == <<role, assigned, call, latest, byHand, strayed>>

Row   == [role : Role, managesAdmins : BOOLEAN, active : BOOLEAN]
NoRow == [active |-> FALSE]

\* "assign": auth has found the user.  "update": core has written the
\* assignment and waits for users.  "store": users has found the user.
\* "return": core will answer auth.
Idle    == [at |-> "idle"]
Pending == [at : {"assign", "update", "store", "return"}, user : User, city : City,
            role : Role]

TypeOK ==
  /\ role \in [User -> Role \cup {None}]
  /\ assigned \in [User \X City -> Row \cup {NoRow}]
  /\ call \in [Call -> Pending \cup {Idle}]
  /\ latest \in [User -> Role]
  /\ byHand \in SUBSET User
  /\ strayed \in SUBSET User

\* A user is registered as a citizen, or created by an administrator with any
\* role: create, POST /users, inserts the row and leaves the assignments alone.
Init ==
  /\ role \in [User -> Role]
  /\ assigned = [p \in User \X City |-> NoRow]
  /\ call = [k \in Call |-> Idle]
  /\ latest = role /\ byHand = User /\ strayed = {}

At(k, place) == call[k].at = place
Goto(k, at)  == call' = [call EXCEPT ![k].at = at]
Finish(k)    == call' = [call EXCEPT ![k] = Idle]
Stray(us)    == strayed' = strayed \cup us

\* The role of an assignment of the user is still to be copied.
Copying(k, u) == call[k].at \in {"update", "store"} /\ call[k].user = u

\* The user is given a role.  Another that is still to be copied overtakes it,
\* or is overtaken.
Give(u, r) ==
  /\ latest' = [latest EXCEPT ![u] = r]
  /\ strayed' = IF \E k \in Call : Copying(k, u) THEN strayed \cup {u} ELSE strayed \ {u}

-----------------------------------------------------------------------------

\* AuthService.assignCityAdmin: the requester is a super admin and the user
\* has a row.  The route asks for a super admin, so the other branch of the
\* method, and what it computes for canManageAdmins, is never used.
AssignCityAdmin(k, u) ==
  /\ At(k, "idle") /\ role[u] # None
  /\ \E city \in City, r \in Role :
       call' = [call EXCEPT ![k] = [at |-> "assign", user |-> u, city |-> city, role |-> r]]
  /\ UNCHANGED <<role, assigned, latest, byHand, strayed>>

\* CoreService.assignCityAdmin: the upsert, even for a user deleted since.
\* canManageAdmins does not come with the message and defaults to true.
UpsertAssignment(k) ==
  /\ At(k, "assign")
  /\ LET c == call[k]
     IN  /\ assigned' = [assigned EXCEPT ![<<c.user, c.city>>] =
              [role |-> c.role, managesAdmins |-> TRUE, active |-> TRUE]]
         /\ Give(c.user, c.role)
         /\ byHand' = byHand \ {c.user}
  /\ Goto(k, "update")
  /\ UNCHANGED role

\* Mutant: only an assignment that raises the user is copied.
FindUserToRaise(k) ==
  /\ At(k, "update")
  /\ IF call[k].role = "CITIZEN" THEN Goto(k, "return") ELSE Goto(k, "store")
  /\ UNCHANGED <<role, assigned, latest, byHand, strayed>>

\* updateUserRole of users: no row, no update, and core logs the failure.
FindUser(k) ==
  /\ At(k, "update")
  /\ IF role[call[k].user] # None
     THEN Goto(k, "store") /\ UNCHANGED strayed
     ELSE Goto(k, "return") /\ Stray({call[k].user})
  /\ UNCHANGED <<role, assigned, latest, byHand>>

\* Its update, which fails on a row that has gone.
StoreRole(k) ==
  /\ At(k, "store")
  /\ LET u == call[k].user
     IN  \/ role[u] # None /\ role' = [role EXCEPT ![u] = call[k].role] /\ UNCHANGED strayed
         \/ UNCHANGED role /\ Stray({u})
  /\ Goto(k, "return")
  /\ UNCHANGED <<assigned, latest, byHand>>

\* Core answers auth, which may have given up on it after 15 seconds: neither
\* learns whether the role was copied.
Return(k) ==
  /\ At(k, "return")
  /\ Finish(k)
  /\ UNCHANGED <<role, assigned, latest, byHand, strayed>>

\* The message to core or users is lost, or a process dies.  What core had
\* written stays; a message to users is waited for without end.
Lose(k) ==
  /\ call[k].at \in {"assign", "update", "store"}
  /\ IF At(k, "assign") THEN UNCHANGED strayed ELSE Stray({call[k].user})
  /\ Finish(k)
  /\ UNCHANGED <<role, assigned, latest, byHand>>

\* createUserCityAssignment, for a registration with a city, however late: the
\* unique index refuses a second row.  The user's role is left as it was.
CreateUserCityAssignment(u, city) ==
  /\ assigned[<<u, city>>] = NoRow
  /\ assigned' = [assigned EXCEPT ![<<u, city>>] =
       [role |-> "CITIZEN", managesAdmins |-> FALSE, active |-> TRUE]]
  /\ UNCHANGED <<role, call, latest, byHand, strayed>>

\* update, PATCH /users/:id: a request gives any row another role, and core is
\* not told.
Update(u) ==
  /\ role[u] # None
  /\ \E r \in Role : role' = [role EXCEPT ![u] = r] /\ Give(u, r)
  /\ byHand' = byHand \cup {u}
  /\ UNCHANGED <<assigned, call>>

\* The compensation of a registration deletes the row; the rest stays.
DeleteUser(u) ==
  /\ role[u] # None
  /\ role' = [role EXCEPT ![u] = None]
  /\ UNCHANGED <<assigned, call, latest, byHand, strayed>>

Next ==
  \/ \E k \in Call, u \in User : AssignCityAdmin(k, u)
  \/ \E k \in Call :
       \/ UpsertAssignment(k)
       \/ FindUser(k)
       \/ StoreRole(k)
       \/ Return(k)
       \/ Lose(k)
  \/ \E u \in User, c \in City : CreateUserCityAssignment(u, c)
  \/ \E u \in User : Update(u) \/ DeleteUser(u)

Spec == Init /\ [][Next]_roleVars

(***************************************************************************)
(* Properties                                                              *)
(***************************************************************************)

\* getUserAssignments, getUserCities: where the user is assigned, and as what.
GetUserAssignments(u) == {c \in City : assigned[<<u, c>>].active}
GetUserCities(u, r)   == {c \in GetUserAssignments(u) : assigned[<<u, c>>].role = r}

\* "Always update user's role in the users table to match the assignment":
\* with no role on its way, and once a copy that was lost or overtaken has been
\* followed by one that was not, the user has the role given last; and when an
\* assignment gave it, in whatever city, the user is assigned with it somewhere,
\* so that no admin role is left over from one that was taken back.
RoleMatchesAssignment ==
  \A u \in User :
    \/ u \in strayed \/ role[u] = None
    \/ \E k \in Call : Copying(k, u)
    \/ /\ role[u] = latest[u]
       /\ u \notin byHand => GetUserCities(u, role[u]) # {}
=============================================================================
