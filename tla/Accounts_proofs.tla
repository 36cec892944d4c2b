--------------------------- MODULE Accounts_proofs ---------------------------
(* Theorems about accounts and rights: what the run of MCAuth checks, for any *)
(* number of devices, requests, users and cities and any lifetimes.  One part *)
(* after the other has its invariant; at the end the behaviours of MCAuth are *)
(* shown to be behaviours of each part.                                       *)
EXTENDS MCAuth, TLAPS

(***************************************************************************)
(* CityRoles                                                               *)
(***************************************************************************)

\* The role an assignment gave last is that of some assignment, and a role on its
\* way is the one given last, unless it was overtaken.
StaffInv ==
  /\ Roles!TypeOK /\ Roles!RoleMatchesAssignment
  /\ \A u \in Staff \ byHand : Roles!GetUserCities(u, latest[u]) # {}
  /\ \A u \in Staff \ strayed, k \in Call : Roles!Copying(k, u) => call[k].role = latest[u]

LEMMA StaffInit == Roles!Init => StaffInv
<1> SUFFICES ASSUME Roles!Init PROVE StaffInv
  OBVIOUS
<1>1. Roles!TypeOK
  BY DEF Roles!Init, Roles!TypeOK
<1>2. QED
  BY <1>1 DEF Roles!Init, StaffInv, Roles!Copying, Roles!Idle, Roles!RoleMatchesAssignment

\* What the properties of a user rest on, beside the requests.
LEMMA SameRoles ==
  ASSUME UNCHANGED assigned, NEW u, NEW r
  PROVE  Roles!GetUserCities(u, r)' = Roles!GetUserCities(u, r)
BY DEF Roles!GetUserCities, Roles!GetUserAssignments

\* A request that writes neither table may stop copying only by straying.
LEMMA CallStep ==
  ASSUME StaffInv, NEW k \in Call, NEW c \in Roles!Pending \cup {Roles!Idle},
         call' = [call EXCEPT ![k] = c], UNCHANGED <<role, assigned, latest, byHand>>,
         strayed \subseteq strayed', strayed' \subseteq Staff,
         \A u \in Staff \ strayed' : Roles!Copying(k, u) => Roles!Copying(k, u)',
         c.at \in {"update", "store"} => Roles!Copying(k, c.user) /\ c.role = call[k].role
  PROVE  StaffInv'
<1>1. Roles!TypeOK'
  BY DEF StaffInv, Roles!TypeOK
<1>2. call'[k] = c /\ \A j \in Call \ {k} : call'[j] = call[j]
  BY DEF StaffInv, Roles!TypeOK
<1>3. ASSUME NEW u \in Staff \ strayed', NEW j \in Call, Roles!Copying(j, u)'
      PROVE  Roles!Copying(j, u) /\ call'[j].role = call[j].role
  BY <1>2, <1>3 DEF Roles!Copying
<1>4. ASSUME NEW u \in Staff \ strayed', NEW j \in Call, Roles!Copying(j, u)
      PROVE  Roles!Copying(j, u)'
  BY <1>2, <1>4 DEF Roles!Copying
<1>5. Roles!RoleMatchesAssignment'
  BY <1>4, SameRoles DEF StaffInv, Roles!RoleMatchesAssignment, Roles!Copying
<1>6. QED
  BY <1>1, <1>3, <1>5, SameRoles DEF StaffInv

LEMMA RolesAssignStep ==
  ASSUME StaffInv, NEW k \in Call, NEW u \in Staff, Roles!AssignCityAdmin(k, u)
  PROVE  StaffInv'
<1> PICK city \in City, r \in Roles!Role :
      call' = [call EXCEPT ![k] = [at |-> "assign", user |-> u, city |-> city, role |-> r]]
  BY DEF Roles!AssignCityAdmin
<1> DEFINE c == [at |-> "assign", user |-> u, city |-> city, role |-> r]
<1>1. c \in Roles!Pending
  BY DEF Roles!Pending
<1>2. \A v : ~Roles!Copying(k, v)
  BY DEF Roles!AssignCityAdmin, Roles!At, Roles!Copying
<1>3. strayed' = strayed /\ strayed \subseteq Staff
  BY DEF Roles!AssignCityAdmin, StaffInv, Roles!TypeOK
<1>4. QED
  BY <1>1, <1>2, <1>3, CallStep DEF Roles!AssignCityAdmin

\* Whoever gives a role gives the latest one, and what is still to be copied then
\* has strayed.
LEMMA GiveStep ==
  ASSUME StaffInv, NEW u \in Staff, NEW r \in Roles!Role, Roles!Give(u, r)
  PROVE  /\ latest' \in [Staff -> Roles!Role] /\ strayed' \in SUBSET Staff
         /\ latest'[u] = r /\ \A v \in Staff \ {u} : latest'[v] = latest[v]
         /\ \A v \in Staff \ {u} : v \in strayed' <=> v \in strayed
         /\ u \notin strayed' => \A k \in Call : ~Roles!Copying(k, u)
<1>1. latest' = [latest EXCEPT ![u] = r] /\ latest \in [Staff -> Roles!Role]
  BY DEF Roles!Give, StaffInv, Roles!TypeOK
<1>2. CASE \E k \in Call : Roles!Copying(k, u)
  BY <1>1, <1>2 DEF Roles!Give, StaffInv, Roles!TypeOK
<1>3. CASE ~ \E k \in Call : Roles!Copying(k, u)
  BY <1>1, <1>3 DEF Roles!Give, StaffInv, Roles!TypeOK
<1>4. QED
  BY <1>2, <1>3

\* The role of the assignment is the latest one, and whoever else copies a
\* role of this user has been overtaken.
LEMMA RolesUpsertStep ==
  ASSUME StaffInv, NEW k \in Call, Roles!UpsertAssignment(k)
  PROVE  StaffInv'
<1>1. call[k] \in Roles!Pending /\ call[k].at = "assign"
  BY DEF Roles!UpsertAssignment, Roles!At, StaffInv, Roles!TypeOK, Roles!Idle
<1>2. PICK u \in Staff, city \in City, r \in Roles!Role :
        u = call[k].user /\ city = call[k].city /\ r = call[k].role
  BY <1>1 DEF Roles!Pending
<1> DEFINE new == [role |-> r, managesAdmins |-> TRUE, active |-> TRUE]
<1>3. /\ call' = [call EXCEPT ![k].at = "update"]
      /\ assigned' = [assigned EXCEPT ![<<u, city>>] = new]
      /\ Roles!Give(u, r) /\ byHand' = byHand \ {u}
      /\ UNCHANGED role
  BY <1>2 DEF Roles!UpsertAssignment, Roles!Goto
<1> HIDE DEF new
<1>4. /\ call'[k] = [call[k] EXCEPT !.at = "update"] /\ call'[k] \in Roles!Pending
      /\ call'[k].at = "update" /\ call'[k].user = u /\ call'[k].role = r
      /\ \A j \in Call \ {k} : call'[j] = call[j]
  BY <1>1, <1>2, <1>3 DEF StaffInv, Roles!TypeOK, Roles!Pending
<1>5. new \in Roles!Row /\ new.active /\ new.role = r
  BY <1>2 DEF Roles!Row, new
<1>6. /\ assigned'[<<u, city>>] = new
      /\ \A v \in Staff \ {u}, d \in City : assigned'[<<v, d>>] = assigned[<<v, d>>]
  BY <1>2, <1>3 DEF StaffInv, Roles!TypeOK
<1>7. /\ latest' \in [Staff -> Roles!Role] /\ strayed' \in SUBSET Staff
      /\ latest'[u] = r /\ \A v \in Staff \ {u} : latest'[v] = latest[v]
      /\ \A v \in Staff \ {u} : v \in strayed' <=> v \in strayed
      /\ u \notin strayed' => \A j \in Call : ~Roles!Copying(j, u)
  BY <1>3, GiveStep
<1>8. Roles!TypeOK'
  <2>1. call' \in [Call -> Roles!Pending \cup {Roles!Idle}]
    BY <1>3, <1>4 DEF StaffInv, Roles!TypeOK
  <2>2. assigned' \in [Staff \X City -> Roles!Row \cup {Roles!NoRow}]
    BY <1>3, <1>5 DEF StaffInv, Roles!TypeOK
  <2>3. role' \in [Staff -> Roles!Role \cup {None}] /\ byHand' \in SUBSET Staff
    BY <1>3 DEF StaffInv, Roles!TypeOK
  <2>4. QED
    BY <1>7, <2>1, <2>2, <2>3 DEF Roles!TypeOK
<1>9. \A v \in Staff \ {u}, q \in Roles!Role :
        Roles!GetUserCities(v, q)' = Roles!GetUserCities(v, q)
  BY <1>6 DEF Roles!GetUserCities, Roles!GetUserAssignments
<1>10. city \in Roles!GetUserCities(u, r)'
  BY <1>2, <1>5, <1>6 DEF Roles!GetUserCities, Roles!GetUserAssignments
<1>11. \A v \in Staff : v \notin byHand' => Roles!GetUserCities(v, latest[v])' # {}
  <2> TAKE v \in Staff
  <2>1. CASE v = u
    BY <1>7, <1>10, <2>1
  <2>2. CASE v # u
    <3>1. latest'[v] = latest[v] /\ latest[v] \in Roles!Role /\ (v \in byHand' <=> v \in byHand)
      BY <1>3, <1>7, <2>2 DEF StaffInv, Roles!TypeOK
    <3>2. Roles!GetUserCities(v, latest[v])' = Roles!GetUserCities(v, latest[v])
      BY <1>9, <2>2, <3>1
    <3>3. QED
      BY <2>2, <3>1, <3>2 DEF StaffInv
  <2>3. QED
    BY <2>1, <2>2
<1>12. ASSUME NEW v \in Staff \ strayed', NEW j \in Call, Roles!Copying(j, v)'
       PROVE  call'[j].role = latest'[v]
  <2>1. CASE v = u
    <3>1. j # k => Roles!Copying(j, u)
      BY <1>4, <1>12, <2>1 DEF Roles!Copying
    <3>2. QED
      BY <1>4, <1>7, <1>12, <2>1, <3>1
  <2>2. CASE v # u
    <3>1. j # k
      BY <1>4, <1>12, <2>2 DEF Roles!Copying
    <3>2. call'[j] = call[j] /\ v \notin strayed /\ latest'[v] = latest[v]
      BY <1>4, <1>7, <2>2, <3>1
    <3>3. Roles!Copying(j, v)
      BY <1>12, <3>2 DEF Roles!Copying
    <3>4. QED
      BY <3>2, <3>3 DEF StaffInv
  <2>3. QED
    BY <2>1, <2>2
<1>13. Roles!RoleMatchesAssignment'
  <2> SUFFICES ASSUME NEW v \in Staff, v \notin strayed', role[v] # None,
                      \A j \in Call : ~Roles!Copying(j, v)'
               PROVE  role[v] = latest'[v]
                        /\ (v \notin byHand' => Roles!GetUserCities(v, role[v])' # {})
    BY <1>3 DEF Roles!RoleMatchesAssignment, Roles!Copying
  <2>1. v # u
    BY <1>4 DEF Roles!Copying
  <2>2. \A j \in Call : ~Roles!Copying(j, v)
    BY <1>1, <1>4 DEF Roles!Copying
  <2>3. role[v] \in Roles!Role /\ v \notin strayed /\ (v \in byHand' <=> v \in byHand)
    BY <1>3, <1>7, <2>1 DEF StaffInv, Roles!TypeOK
  <2>4. role[v] = latest[v] /\ (v \notin byHand => Roles!GetUserCities(v, role[v]) # {})
    BY <2>2, <2>3 DEF StaffInv, Roles!RoleMatchesAssignment
  <2>5. Roles!GetUserCities(v, latest[v])' # {} \/ v \in byHand
    <3>1. PICK q \in Roles!Role : q = role[v] /\ q = latest[v] /\ q = role'[v] /\ q = latest'[v]
      BY <1>3, <1>7, <2>1, <2>3, <2>4
    <3>2. Roles!GetUserCities(v, q)' = Roles!GetUserCities(v, q)
      BY <1>9, <2>1
    <3>3. QED
      BY <1>3, <2>4, <3>1, <3>2
  <2>6. QED
    BY <1>3, <1>7, <2>1, <2>3, <2>4, <2>5
<1>14. QED
  BY <1>8, <1>11, <1>12, <1>13 DEF StaffInv

\* A role given by hand is the latest at once, and in the row at once.
LEMMA RolesUpdateStep ==
  ASSUME StaffInv, NEW u \in Staff, Roles!Update(u)
  PROVE  StaffInv'
<1>1. PICK r \in Roles!Role : role' = [role EXCEPT ![u] = r] /\ Roles!Give(u, r)
  BY DEF Roles!Update
<1>2. byHand' = byHand \cup {u} /\ UNCHANGED <<assigned, call>>
  BY DEF Roles!Update
<1>3. /\ latest' \in [Staff -> Roles!Role] /\ strayed' \in SUBSET Staff
      /\ latest'[u] = r /\ \A v \in Staff \ {u} : latest'[v] = latest[v]
      /\ \A v \in Staff \ {u} : v \in strayed' <=> v \in strayed
      /\ u \notin strayed' => \A k \in Call : ~Roles!Copying(k, u)
  BY <1>1, GiveStep
<1>4. role'[u] = r /\ \A v \in Staff \ {u} : role'[v] = role[v]
  BY <1>1 DEF StaffInv, Roles!TypeOK
<1>5. Roles!TypeOK'
  BY <1>1, <1>2, <1>3 DEF StaffInv, Roles!TypeOK
<1>6. \A v, q : Roles!GetUserCities(v, q)' = Roles!GetUserCities(v, q)
  BY <1>2, SameRoles
<1>7. \A v \in Staff : v \notin byHand' => Roles!GetUserCities(v, latest[v])' # {}
  BY <1>2, <1>3, <1>6 DEF StaffInv
<1>8. \A v \in Staff : \A k \in Call : Roles!Copying(k, v)' <=> Roles!Copying(k, v)
  BY <1>2 DEF Roles!Copying
<1>9. \A v \in Staff \ strayed', k \in Call : (Roles!Copying(k, v) => call[k].role = latest[v])'
  BY <1>2, <1>3, <1>8 DEF StaffInv
<1>10. Roles!RoleMatchesAssignment'
  <2> SUFFICES ASSUME NEW v \in Staff, v \notin strayed', role'[v] # None,
                      \A k \in Call : ~Roles!Copying(k, v)'
               PROVE  role'[v] = latest'[v]
                        /\ (v \notin byHand' => Roles!GetUserCities(v, role[v])' # {})
    BY DEF Roles!RoleMatchesAssignment
  <2>1. CASE v = u
    BY <1>2, <1>3, <1>4, <2>1
  <2>2. CASE v # u
    <3>1. role[v] = latest[v] /\ (v \notin byHand => Roles!GetUserCities(v, role[v]) # {})
      BY <1>3, <1>4, <1>8, <2>2 DEF StaffInv, Roles!RoleMatchesAssignment
    <3>2. QED
      BY <1>2, <1>3, <1>4, <1>6, <2>2, <3>1
  <2>3. QED
    BY <2>1, <2>2
<1>11. QED
  BY <1>5, <1>7, <1>9, <1>10 DEF StaffInv

LEMMA RolesFindStep ==
  ASSUME StaffInv, NEW k \in Call, Roles!FindUser(k)
  PROVE  StaffInv'
<1>1. call[k] \in Roles!Pending /\ call[k].at = "update"
  BY DEF Roles!FindUser, Roles!At, StaffInv, Roles!TypeOK, Roles!Idle
<1>2. UNCHANGED <<role, assigned, latest, byHand>>
  BY DEF Roles!FindUser
<1>3. ASSUME NEW at \in {"store", "return"}, Roles!Goto(k, at), strayed \subseteq strayed',
             strayed' \subseteq Staff, at = "return" => call[k].user \in strayed'
      PROVE  StaffInv'
  <2> DEFINE c == [call[k] EXCEPT !.at = at]
  <2>1. c \in Roles!Pending /\ c.at = at /\ c.user = call[k].user /\ c.role = call[k].role
    BY <1>1 DEF Roles!Pending
  <2>2. call' = [call EXCEPT ![k] = c] /\ call'[k] = c
    BY <1>3 DEF Roles!Goto, StaffInv, Roles!TypeOK
  <2> HIDE DEF c
  <2>3. \A u \in Staff \ strayed' : Roles!Copying(k, u) => Roles!Copying(k, u)'
    BY <1>3, <2>1, <2>2 DEF Roles!Copying
  <2>4. c.at \in {"update", "store"} => Roles!Copying(k, c.user) /\ c.role = call[k].role
    BY <1>1, <2>1 DEF Roles!Copying
  <2>5. QED
    BY <1>2, <1>3, <2>1, <2>2, <2>3, <2>4, CallStep
<1>4. call[k].user \in Staff /\ strayed \subseteq Staff
  BY <1>1 DEF Roles!Pending, StaffInv, Roles!TypeOK
<1>5. QED
  BY <1>3, <1>4 DEF Roles!FindUser, Roles!Stray

\* The role that is stored is the latest, or the user has been overtaken.
LEMMA RolesStoreStep ==
  ASSUME StaffInv, NEW k \in Call, Roles!StoreRole(k)
  PROVE  StaffInv'
<1>1. call[k] \in Roles!Pending /\ call[k].at = "store"
  BY DEF Roles!StoreRole, Roles!At, StaffInv, Roles!TypeOK, Roles!Idle
<1>2. PICK u \in Staff, r \in Roles!Role : u = call[k].user /\ r = call[k].role
  BY <1>1 DEF Roles!Pending
<1>3. /\ call' = [call EXCEPT ![k].at = "return"]
      /\ UNCHANGED <<assigned, latest, byHand>>
      /\ \/ role' = [role EXCEPT ![u] = r] /\ UNCHANGED strayed
         \/ UNCHANGED role /\ strayed' = strayed \cup {u}
  BY <1>2 DEF Roles!StoreRole, Roles!Goto, Roles!Stray
<1>4. /\ call'[k] \in Roles!Pending /\ call'[k].at = "return"
      /\ \A j \in Call \ {k} : call'[j] = call[j]
  BY <1>1, <1>3 DEF StaffInv, Roles!TypeOK, Roles!Pending
<1>5. Roles!TypeOK'
  BY <1>3, <1>4 DEF StaffInv, Roles!TypeOK
<1>6. ASSUME NEW v \in Staff, NEW j \in Call, Roles!Copying(j, v)'
      PROVE  Roles!Copying(j, v) /\ call'[j] = call[j]
  BY <1>4, <1>6 DEF Roles!Copying
<1>7. \A v \in Staff \ strayed', j \in Call : (Roles!Copying(j, v) => call[j].role = latest[v])'
  BY <1>3, <1>6 DEF StaffInv
<1>8. Roles!RoleMatchesAssignment'
  <2> SUFFICES ASSUME NEW v \in Staff, v \notin strayed', role'[v] # None,
                      \A j \in Call : ~Roles!Copying(j, v)'
               PROVE  role'[v] = latest[v]
                        /\ (v \notin byHand => Roles!GetUserCities(v, role[v]) # {})'
    BY <1>3 DEF Roles!RoleMatchesAssignment, Roles!Copying
  <2>1. CASE v = u
    <3>1. role'[v] = latest[v]
      BY <1>1, <1>2, <1>3, <2>1 DEF StaffInv, Roles!TypeOK, Roles!Copying
    <3>2. QED
      BY <1>3, <3>1, SameRoles DEF StaffInv
  <2>2. CASE v # u
    <3>1. \A j \in Call : ~Roles!Copying(j, v)
      BY <1>1, <1>2, <1>4, <2>2 DEF Roles!Copying
    <3>2. role'[v] = role[v] /\ v \notin strayed
      BY <1>3, <2>2 DEF StaffInv, Roles!TypeOK
    <3>3. QED
      BY <1>3, <3>1, <3>2, SameRoles DEF StaffInv, Roles!RoleMatchesAssignment, Roles!Copying
  <2>3. QED
    BY <2>1, <2>2
<1>9. QED
  BY <1>3, <1>5, <1>7, <1>8, SameRoles DEF StaffInv

LEMMA RolesEndStep ==
  ASSUME StaffInv, NEW k \in Call, Roles!Return(k) \/ Roles!Lose(k)
  PROVE  StaffInv'
<1>1. UNCHANGED <<role, assigned, latest, byHand>> /\ Roles!Idle.at = "idle"
  BY DEF Roles!Return, Roles!Lose, Roles!Idle
<1>2. call' = [call EXCEPT ![k] = Roles!Idle]
  BY DEF Roles!Return, Roles!Lose, Roles!Finish
<1>3. strayed \subseteq strayed' /\ strayed' \subseteq Staff
  <2>1. Roles!Lose(k) => call[k] \in Roles!Pending
    BY DEF Roles!Lose, StaffInv, Roles!TypeOK, Roles!Idle
  <2>2. QED
    BY <2>1 DEF Roles!Return, Roles!Lose, Roles!Stray, Roles!Pending, StaffInv, Roles!TypeOK
<1>4. \A u \in Staff \ strayed' : ~Roles!Copying(k, u)
  BY DEF Roles!Return, Roles!Lose, Roles!At, Roles!Stray, Roles!Copying
<1>5. QED
  BY <1>1, <1>2, <1>3, <1>4, CallStep

\* A registration writes an assignment where there is none.
LEMMA RolesCreateStep ==
  ASSUME StaffInv, NEW u \in Staff, NEW city \in City,
         Roles!CreateUserCityAssignment(u, city)
  PROVE  StaffInv'
<1> DEFINE new == [role |-> "CITIZEN", managesAdmins |-> FALSE, active |-> TRUE]
<1>1. /\ assigned' = [assigned EXCEPT ![<<u, city>>] = new]
      /\ ~assigned[<<u, city>>].active
      /\ UNCHANGED <<role, call, latest, byHand, strayed>>
  BY DEF Roles!CreateUserCityAssignment, Roles!NoRow
<1>2. new \in Roles!Row
  BY DEF Roles!Row, Roles!Role
<1> HIDE DEF new
<1>3. Roles!TypeOK'
  BY <1>1, <1>2 DEF StaffInv, Roles!TypeOK
<1>4. \A v \in Staff, r \in Roles!Role : Roles!GetUserCities(v, r) \subseteq Roles!GetUserCities(v, r)'
  <2>1. \A v \in Staff, c \in City :
          assigned[<<v, c>>].active => assigned'[<<v, c>>] = assigned[<<v, c>>]
    BY <1>1 DEF StaffInv, Roles!TypeOK
  <2>2. QED
    BY <2>1 DEF Roles!GetUserCities, Roles!GetUserAssignments
<1>5. \A v \in Staff : latest[v] \in Roles!Role
  BY DEF StaffInv, Roles!TypeOK
<1>6. \A v \in Staff \ byHand : Roles!GetUserCities(v, latest[v])' # {}
  BY <1>1, <1>4, <1>5 DEF StaffInv
<1>7. Roles!RoleMatchesAssignment'
  BY <1>1, <1>6 DEF StaffInv, Roles!RoleMatchesAssignment, Roles!Copying
<1>8. QED
  BY <1>1, <1>3, <1>6, <1>7 DEF StaffInv, Roles!Copying

LEMMA RolesDeleteStep ==
  ASSUME StaffInv, NEW u \in Staff, Roles!DeleteUser(u)
  PROVE  StaffInv'
<1>1. UNCHANGED <<assigned, call, latest, byHand, strayed>> /\ role' = [role EXCEPT ![u] = None]
  BY DEF Roles!DeleteUser
<1>2. Roles!TypeOK' /\ \A v \in Staff : role'[v] \in {None, role[v]}
  BY <1>1 DEF StaffInv, Roles!TypeOK
<1>3. Roles!RoleMatchesAssignment'
  <2> SUFFICES ASSUME NEW v \in Staff, v \notin strayed', role'[v] # None,
                      \A j \in Call : ~Roles!Copying(j, v)'
               PROVE  (role[v] = latest[v] /\ (v \notin byHand => Roles!GetUserCities(v, role[v]) # {}))'
    BY DEF Roles!RoleMatchesAssignment, Roles!Copying
  <2>1. role'[v] = role[v] /\ v \notin strayed /\ \A j \in Call : ~Roles!Copying(j, v)
    BY <1>1, <1>2 DEF Roles!Copying
  <2>2. QED
    BY <1>1, <2>1, SameRoles DEF StaffInv, Roles!RoleMatchesAssignment, Roles!Copying
<1>4. QED
  BY <1>1, <1>2, <1>3, SameRoles DEF StaffInv, Roles!Copying

LEMMA StaffStep == StaffInv /\ [Roles!Next]_roleVars => StaffInv'
<1> SUFFICES ASSUME StaffInv, [Roles!Next]_roleVars PROVE StaffInv'
  OBVIOUS
<1>1. CASE UNCHANGED roleVars
  BY <1>1, SameRoles DEF roleVars, StaffInv, Roles!TypeOK, Roles!RoleMatchesAssignment, Roles!Copying
<1>2. CASE Roles!Next
  BY <1>2, RolesAssignStep, RolesUpsertStep, RolesFindStep, RolesStoreStep,
     RolesEndStep, RolesCreateStep, RolesUpdateStep, RolesDeleteStep DEF Roles!Next
<1>3. QED
  BY <1>1, <1>2

\* What CityRoles says of RoleMatchesAssignment, for any number of requests,
\* users and cities: the role a user is left with is the one given last, by an
\* assignment or by PATCH, unless its copy failed or was overtaken and no later
\* one went through alone.
THEOREM RolesFollow == Roles!Spec => []Roles!RoleMatchesAssignment
<1>1. StaffInv => Roles!RoleMatchesAssignment
  BY DEF StaffInv
<1>2. QED
  BY <1>1, StaffInit, StaffStep, PTL DEF Roles!Spec, Roles!roleVars, roleVars

(***************************************************************************)
(* TermsOfUse                                                              *)
(***************************************************************************)

\* A request that puts latest terms into the slot.
Announcing(k, slot) ==
  termsJob[k].at # "idle" /\ termsJob[k].latest = TRUE /\ termsJob[k].slot = slot

\* What a request knows of the row it is about to update.
TermsJobInv(k) ==
  LET j == termsJob[k]
  IN  j.at # "idle" =>
        /\ IF j.id = None THEN j.latest # None
           ELSE terms[j.id] # Terms!NoRow /\ terms[j.id].slot = j.slot
        /\ j.at = "unmark" => j.latest = TRUE

\* Two requests on one slot have overlapped; and where they have not, the old
\* terms of a slot are unmarked when the new ones are written.
SlotInv(slot) ==
  /\ \A k, l \in Call : Announcing(k, slot) /\ Announcing(l, slot) /\ k # l => slot \in overlapped
  /\ \A k \in Call : Announcing(k, slot) /\ termsJob[k].at = "write" /\ slot \notin overlapped =>
       Terms!Latest(slot) \subseteq {termsJob[k].id}

TermsInv ==
  /\ Terms!TypeOK /\ Terms!OneLatest
  /\ \A k \in Call : TermsJobInv(k)
  /\ \A slot \in Terms!Slot : SlotInv(slot)

LEMMA TermsInit == Terms!Init => TermsInv
<1> SUFFICES ASSUME Terms!Init PROVE TermsInv
  OBVIOUS
<1> USE HostedAssumption DEF Terms!TermsAssumption
<1>1. Terms!TypeOK /\ Terms!OneLatest
  BY DEF Terms!Init, Terms!TypeOK, Terms!OneLatest
<1>2. QED
  BY <1>1 DEF Terms!Init, TermsInv, TermsJobInv, SlotInv, Announcing, Terms!Idle

\* Requests but k are where they were.
LEMMA OtherRequests ==
  ASSUME TermsInv, NEW k \in Call, NEW j \in Terms!Job \cup {Terms!Idle},
         termsJob' = [termsJob EXCEPT ![k] = j]
  PROVE  /\ termsJob' \in [Call -> Terms!Job \cup {Terms!Idle}]
         /\ termsJob'[k] = j
         /\ \A c \in Call \ {k} : termsJob'[c] = termsJob[c]
BY DEF TermsInv, Terms!TypeOK

\* A new request is about to unmark the others, or announces nothing.
LEMMA TermsBeginStep ==
  ASSUME TermsInv, NEW k \in Call, NEW id \in Terms!Terms \cup {None}, NEW slot \in Terms!Slot,
         NEW version \in Version, NEW latest1 \in BOOLEAN \cup {None},
         IF id = None THEN latest1 # None ELSE terms[id] # Terms!NoRow /\ terms[id].slot = slot,
         Terms!At(k, "idle"), Terms!Begin(k, id, slot, version, latest1),
         UNCHANGED <<terms, announced, broken>>
  PROVE  TermsInv'
<1> DEFINE j == [at |-> IF latest1 = TRUE THEN "unmark" ELSE "write",
                 id |-> id, slot |-> slot, version |-> version, latest |-> latest1]
<1>1. termsJob' = [termsJob EXCEPT ![k] = j]
  BY DEF Terms!Begin, Terms!UnmarksOthers
<1>2. j \in Terms!Job /\ j.at # "idle" /\ j.id = id /\ j.slot = slot /\ j.latest = latest1
        /\ (j.at = "unmark" <=> latest1 = TRUE) /\ (j.at = "write" <=> latest1 # TRUE)
  BY DEF Terms!Job
<1> HIDE DEF j
<1>3. /\ termsJob' \in [Call -> Terms!Job \cup {Terms!Idle}] /\ termsJob'[k] = j
      /\ \A c \in Call \ {k} : termsJob'[c] = termsJob[c]
  BY <1>1, <1>2, OtherRequests
<1>4. overlapped' = IF latest1 = TRUE /\ Terms!Racing(k, slot)
                    THEN overlapped \cup {slot} ELSE overlapped
  BY DEF Terms!Begin
<1>5. Terms!TypeOK'
  BY <1>3, <1>4 DEF TermsInv, Terms!TypeOK
<1>6. \A c \in Call : \A s : Announcing(c, s) => Announcing(c, s)'
  BY <1>3 DEF Announcing, Terms!At
<1>7. \A s : Terms!Latest(s)' = Terms!Latest(s)
  BY DEF Terms!Latest
<1>8. Terms!OneLatest'
  BY <1>4, <1>6, <1>7 DEF TermsInv, Terms!OneLatest, Announcing, Terms!At
<1>9. ASSUME NEW c \in Call PROVE TermsJobInv(c)'
  <2>1. CASE c = k
    BY <1>2, <1>3, <2>1 DEF TermsJobInv
  <2>2. CASE c # k
    BY <1>3, <2>2 DEF TermsInv, TermsJobInv
  <2>3. QED
    BY <2>1, <2>2
<1>10. ASSUME NEW s \in Terms!Slot PROVE SlotInv(s)'
  <2>1. ASSUME NEW c \in Call \ {k}, Announcing(c, s)', Announcing(k, s)' PROVE s \in overlapped'
    BY <1>2, <1>3, <1>4, <2>1 DEF Announcing, Terms!Racing, Terms!At
  <2>2. ASSUME NEW c \in Call \ {k} PROVE Announcing(c, s)' <=> Announcing(c, s)
    BY <1>3 DEF Announcing
  <2>3. ASSUME NEW c \in Call, NEW d \in Call, Announcing(c, s)', Announcing(d, s)', c # d
        PROVE  s \in overlapped'
    BY <1>4, <2>1, <2>2, <2>3 DEF TermsInv, SlotInv
  <2>4. ASSUME NEW c \in Call, Announcing(c, s)', termsJob'[c].at = "write", s \notin overlapped'
        PROVE  Terms!Latest(s)' \subseteq {termsJob'[c].id}
    <3>1. c # k
      BY <1>2, <1>3, <2>4 DEF Announcing
    <3>2. QED
      BY <1>3, <1>4, <1>7, <2>2, <2>4, <3>1 DEF TermsInv, SlotInv
  <2>5. QED
    BY <2>3, <2>4 DEF SlotInv
<1>11. QED
  BY <1>5, <1>8, <1>9, <1>10 DEF TermsInv

LEMMA TermsBegin ==
  ASSUME TermsInv, NEW k \in Call,
         Terms!CreateTerms(k) \/ \E t \in Terms!Terms : Terms!UpdateTerms(k, t)
  PROVE  TermsInv'
<1> USE HostedAssumption DEF Terms!TermsAssumption
<1>1. CASE Terms!CreateTerms(k)
  <2> PICK slot \in Terms!Slot, version \in Version, latest1 \in BOOLEAN :
        Terms!Begin(k, None, slot, version, latest1)
    BY <1>1 DEF Terms!CreateTerms
  <2>1. latest1 # None
    OBVIOUS
  <2>2. QED
    BY <1>1, <2>1, TermsBeginStep DEF Terms!CreateTerms
<1>2. ASSUME NEW t \in Terms!Terms, Terms!UpdateTerms(k, t) PROVE TermsInv'
  <2>1. terms[t] \in Terms!Row /\ t # None
    BY <1>2 DEF Terms!UpdateTerms, TermsInv, Terms!TypeOK
  <2>2. terms[t].slot \in Terms!Slot /\ terms[t].version \in Version
    BY <2>1 DEF Terms!Row
  <2> PICK latest1 \in BOOLEAN \cup {None} :
        Terms!Begin(k, t, terms[t].slot, terms[t].version, latest1)
    BY <1>2 DEF Terms!UpdateTerms
  <2>3. QED
    BY <1>2, <2>1, <2>2, TermsBeginStep DEF Terms!UpdateTerms
<1>3. QED
  BY <1>1, <1>2

\* Marks go, rows stay.
LEMMA TermsUnmarkStep ==
  ASSUME TermsInv, NEW k \in Call, Terms!UnmarkLatest(k)
  PROVE  TermsInv'
<1>1. termsJob[k] \in Terms!Job /\ termsJob[k].at = "unmark" /\ termsJob[k].latest = TRUE
  BY DEF Terms!UnmarkLatest, Terms!At, TermsInv, TermsJobInv, Terms!TypeOK, Terms!Idle
<1>2. PICK slot \in Terms!Slot, id \in Terms!Terms \cup {None} :
        slot = termsJob[k].slot /\ id = termsJob[k].id
  BY <1>1 DEF Terms!Job
<1> DEFINE j == [termsJob[k] EXCEPT !.at = "write"]
<1>3. /\ j \in Terms!Job /\ j.at = "write" /\ j.id = id /\ j.slot = slot /\ j.latest = TRUE
      /\ j.latest = termsJob[k].latest
  BY <1>1, <1>2 DEF Terms!Job
<1>4. termsJob' = [termsJob EXCEPT ![k] = j] /\ UNCHANGED announced
  BY DEF Terms!UnmarkLatest
<1> HIDE DEF j
<1>5. /\ termsJob' \in [Call -> Terms!Job \cup {Terms!Idle}] /\ termsJob'[k] = j
      /\ \A c \in Call \ {k} : termsJob'[c] = termsJob[c]
  BY <1>3, <1>4, OtherRequests
<1>6. /\ terms' = [t \in Terms!Terms |->
           IF t \in Terms!Latest(slot) \ {id} THEN [terms[t] EXCEPT !.latest = FALSE]
                                              ELSE terms[t]]
      /\ IF Terms!Racing(k, slot) THEN UNCHANGED <<overlapped, broken>>
         ELSE overlapped' = overlapped \ {slot} /\ broken' = broken \ {slot}
  BY <1>2 DEF Terms!UnmarkLatest
<1>7. \A t \in Terms!Latest(slot) : terms[t] \in Terms!Row /\ t \in Terms!Terms
  BY DEF TermsInv, Terms!TypeOK, Terms!Latest, Terms!NoRow
<1>8. ASSUME NEW t \in Terms!Terms
      PROVE  /\ terms'[t] \in Terms!Row \cup {Terms!NoRow}
             /\ terms'[t] = Terms!NoRow <=> terms[t] = Terms!NoRow
             /\ terms[t] # Terms!NoRow => terms'[t].slot = terms[t].slot
             /\ terms'[t].latest => terms[t].latest /\ terms'[t] = terms[t]
             /\ t \in Terms!Latest(slot) \ {id} => ~terms'[t].latest
             /\ t \notin Terms!Latest(slot) \ {id} => terms'[t] = terms[t]
  <2>1. CASE t \in Terms!Latest(slot) \ {id}
    <3> DEFINE r == [terms[t] EXCEPT !.latest = FALSE]
    <3>1. r \in Terms!Row /\ r.latest = FALSE /\ r.slot = terms[t].slot
      BY <1>7, <2>1 DEF Terms!Row
    <3>2. Terms!NoRow \notin Terms!Row
      BY DEF Terms!NoRow, Terms!Row
    <3>3. terms'[t] = r
      BY <1>6, <2>1
    <3> HIDE DEF r
    <3>4. QED
      BY <1>7, <2>1, <3>1, <3>2, <3>3
  <2>2. CASE t \notin Terms!Latest(slot) \ {id}
    BY <1>6, <2>2 DEF TermsInv, Terms!TypeOK
  <2>3. QED
    BY <2>1, <2>2
<1>9. Terms!TypeOK'
  <2>1. terms' \in [Terms!Terms -> Terms!Row \cup {Terms!NoRow}]
    BY <1>6, <1>8
  <2>2. QED
    BY <1>4, <1>5, <1>6, <2>1 DEF TermsInv, Terms!TypeOK
<1>10. Terms!Latest(slot)' \subseteq {id} /\ Terms!Latest(slot)' \subseteq Terms!Latest(slot)
  BY <1>8 DEF Terms!Latest
<1>11. \A s \in Terms!Slot \ {slot} : Terms!Latest(s)' = Terms!Latest(s)
  BY <1>8 DEF Terms!Latest
<1>12. \A c \in Call : \A s : Announcing(c, s)' <=> Announcing(c, s)
  BY <1>1, <1>2, <1>3, <1>5 DEF Announcing
<1>13. Announcing(k, slot) /\ (Terms!Racing(k, slot) <=> \E c \in Call \ {k} : Announcing(c, slot))
  BY <1>1, <1>2 DEF Announcing, Terms!Racing, Terms!At
<1>14. Terms!OneLatest'
  <2> SUFFICES ASSUME NEW s \in announced \ broken', \A c \in Call : ~Announcing(c, s)
               PROVE  \/ \E t \in Terms!Terms : Terms!Latest(s)' = {t}
                      \/ s \in overlapped' /\ Terms!Latest(s)' # {}
    BY <1>4, <1>12 DEF Terms!OneLatest, Announcing, Terms!At, Terms!Terms
  <2>1. s # slot /\ s \in Terms!Slot /\ s \notin broken
    BY <1>6, <1>13 DEF TermsInv, Terms!TypeOK
  <2>2. (s \in overlapped => s \in overlapped') /\ Terms!Latest(s)' = Terms!Latest(s)
    BY <1>6, <1>11, <2>1
  <2>3. QED
    BY <2>1, <2>2 DEF TermsInv, Terms!OneLatest, Announcing, Terms!At
<1>15. ASSUME NEW c \in Call PROVE TermsJobInv(c)'
  <2>1. \A d \in Call : termsJob[d].at # "idle" /\ termsJob[d].id # None => termsJob[d].id \in Terms!Terms
    BY DEF TermsInv, Terms!TypeOK, Terms!Job, Terms!Idle
  <2>2. CASE c = k
    BY <1>1, <1>2, <1>3, <1>5, <1>8, <2>1, <2>2 DEF TermsInv, TermsJobInv
  <2>3. CASE c # k
    BY <1>5, <1>8, <2>1, <2>3 DEF TermsInv, TermsJobInv
  <2>4. QED
    BY <2>2, <2>3
<1>16. ASSUME NEW s \in Terms!Slot PROVE SlotInv(s)'
  <2>1. CASE s = slot
    <3>1. ASSUME NEW c \in Call, NEW d \in Call, Announcing(c, s), Announcing(d, s), c # d
          PROVE  s \in overlapped'
      BY <1>6, <1>13, <2>1, <3>1 DEF TermsInv, SlotInv
    <3>2. ASSUME NEW c \in Call, Announcing(c, s), termsJob'[c].at = "write", s \notin overlapped'
          PROVE  Terms!Latest(s)' \subseteq {termsJob'[c].id}
      <4>1. CASE c = k
        BY <1>3, <1>5, <1>10, <2>1, <4>1
      <4>2. CASE c # k
        BY <1>13, <2>1, <3>1, <3>2, <4>2
      <4>3. QED
        BY <4>1, <4>2
    <3>3. QED
      BY <1>12, <3>1, <3>2 DEF SlotInv
  <2>2. CASE s # slot
    <3>1. s \in overlapped <=> s \in overlapped'
      BY <1>6, <2>2
    <3>2. ~Announcing(k, s)
      BY <1>2, <2>2 DEF Announcing
    <3>3. QED
      BY <1>5, <1>11, <1>12, <2>2, <3>1, <3>2 DEF TermsInv, SlotInv
  <2>3. QED
    BY <2>1, <2>2
<1>17. QED
  BY <1>9, <1>14, <1>15, <1>16 DEF TermsInv

\* A request ends: it has left the marks of a slot alone, taken one away by
\* an update, or put its own where no other is, unless two have overlapped.
LEMMA TermsEndStep ==
  ASSUME TermsInv, NEW k \in Call, Terms!Finish(k), UNCHANGED overlapped,
         termsJob[k].at = "write", Terms!TypeOK',
         \A t \in Terms!Terms : terms[t] # Terms!NoRow =>
           terms'[t] # Terms!NoRow /\ terms'[t].slot = terms[t].slot,
         \A s \in Terms!Slot :
           \/ /\ Terms!Latest(s)' = Terms!Latest(s)
              /\ (s \in announced' => s \in announced) /\ (s \in broken => s \in broken')
              /\ Announcing(k, s) => s \in broken'
           \/ Terms!Latest(s)' \subseteq Terms!Latest(s) /\ s \notin announced' /\ ~Announcing(k, s)
           \/ \E t \in Terms!Terms :
                /\ Announcing(k, s) /\ termsJob[k].id \in {t, None}
                /\ Terms!Latest(s)' = Terms!Latest(s) \cup {t}
  PROVE  TermsInv'
<1> USE HostedAssumption DEF Terms!TermsAssumption
<1>1. /\ termsJob'[k] = Terms!Idle
      /\ \A c \in Call \ {k} : termsJob'[c] = termsJob[c]
  BY OtherRequests DEF Terms!Finish
<1>2. \A c \in Call : \A s : Announcing(c, s)' <=> c # k /\ Announcing(c, s)
  BY <1>1 DEF Announcing, Terms!Idle
<1>3. Terms!OneLatest'
  <2> SUFFICES ASSUME NEW s \in announced' \ broken', \A c \in Call : ~Announcing(c, s)'
               PROVE  \/ \E t \in Terms!Terms : Terms!Latest(s)' = {t}
                      \/ s \in overlapped /\ Terms!Latest(s)' # {}
    BY DEF Terms!OneLatest, Announcing, Terms!At, Terms!Terms
  <2>1. s \in Terms!Slot /\ \A c \in Call \ {k} : ~Announcing(c, s)
    BY <1>2 DEF Terms!TypeOK
  <2>2. CASE Terms!Latest(s)' = Terms!Latest(s) /\ s \in announced \ broken /\ ~Announcing(k, s)
    BY <2>1, <2>2 DEF TermsInv, Terms!OneLatest, Announcing, Terms!At
  <2>3. ASSUME NEW t \in Terms!Terms, Announcing(k, s), termsJob[k].id \in {t, None},
               Terms!Latest(s)' = Terms!Latest(s) \cup {t}
        PROVE  s \notin overlapped => Terms!Latest(s)' = {t}
    BY <2>1, <2>3 DEF TermsInv, SlotInv, Terms!Latest
  <2>4. QED
    BY <2>1, <2>2, <2>3
<1>4. ASSUME NEW c \in Call PROVE TermsJobInv(c)'
  <2>1. \A d \in Call : termsJob[d].at # "idle" /\ termsJob[d].id # None => termsJob[d].id \in Terms!Terms
    BY DEF TermsInv, Terms!TypeOK, Terms!Job, Terms!Idle
  <2>2. QED
    BY <1>1, <2>1 DEF TermsInv, TermsJobInv, Terms!Idle
<1>5. ASSUME NEW s \in Terms!Slot PROVE SlotInv(s)'
  <2>1. ASSUME NEW c \in Call, NEW d \in Call, Announcing(c, s)', Announcing(d, s)', c # d
        PROVE  s \in overlapped'
    BY <1>2, <2>1 DEF TermsInv, SlotInv
  <2>2. ASSUME NEW c \in Call, Announcing(c, s)', termsJob'[c].at = "write", s \notin overlapped'
        PROVE  Terms!Latest(s)' \subseteq {termsJob'[c].id}
    <3>1. c # k /\ Announcing(c, s) /\ ~Announcing(k, s) /\ termsJob'[c] = termsJob[c]
      BY <1>1, <1>2, <2>2 DEF TermsInv, SlotInv
    <3>2. QED
      BY <2>2, <3>1 DEF TermsInv, SlotInv
  <2>3. QED
    BY <2>1, <2>2 DEF SlotInv
<1>6. QED
  BY <1>3, <1>4, <1>5 DEF TermsInv

\* Marks of the other slots, and the rows' slots, when row t is written.
LEMMA TermsWrite ==
  ASSUME TermsInv, NEW t \in Terms!Terms, NEW new \in Terms!Row,
         terms' = [terms EXCEPT ![t] = new], terms[t] # Terms!NoRow => terms[t].slot = new.slot
  PROVE  /\ terms' \in [Terms!Terms -> Terms!Row \cup {Terms!NoRow}]
         /\ \A s \in Terms!Terms : terms[s] # Terms!NoRow =>
              terms'[s] # Terms!NoRow /\ terms'[s].slot = terms[s].slot
         /\ \A s \in Terms!Slot \ {new.slot} : Terms!Latest(s)' = Terms!Latest(s)
         /\ Terms!Latest(new.slot)' = IF new.latest THEN Terms!Latest(new.slot) \cup {t}
                                                   ELSE Terms!Latest(new.slot) \ {t}
<1>1. Terms!NoRow \notin Terms!Row /\ ~Terms!NoRow.latest
  BY DEF Terms!NoRow, Terms!Row
<1>2. terms'[t] = new /\ \A s \in Terms!Terms \ {t} : terms'[s] = terms[s]
  BY DEF TermsInv, Terms!TypeOK
<1>3. terms' \in [Terms!Terms -> Terms!Row \cup {Terms!NoRow}]
  BY DEF TermsInv, Terms!TypeOK
<1>4. new.latest \in BOOLEAN
  BY DEF Terms!Row
<1>5. QED
  BY <1>1, <1>2, <1>3, <1>4 DEF Terms!Latest

LEMMA TermsInsertStep ==
  ASSUME TermsInv, NEW k \in Call, NEW t \in Terms!Terms, Terms!InsertTerms(k, t)
  PROVE  TermsInv'
<1> USE HostedAssumption DEF Terms!TermsAssumption
<1>1. /\ termsJob[k] \in Terms!Job /\ termsJob[k].at = "write" /\ termsJob[k].id = None
      /\ termsJob[k].latest \in BOOLEAN
  BY DEF Terms!InsertTerms, Terms!At, TermsInv, TermsJobInv, Terms!TypeOK, Terms!Job, Terms!Idle
<1>2. PICK slot \in Terms!Slot, version \in Version, latest1 \in BOOLEAN :
        slot = termsJob[k].slot /\ version = termsJob[k].version /\ latest1 = termsJob[k].latest
  BY <1>1 DEF Terms!Job
<1>3. \A s : Announcing(k, s) <=> latest1 = TRUE /\ s = slot
  BY <1>1, <1>2 DEF Announcing
<1>4. Terms!Finish(k) /\ UNCHANGED overlapped /\ terms[t] = Terms!NoRow
  BY DEF Terms!InsertTerms
<1>5. termsJob' \in [Call -> Terms!Job \cup {Terms!Idle}]
  BY <1>4 DEF Terms!Finish, TermsInv, Terms!TypeOK
<1>6. CASE UNCHANGED <<terms, announced>>
             /\ broken' = IF latest1 THEN broken \cup {slot} ELSE broken
  <2>1. Terms!TypeOK'
    BY <1>4, <1>5, <1>6 DEF TermsInv, Terms!TypeOK
  <2>2. \A s : Terms!Latest(s)' = Terms!Latest(s)
    BY <1>6 DEF Terms!Latest
  <2>3. QED
    BY <1>1, <1>3, <1>4, <1>6, <2>1, <2>2, TermsEndStep
<1>7. CASE /\ terms' = [terms EXCEPT ![t] =
                [slot |-> slot, version |-> version, latest |-> latest1]]
           /\ announced' = IF latest1 = TRUE THEN announced \cup {slot} ELSE announced
           /\ UNCHANGED broken
  <2> DEFINE new == [slot |-> slot, version |-> version, latest |-> latest1]
  <2>1. new \in Terms!Row /\ new.slot = slot /\ new.latest = latest1
    BY DEF Terms!Row
  <2>2. terms' = [terms EXCEPT ![t] = new]
    BY <1>7
  <2> HIDE DEF new
  <2>3. /\ terms' \in [Terms!Terms -> Terms!Row \cup {Terms!NoRow}]
        /\ \A s \in Terms!Terms : terms[s] # Terms!NoRow =>
             terms'[s] # Terms!NoRow /\ terms'[s].slot = terms[s].slot
        /\ \A s \in Terms!Slot \ {slot} : Terms!Latest(s)' = Terms!Latest(s)
        /\ Terms!Latest(slot)' = IF latest1 THEN Terms!Latest(slot) \cup {t}
                                           ELSE Terms!Latest(slot) \ {t}
    BY <1>4, <2>1, <2>2, TermsWrite
  <2>4. Terms!TypeOK'
    BY <1>4, <1>5, <1>7, <2>3 DEF TermsInv, Terms!TypeOK
  <2>5. t \notin Terms!Latest(slot)
    BY <1>4 DEF Terms!Latest, Terms!NoRow
  <2>6. \A s \in Terms!Slot :
          \/ /\ Terms!Latest(s)' = Terms!Latest(s)
             /\ (s \in announced' => s \in announced) /\ (s \in broken => s \in broken')
             /\ Announcing(k, s) => s \in broken'
          \/ /\ Announcing(k, s) /\ termsJob[k].id \in {t, None}
             /\ Terms!Latest(s)' = Terms!Latest(s) \cup {t}
    <3>1. \A s \in Terms!Slot \ {slot} :
            /\ Terms!Latest(s)' = Terms!Latest(s) /\ ~Announcing(k, s)
            /\ (s \in announced' => s \in announced) /\ (s \in broken => s \in broken')
      BY <1>3, <1>7, <2>3
    <3>2. CASE latest1 = TRUE
      BY <1>1, <1>3, <2>3, <3>1, <3>2
    <3>3. CASE latest1 = FALSE
      <4>1. Terms!Latest(slot)' = Terms!Latest(slot)
        BY <2>3, <2>5, <3>3
      <4>2. QED
        BY <1>3, <1>7, <3>1, <3>3, <4>1
    <3>4. QED
      BY <3>2, <3>3
  <2>7. QED
    BY <1>1, <1>4, <2>3, <2>4, <2>6, TermsEndStep
<1>8. QED
  BY <1>2, <1>6, <1>7 DEF Terms!InsertTerms, Terms!Announce

LEMMA TermsStoreStep ==
  ASSUME TermsInv, NEW k \in Call, Terms!StoreTerms(k)
  PROVE  TermsInv'
<1> USE HostedAssumption DEF Terms!TermsAssumption
<1>1. termsJob[k] \in Terms!Job /\ termsJob[k].at = "write" /\ termsJob[k].id # None
  BY DEF Terms!StoreTerms, Terms!At, TermsInv, Terms!TypeOK, Terms!Idle
<1>2. PICK slot \in Terms!Slot, t \in Terms!Terms, latest1 \in BOOLEAN \cup {None} :
        slot = termsJob[k].slot /\ t = termsJob[k].id /\ latest1 = termsJob[k].latest
  BY <1>1 DEF Terms!Job
<1>3. \A s : Announcing(k, s) <=> latest1 = TRUE /\ s = slot
  BY <1>1, <1>2 DEF Announcing
<1>4. /\ Terms!Finish(k) /\ UNCHANGED <<overlapped, broken>>
      /\ terms' = [terms EXCEPT ![t].latest = IF latest1 = None THEN @ ELSE latest1]
      /\ announced' = IF latest1 = FALSE /\ terms[t].latest THEN announced \ {slot}
                      ELSE IF latest1 = TRUE THEN announced \cup {slot} ELSE announced
  BY <1>2 DEF Terms!StoreTerms, Terms!Announce
<1>5. terms[t] \in Terms!Row /\ terms[t].slot = slot
  BY <1>1, <1>2 DEF TermsInv, TermsJobInv, Terms!TypeOK
<1> DEFINE new == [terms[t] EXCEPT !.latest = IF latest1 = None THEN @ ELSE latest1]
<1>6. new \in Terms!Row /\ new.slot = slot
        /\ new.latest = IF latest1 = None THEN terms[t].latest ELSE latest1
  BY <1>5 DEF Terms!Row
<1>7. terms' = [terms EXCEPT ![t] = new]
  BY <1>4
<1> HIDE DEF new
<1>8. /\ terms' \in [Terms!Terms -> Terms!Row \cup {Terms!NoRow}]
      /\ \A s \in Terms!Terms : terms[s] # Terms!NoRow =>
           terms'[s] # Terms!NoRow /\ terms'[s].slot = terms[s].slot
      /\ \A s \in Terms!Slot \ {slot} : Terms!Latest(s)' = Terms!Latest(s)
      /\ Terms!Latest(slot)' = IF new.latest THEN Terms!Latest(slot) \cup {t}
                                            ELSE Terms!Latest(slot) \ {t}
  BY <1>5, <1>6, <1>7, TermsWrite
<1>9. termsJob' \in [Call -> Terms!Job \cup {Terms!Idle}]
  BY <1>4 DEF Terms!Finish, TermsInv, Terms!TypeOK
<1>10. Terms!TypeOK'
  BY <1>4, <1>8, <1>9 DEF TermsInv, Terms!TypeOK
<1>11. t \in Terms!Latest(slot) <=> terms[t].latest
  BY <1>5 DEF Terms!Latest
<1>12. \A s \in Terms!Slot :
         \/ /\ Terms!Latest(s)' = Terms!Latest(s)
            /\ (s \in announced' => s \in announced) /\ (s \in broken => s \in broken')
            /\ Announcing(k, s) => s \in broken'
         \/ Terms!Latest(s)' \subseteq Terms!Latest(s) /\ s \notin announced' /\ ~Announcing(k, s)
         \/ /\ Announcing(k, s) /\ termsJob[k].id \in {t, None}
            /\ Terms!Latest(s)' = Terms!Latest(s) \cup {t}
  <2> SUFFICES ASSUME NEW s \in Terms!Slot
               PROVE  \/ /\ Terms!Latest(s)' = Terms!Latest(s)
                         /\ (s \in announced' => s \in announced)
                         /\ (s \in broken => s \in broken')
                         /\ Announcing(k, s) => s \in broken'
                      \/ /\ Terms!Latest(s)' \subseteq Terms!Latest(s)
                         /\ s \notin announced' /\ ~Announcing(k, s)
                      \/ /\ Announcing(k, s) /\ termsJob[k].id \in {t, None}
                         /\ Terms!Latest(s)' = Terms!Latest(s) \cup {t}
    OBVIOUS
  <2>1. CASE s # slot
    BY <1>3, <1>4, <1>8, <2>1
  <2>2. CASE s = slot /\ latest1 = TRUE
    BY <1>2, <1>3, <1>6, <1>8, <2>2
  <2>3. CASE s = slot /\ latest1 = FALSE
    <3>1. CASE terms[t].latest
      <4>1. latest1 # None /\ announced' = announced \ {slot}
        BY <1>4, <2>3, <3>1
      <4>2. Terms!Latest(slot)' = Terms!Latest(slot) \ {t}
        BY <1>6, <1>8, <2>3, <4>1
      <4>3. QED
        BY <1>3, <2>3, <4>1, <4>2
    <3>2. CASE ~terms[t].latest
      <4>1. latest1 # None /\ announced' = announced
        BY <1>4, <2>3, <3>2
      <4>2. Terms!Latest(slot)' = Terms!Latest(slot)
        BY <1>6, <1>8, <1>11, <2>3, <3>2, <4>1
      <4>3. QED
        BY <1>3, <1>4, <2>3, <4>1, <4>2
    <3>3. QED
      BY <3>1, <3>2
  <2>4. CASE s = slot /\ latest1 = None
    <3>1. Terms!Latest(slot)' = Terms!Latest(slot)
      BY <1>6, <1>8, <1>11, <2>4
    <3>2. QED
      BY <1>3, <1>4, <2>4, <3>1
  <2>5. QED
    BY <2>1, <2>2, <2>3, <2>4
<1>13. QED
  BY <1>1, <1>4, <1>8, <1>10, <1>12, TermsEndStep

LEMMA TermsBreakStep ==
  ASSUME TermsInv, NEW k \in Call, Terms!BreakOff(k)
  PROVE  TermsInv'
<1>1. termsJob[k] \in Terms!Job /\ termsJob[k].at = "write"
  BY DEF Terms!BreakOff, Terms!At, TermsInv, Terms!TypeOK, Terms!Idle
<1>2. termsJob[k].slot \in Terms!Slot
  BY <1>1 DEF Terms!Job
<1>3. /\ Terms!Finish(k) /\ UNCHANGED <<terms, announced, overlapped>>
      /\ broken' = IF termsJob[k].latest = TRUE THEN broken \cup {termsJob[k].slot} ELSE broken
  BY DEF Terms!BreakOff
<1>4. termsJob' \in [Call -> Terms!Job \cup {Terms!Idle}]
  BY <1>3 DEF Terms!Finish, TermsInv, Terms!TypeOK
<1>5. Terms!TypeOK'
  BY <1>2, <1>3, <1>4 DEF TermsInv, Terms!TypeOK
<1>6. \A s : Terms!Latest(s)' = Terms!Latest(s) /\ (Announcing(k, s) => s \in broken')
  BY <1>3 DEF Terms!Latest, Announcing
<1>7. QED
  BY <1>1, <1>3, <1>5, <1>6, TermsEndStep

LEMMA TermsStep == TermsInv /\ [Terms!Next]_termsVars => TermsInv'
<1> SUFFICES ASSUME TermsInv, [Terms!Next]_termsVars PROVE TermsInv'
  OBVIOUS
<1>1. CASE UNCHANGED termsVars
  BY <1>1 DEF termsVars, TermsInv, TermsJobInv, SlotInv, Announcing, Terms!TypeOK,
     Terms!OneLatest, Terms!Latest, Terms!At
<1>2. CASE Terms!Next
  BY <1>2, TermsBegin, TermsUnmarkStep, TermsInsertStep, TermsStoreStep, TermsBreakStep
     DEF Terms!Next
<1>3. QED
  BY <1>1, <1>2

\* TermsOfUse: one latest version for every city, for any number of admins
\* who write versions at once, wherever their statements meet or fail.
THEOREM TermsHaveOneLatest == Terms!Spec => []Terms!OneLatest
<1>1. TermsInv => Terms!OneLatest
  BY DEF TermsInv
<1>2. QED
  BY <1>1, TermsInit, TermsStep, PTL DEF Terms!Spec, Terms!termsVars, termsVars

(***************************************************************************)
(* Permissions                                                             *)
(***************************************************************************)

\* The roles a check has read held the permission then, and every city its walk
\* has come to was within the user's reach then; so was what it says yes to.
CheckInv(k) ==
  LET c == check[k]
  IN  c.at \in {"cache", "assignments", "cities", "set"} =>
        /\ c.found \cup c.below \cup c.left \cup c.todo \subseteq Rights!RecentScope(c.waited)
        /\ c.at \in {"cities", "set"} /\ Rights!RolesHold(c.roles) => roleAge <= c.waited
        /\ c.at = "set" =>
             /\ Rights!RolesHold(c.roles)
             /\ c.scope # None => c.scope \in Rights!RecentScope(c.waited)

\* The longer a yes stays in the cache, the longer ago it was true, and the
\* two together are no more than the bound.
CacheInv(s) ==
  cache[s] > 0 => /\ roleAge + cache[s] <= Rights!Bound
                  /\ s # None => s \in Rights!RecentScope(Rights!Bound - cache[s])

\* What is true has age 0.
TruthInv ==
  /\ Rights!RoleTruth => roleAge = 0
  /\ \A c \in active : cityAge[c] = 0

RightsInv ==
  /\ Rights!TypeOK /\ TruthInv
  /\ \A s \in Asked : CacheInv(s)
  /\ \A k \in CheckCall : CheckInv(k)

LEMMA Times == Rights!Bound \in Nat /\ CheckTime \in Nat /\ TTL \in Nat \ {0}
                 /\ Rights!Bound = TTL + CheckTime
BY HostedAssumption DEF Rights!PermissionsAssumption, Rights!Bound

\* More cities, and more of them open, put more within reach.
LEMMA ManagedGrows ==
  ASSUME NEW C, NEW D, NEW A, NEW B, C \subseteq D, A \subseteq B
  PROVE  Rights!Managed(C, A) \subseteq Rights!Managed(D, B)
BY DEF Rights!Managed

\* What was within reach in so many ticks still is, in as many as cities have
\* grown older since.
LEMMA RecentLater ==
  ASSUME NEW w, NEW v, Rights!Assigned(granted) \subseteq Rights!Assigned(granted'),
         \A c \in Region : cityAge[c] <= w => cityAge'[c] <= v
  PROVE  Rights!RecentScope(w) \subseteq Rights!RecentScope(v)'
<1>1. {c \in Region : cityAge[c] <= w} \subseteq {c \in Region : cityAge'[c] <= v}
  OBVIOUS
<1>2. QED
  BY <1>1, ManagedGrows DEF Rights!RecentScope

LEMMA RecentGrows ==
  ASSUME RightsInv, NEW w \in Nat, NEW v \in Nat, w <= v
  PROVE  Rights!RecentScope(w) \subseteq Rights!RecentScope(v)
<1>1. \A c \in Region : cityAge[c] \in Nat
  BY Times DEF RightsInv, Rights!TypeOK, Rights!Ages
<1>2. {c \in Region : cityAge[c] <= w} \subseteq {c \in Region : cityAge[c] <= v}
  BY <1>1
<1>3. QED
  BY <1>2, ManagedGrows DEF Rights!RecentScope

\* The walk begins within reach, and the children it reads are.
LEMMA WalkInReach ==
  ASSUME RightsInv, NEW w \in Nat
  PROVE  /\ Rights!Assigned(granted) \subseteq Rights!RecentScope(w)
         /\ \A c \in Rights!RecentScope(w), d \in active :
              Parent[d] = c => d \in Rights!RecentScope(w)
<1>1. active \subseteq {c \in Region : cityAge[c] <= w}
  BY DEF RightsInv, TruthInv, Rights!TypeOK
<1>2. Rights!Assigned(granted) \subseteq Region
  BY DEF Rights!Assigned
<1> DEFINE open == {c \in Region : cityAge[c] <= w}
<1>3. Rights!RecentScope(w) = Rights!Managed(Rights!Assigned(granted), open)
  BY DEF Rights!RecentScope
<1>4. active \subseteq open /\ open \subseteq Region
  BY <1>1
<1> HIDE DEF open
<1>5. QED
  BY <1>2, <1>3, <1>4 DEF Rights!Managed

LEMMA RightsInit == Rights!Init => RightsInv
<1> SUFFICES ASSUME Rights!Init PROVE RightsInv
  OBVIOUS
<1> USE Times
<1>1. Rights!TypeOK
  <2>1. granted \in [Region -> Rights!Role \cup {None}] /\ active \in SUBSET Region
    BY DEF Rights!Init
  <2>2. cache \in [Asked -> 0 .. TTL] /\ check \in [CheckCall -> Rights!Check \cup Rights!Done \cup {Rights!Idle}]
    BY DEF Rights!Init
  <2>3. roleAge \in Rights!Ages /\ cityAge \in [Region -> Rights!Ages]
    BY DEF Rights!Init, Rights!Ages
  <2>4. QED
    BY <2>1, <2>2, <2>3 DEF Rights!TypeOK
<1>2. TruthInv
  BY DEF Rights!Init, TruthInv
<1>3. QED
  BY <1>1, <1>2 DEF Rights!Init, RightsInv, CacheInv, CheckInv, Rights!Idle

\* A request of the check that leaves the database alone.
LEMMA CheckStep ==
  ASSUME RightsInv, NEW k \in CheckCall,
         NEW c \in Rights!Check \cup Rights!Done \cup {Rights!Idle},
         check' = [check EXCEPT ![k] = c], UNCHANGED <<granted, active, roleAge, cityAge>>,
         cache' = cache \/ (cache' \in [Asked -> 0 .. TTL] /\ \A s \in Asked : CacheInv(s)'),
         CheckInv(k)'
  PROVE  RightsInv'
<1>1. Rights!TypeOK'
  BY DEF RightsInv, Rights!TypeOK
<1>2. \A j \in CheckCall \ {k} : check'[j] = check[j]
  BY DEF RightsInv, Rights!TypeOK
<1>3. TruthInv'
  BY DEF RightsInv, TruthInv, Rights!RoleTruth
<1>4. \A w : Rights!RecentScope(w)' = Rights!RecentScope(w)
  BY DEF Rights!RecentScope
<1>5. \A s \in Asked : CacheInv(s)'
  BY <1>4 DEF RightsInv, CacheInv
<1>6. \A j \in CheckCall : CheckInv(j)'
  BY <1>2, <1>4 DEF RightsInv, CheckInv
<1>7. QED
  BY <1>1, <1>3, <1>5, <1>6 DEF RightsInv

\* What a check says of its parts while it is under way.
LEMMA CheckAt ==
  ASSUME RightsInv, NEW k \in CheckCall,
         check[k].at \in {"cache", "assignments", "cities", "set"}
  PROVE  check[k] \in Rights!Check
BY DEF RightsInv, Rights!TypeOK, Rights!Done, Rights!Idle

LEMMA RightsGuardStep ==
  ASSUME RightsInv, NEW k \in CheckCall, NEW s \in Asked, Rights!PermissionsGuard(k, s)
  PROVE  RightsInv'
<1> DEFINE c == [at |-> "cache", scope |-> s, waited |-> 0, roles |-> {},
                 found |-> {}, left |-> {}, below |-> {}, todo |-> {}]
<1>1. c \in Rights!Check
  BY Times DEF Rights!Check
<1>2. check' = [check EXCEPT ![k] = c] /\ UNCHANGED <<granted, active, cache, roleAge, cityAge>>
  BY DEF Rights!PermissionsGuard, Rights!Goto
<1>3. CheckInv(k)'
  BY <1>2 DEF CheckInv, RightsInv, Rights!TypeOK
<1>4. QED
  BY <1>1, <1>2, <1>3, CheckStep

\* An answer, whatever the cache has become.
LEMMA AnswerStep ==
  ASSUME RightsInv, NEW k \in CheckCall, check[k] \in Rights!Check, NEW yes \in BOOLEAN,
         Rights!Answer(k, yes), UNCHANGED <<granted, active, roleAge, cityAge>>,
         cache' = cache \/ (cache' \in [Asked -> 0 .. TTL] /\ \A s \in Asked : CacheInv(s)')
  PROVE  RightsInv'
<1> DEFINE c == [at |-> IF yes THEN "granted" ELSE "refused", scope |-> check[k].scope]
<1>1. c \in Rights!Done /\ c.at \in {"granted", "refused"}
  BY DEF Rights!Check, Rights!Done
<1>2. check' = [check EXCEPT ![k] = c]
  BY DEF Rights!Answer, Rights!Goto
<1> HIDE DEF c
<1>3. CheckInv(k)'
  BY <1>1, <1>2 DEF CheckInv, RightsInv, Rights!TypeOK
<1>4. QED
  BY <1>1, <1>2, <1>3, CheckStep

LEMMA RightsReadCacheStep ==
  ASSUME RightsInv, NEW k \in CheckCall, Rights!ReadCache(k)
  PROVE  RightsInv'
<1>1. check[k] \in Rights!Check /\ UNCHANGED <<granted, active, cache, roleAge, cityAge>>
  BY CheckAt DEF Rights!ReadCache, Rights!At
<1>2. CASE Rights!Answer(k, TRUE)
  BY <1>1, <1>2, AnswerStep
<1>3. CASE Rights!Goto(k, [check[k] EXCEPT !.at = "assignments"])
  <2> DEFINE c == [check[k] EXCEPT !.at = "assignments"]
  <2>1. /\ c \in Rights!Check /\ c.at = "assignments" /\ c.waited = check[k].waited
        /\ c.found = check[k].found /\ c.below = check[k].below
        /\ c.left = check[k].left /\ c.todo = check[k].todo
    BY <1>1 DEF Rights!Check
  <2>2. check' = [check EXCEPT ![k] = c] /\ check'[k] = c
    BY <1>3 DEF Rights!Goto, RightsInv, Rights!TypeOK
  <2> HIDE DEF c
  <2>3. PICK w : w = check[k].waited
    OBVIOUS
  <2>4. Rights!RecentScope(w)' = Rights!RecentScope(w)
    BY <1>1 DEF Rights!RecentScope
  <2>5. check[k].found \cup check[k].below \cup check[k].left \cup check[k].todo
          \subseteq Rights!RecentScope(w)
    BY <1>1, <2>3 DEF RightsInv, CheckInv, Rights!Check
  <2>6. CheckInv(k)'
    BY <2>1, <2>2, <2>3, <2>4, <2>5 DEF CheckInv
  <2>7. QED
    BY <1>1, <2>1, <2>2, <2>6, CheckStep
<1>4. QED
  BY <1>2, <1>3 DEF Rights!ReadCache

\* What a check goes on with.
Read(k) ==
  [check[k] EXCEPT !.at = "cities", !.roles = Rights!Roles(granted),
                   !.found = Rights!Assigned(granted),
                   !.left = IF check[k].scope = None THEN {} ELSE Rights!Assigned(granted)]

\* What is read is true now.
LEMMA RightsReadAssignmentsStep ==
  ASSUME RightsInv, NEW k \in CheckCall, Rights!ReadAssignments(k)
  PROVE  RightsInv'
<1>1. /\ check[k] \in Rights!Check /\ check[k].at = "assignments"
      /\ UNCHANGED <<granted, active, cache, roleAge, cityAge>>
  BY CheckAt DEF Rights!ReadAssignments, Rights!At
<1>2. CASE Rights!Answer(k, Rights!RolesHold({}))
  <2>1. Rights!RolesHold({}) \in BOOLEAN
    BY DEF Rights!RolesHold, Rights!HasRolePermission
  <2>2. QED
    BY <1>1, <1>2, <2>1, AnswerStep
<1>3. CASE Rights!Goto(k, Read(k))
  <2>1. Rights!Roles(granted) \subseteq Rights!Role /\ Rights!Assigned(granted) \subseteq Region
    BY DEF Rights!Roles, Rights!Assigned, RightsInv, Rights!TypeOK
  <2> DEFINE rest == IF check[k].scope = None THEN {} ELSE Rights!Assigned(granted)
             c == [check[k] EXCEPT !.at = "cities", !.roles = Rights!Roles(granted),
                                   !.found = Rights!Assigned(granted), !.left = rest]
  <2>0. rest \subseteq Rights!Assigned(granted) /\ c = Read(k)
    BY DEF Read
  <2> HIDE DEF rest
  <2>2. /\ c \in Rights!Check /\ c.at = "cities" /\ c.waited = check[k].waited /\ c.waited \in Nat
        /\ c.roles = Rights!Roles(granted) /\ c.found = Rights!Assigned(granted)
        /\ c.left \subseteq Rights!Assigned(granted)
        /\ c.below = check[k].below /\ c.todo = check[k].todo
    <3>1. check[k].waited \in 0 .. CheckTime /\ check[k].waited \in Nat
      BY <1>1, Times DEF Rights!Check
    <3>2. PICK R \in SUBSET Rights!Role : R = Rights!Roles(granted)
      BY <2>1
    <3>3. PICK F \in SUBSET Region : F = Rights!Assigned(granted)
      BY <2>1
    <3>4. PICK L \in SUBSET Region : L = rest /\ L \subseteq F
      BY <2>0, <3>3
    <3> DEFINE d == [check[k] EXCEPT !.at = "cities", !.roles = R, !.found = F, !.left = L]
    <3>5. c = d
      BY <3>2, <3>3, <3>4
    <3>6. d \in Rights!Check
      BY <1>1 DEF Rights!Check
    <3>7. /\ d.at = "cities" /\ d.roles = R /\ d.found = F /\ d.left = L
          /\ d.waited = check[k].waited /\ d.below = check[k].below /\ d.todo = check[k].todo
      BY <1>1 DEF Rights!Check
    <3> HIDE DEF c, d
    <3>8. QED
      BY <3>1, <3>2, <3>3, <3>4, <3>5, <3>6, <3>7
  <2> HIDE DEF c
  <2>3. check' = [check EXCEPT ![k] = c] /\ check'[k] = c
    BY <1>3, <2>0 DEF Rights!Goto, RightsInv, Rights!TypeOK
  <2>4. Rights!RolesHold(c.roles) => roleAge <= c.waited
    BY <2>2, Times DEF RightsInv, TruthInv, Rights!RoleTruth, Rights!Check
  <2>5. PICK w \in Nat : w = c.waited
    BY <2>2
  <2>6. Rights!RecentScope(w)' = Rights!RecentScope(w) /\ roleAge' = roleAge
    BY <1>1 DEF Rights!RecentScope
  <2>7. Rights!Assigned(granted) \subseteq Rights!RecentScope(w)
    BY WalkInReach
  <2>8. check[k].below \cup check[k].todo \subseteq Rights!RecentScope(w)
    BY <1>1, <2>2, <2>5 DEF RightsInv, CheckInv
  <2>9. CheckInv(k)'
    BY <2>2, <2>3, <2>4, <2>5, <2>6, <2>7, <2>8 DEF CheckInv
  <2>10. QED
    BY <1>1, <2>2, <2>3, <2>9, CheckStep
<1>4. \A rows : rows = [c \in Region |-> None] => Rights!Assigned(rows) = {}
  BY DEF Rights!Assigned
<1>5. QED
  BY <1>2, <1>3, <1>4 DEF Rights!ReadAssignments, Read

\* Every step of the walk stays within reach.
LEMMA WalkStep ==
  ASSUME RightsInv, NEW k \in CheckCall, check[k].at = "cities",
         NEW c \in Rights!Check, check' = [check EXCEPT ![k] = c],
         UNCHANGED <<granted, active, cache, roleAge, cityAge>>,
         c.at = "cities", c.waited = check[k].waited, c.roles = check[k].roles,
         c.found \cup c.below \cup c.left \cup c.todo \subseteq Rights!RecentScope(check[k].waited)
  PROVE  RightsInv'
<1>1. PICK w : w = check[k].waited
  OBVIOUS
<1>2. Rights!RecentScope(w)' = Rights!RecentScope(w) /\ roleAge' = roleAge
  BY DEF Rights!RecentScope
<1>3. check'[k] = c
  BY DEF RightsInv, Rights!TypeOK
<1>4. Rights!RolesHold(c.roles) => roleAge <= w
  BY <1>1 DEF RightsInv, CheckInv
<1>5. CheckInv(k)'
  BY <1>1, <1>2, <1>3, <1>4 DEF CheckInv
<1>6. QED
  BY <1>5, CheckStep

LEMMA RightsWalkStep ==
  ASSUME RightsInv, NEW k \in CheckCall,
         \/ \E city \in Region : Rights!NextCity(k, city) \/ Rights!ReadChildren(k, city)
         \/ Rights!ReadFails(k)
  PROVE  RightsInv'
<1>1. /\ check[k] \in Rights!Check /\ check[k].at = "cities"
      /\ UNCHANGED <<granted, active, cache, roleAge, cityAge>>
  BY CheckAt DEF Rights!NextCity, Rights!ReadChildren, Rights!ReadFails, Rights!At
<1>2. PICK w \in Nat : w = check[k].waited
  BY <1>1, Times DEF Rights!Check
<1>3. check[k].found \cup check[k].below \cup check[k].left \cup check[k].todo
        \subseteq Rights!RecentScope(w)
  BY <1>1, <1>2 DEF RightsInv, CheckInv
<1>4. /\ check[k].found \subseteq Region /\ check[k].below \subseteq Region
      /\ check[k].left \subseteq Region /\ check[k].todo \subseteq Region
  BY <1>1 DEF Rights!Check
<1>5. ASSUME NEW city \in Region, Rights!NextCity(k, city) PROVE RightsInv'
  <2> DEFINE c == [check[k] EXCEPT !.found = @ \cup check[k].below, !.left = @ \ {city},
                                   !.below = {}, !.todo = {city}]
  <2>1. /\ c \in Rights!Check /\ c.at = "cities" /\ c.waited = check[k].waited
        /\ c.roles = check[k].roles /\ c.found = check[k].found \cup check[k].below
        /\ c.left = check[k].left \ {city} /\ c.below = {} /\ c.todo = {city}
    BY <1>1, <1>4 DEF Rights!Check
  <2>2. check' = [check EXCEPT ![k] = c] /\ city \in check[k].left
    BY <1>5 DEF Rights!NextCity, Rights!Goto
  <2> HIDE DEF c
  <2>3. c.found \cup c.below \cup c.left \cup c.todo \subseteq Rights!RecentScope(check[k].waited)
    BY <1>2, <1>3, <2>1, <2>2
  <2>4. QED
    BY <1>1, <2>1, <2>2, <2>3, WalkStep
<1>6. ASSUME NEW city \in Region, Rights!ReadChildren(k, city) PROVE RightsInv'
  <2> DEFINE children == {d \in active : Parent[d] = city}
             c == [check[k] EXCEPT !.below = @ \cup children, !.todo = (@ \ {city}) \cup children]
  <2>1. children \subseteq Region
    BY DEF RightsInv, Rights!TypeOK
  <2>2. check' = [check EXCEPT ![k] = c] /\ city \in check[k].todo
    BY <1>6 DEF Rights!ReadChildren, Rights!Goto
  <2>3. children \subseteq Rights!RecentScope(w)
    BY <1>2, <1>3, <2>2, WalkInReach
  <2> HIDE DEF children
  <2>4. /\ c \in Rights!Check /\ c.at = "cities" /\ c.waited = check[k].waited
        /\ c.roles = check[k].roles /\ c.found = check[k].found /\ c.left = check[k].left
        /\ c.below = check[k].below \cup children
        /\ c.todo = (check[k].todo \ {city}) \cup children
    BY <1>1, <1>4, <2>1 DEF Rights!Check
  <2> HIDE DEF c
  <2>5. c.found \cup c.below \cup c.left \cup c.todo \subseteq Rights!RecentScope(check[k].waited)
    BY <1>2, <1>3, <2>3, <2>4
  <2>6. QED
    BY <1>1, <2>2, <2>4, <2>5, WalkStep
<1>7. ASSUME Rights!ReadFails(k) PROVE RightsInv'
  <2> DEFINE c == [check[k] EXCEPT !.below = {}, !.todo = {}]
  <2>1. /\ c \in Rights!Check /\ c.at = "cities" /\ c.waited = check[k].waited
        /\ c.roles = check[k].roles /\ c.found = check[k].found /\ c.left = check[k].left
        /\ c.below = {} /\ c.todo = {}
    BY <1>1 DEF Rights!Check
  <2>2. check' = [check EXCEPT ![k] = c]
    BY <1>7 DEF Rights!ReadFails, Rights!Goto
  <2> HIDE DEF c
  <2>3. c.found \cup c.below \cup c.left \cup c.todo \subseteq Rights!RecentScope(check[k].waited)
    BY <1>2, <1>3, <2>1
  <2>4. QED
    BY <1>1, <2>1, <2>2, <2>3, WalkStep
<1>8. QED
  BY <1>5, <1>6, <1>7

\* A city that was found was within reach when it was.
LEMMA RightsCheckScopeStep ==
  ASSUME RightsInv, NEW k \in CheckCall, Rights!CheckScope(k)
  PROVE  RightsInv'
<1>1. /\ check[k] \in Rights!Check /\ check[k].at = "cities"
      /\ UNCHANGED <<granted, active, cache, roleAge, cityAge>>
  BY CheckAt DEF Rights!CheckScope, Rights!At
<1>2. CASE Rights!Answer(k, FALSE)
  BY <1>1, <1>2, AnswerStep
<1>3. CASE /\ check[k].scope = None \/ check[k].scope \in check[k].found \cup check[k].below
           /\ Rights!RolesHold(check[k].roles)
           /\ Rights!Goto(k, [check[k] EXCEPT !.at = "set"])
  <2> DEFINE c == [check[k] EXCEPT !.at = "set"]
  <2>1. /\ c \in Rights!Check /\ c.at = "set" /\ c.waited = check[k].waited
        /\ c.scope = check[k].scope /\ c.roles = check[k].roles
        /\ c.found = check[k].found /\ c.below = check[k].below
        /\ c.left = check[k].left /\ c.todo = check[k].todo
    BY <1>1 DEF Rights!Check
  <2>2. check' = [check EXCEPT ![k] = c] /\ check'[k] = c
    BY <1>3 DEF Rights!Goto, RightsInv, Rights!TypeOK
  <2> HIDE DEF c
  <2>3. PICK w : w = check[k].waited
    OBVIOUS
  <2>4. Rights!RecentScope(w)' = Rights!RecentScope(w) /\ roleAge' = roleAge
    BY <1>1 DEF Rights!RecentScope
  <2>5. /\ check[k].found \cup check[k].below \cup check[k].left \cup check[k].todo
             \subseteq Rights!RecentScope(w)
        /\ roleAge <= w
    BY <1>1, <1>3, <2>3 DEF RightsInv, CheckInv
  <2>6. c.scope # None => c.scope \in Rights!RecentScope(w)
    BY <1>3, <2>1, <2>5
  <2>7. CheckInv(k)'
    BY <1>3, <2>1, <2>2, <2>3, <2>4, <2>5, <2>6 DEF CheckInv
  <2>8. QED
    BY <1>1, <2>1, <2>2, <2>7, CheckStep
<1>4. QED
  BY <1>2, <1>3 DEF Rights!CheckScope

\* What is remembered was true when the check began, at most.
LEMMA RightsSetCacheStep ==
  ASSUME RightsInv, NEW k \in CheckCall, Rights!SetCache(k)
  PROVE  RightsInv'
<1>1. /\ check[k] \in Rights!Check /\ check[k].at = "set"
      /\ UNCHANGED <<granted, active, roleAge, cityAge>> /\ Rights!Answer(k, TRUE)
  BY CheckAt DEF Rights!SetCache, Rights!At
<1>2. PICK t \in Asked, w \in 0 .. CheckTime : t = check[k].scope /\ w = check[k].waited
  BY <1>1 DEF Rights!Check
<1>3. CASE cache' = [cache EXCEPT ![t] = TTL]
  <2>1. roleAge <= w /\ (t # None => t \in Rights!RecentScope(w))
    BY <1>1, <1>2 DEF RightsInv, CheckInv
  <2>2. Rights!RecentScope(w) \subseteq Rights!RecentScope(CheckTime)
    BY Times, RecentGrows
  <2>3. TTL \in 0 .. TTL /\ roleAge \in Nat /\ Rights!Bound - TTL = CheckTime
    BY Times DEF RightsInv, Rights!TypeOK, Rights!Ages
  <2>4. cache' \in [Asked -> 0 .. TTL]
    BY <1>3, <2>3 DEF RightsInv, Rights!TypeOK
  <2>5. \A x : Rights!RecentScope(x)' = Rights!RecentScope(x)
    BY <1>1 DEF Rights!RecentScope
  <2>6. ASSUME NEW s \in Asked PROVE CacheInv(s)'
    <3>1. CASE s = t
      <4>1. cache'[s] = TTL
        BY <1>3, <3>1 DEF RightsInv, Rights!TypeOK
      <4>2. roleAge' = roleAge /\ roleAge + TTL <= Rights!Bound
        BY <1>1, <2>1, <2>3, Times
      <4>3. s # None => s \in Rights!RecentScope(Rights!Bound - TTL)
        BY <2>1, <2>2, <2>3, <3>1
      <4>4. QED
        BY <2>5, <4>1, <4>2, <4>3 DEF CacheInv
    <3>2. CASE s # t
      <4>1. cache'[s] = cache[s]
        BY <1>3, <3>2 DEF RightsInv, Rights!TypeOK
      <4>2. QED
        BY <1>1, <2>5, <4>1 DEF CacheInv, RightsInv
    <3>3. QED
      BY <3>1, <3>2
  <2>7. QED
    BY <1>1, <2>4, <2>6, AnswerStep
<1>4. CASE cache' = cache
  BY <1>1, <1>4, AnswerStep
<1>5. QED
  BY <1>2, <1>3, <1>4 DEF Rights!SetCache

LEMMA RightsEndStep ==
  ASSUME RightsInv, NEW k \in CheckCall, Rights!EndRequest(k)
  PROVE  RightsInv'
<1>1. check' = [check EXCEPT ![k] = Rights!Idle] /\ UNCHANGED <<granted, active, cache, roleAge, cityAge>>
  BY DEF Rights!EndRequest, Rights!Goto
<1>2. CheckInv(k)'
  BY <1>1 DEF CheckInv, RightsInv, Rights!TypeOK, Rights!Idle
<1>3. QED
  BY <1>1, <1>2, CheckStep

\* Ages only fall, and no city is taken from the user.
LEMMA RightsChangeStep ==
  ASSUME RightsInv,
         (\E c \in Offices, r \in Rights!Role : Rights!Assign(c, r))
           \/ (\E c \in Region : Rights!SetActive(c))
  PROVE  RightsInv'
<1>1. UNCHANGED <<cache, check>> /\ Rights!Observe
  BY DEF Rights!Assign, Rights!SetActive
<1>2. granted' \in [Region -> Rights!Role \cup {None}] /\ active' \in SUBSET Region
  BY DEF Rights!Assign, Rights!SetActive, RightsInv, Rights!TypeOK
<1>3. Rights!Assigned(granted) \subseteq Rights!Assigned(granted')
  <2>1. None \notin Rights!Role
    BY HostedAssumption DEF Rights!PermissionsAssumption
  <2>2. \A c \in Region : granted[c] # None => granted'[c] # None
    BY <2>1 DEF Rights!Assign, Rights!SetActive, RightsInv, Rights!TypeOK
  <2>3. QED
    BY <2>2 DEF Rights!Assigned
<1>4. roleAge' \in {0, roleAge} /\ \A c \in Region : cityAge'[c] \in {0, cityAge[c]}
  BY <1>1 DEF Rights!Observe
<1>5. Rights!TypeOK'
  <2>1. roleAge' \in Rights!Ages /\ cityAge' \in [Region -> Rights!Ages]
    BY <1>1, Times DEF Rights!Observe, Rights!Ages, RightsInv, Rights!TypeOK
  <2>2. QED
    BY <1>1, <1>2, <2>1 DEF RightsInv, Rights!TypeOK
<1>6. TruthInv'
  BY <1>1, <1>2 DEF Rights!Observe, TruthInv
<1>7. /\ roleAge \in Nat /\ \A c \in Region : cityAge[c] \in Nat
      /\ \A s \in Asked : cache[s] \in 0 .. TTL
  BY Times DEF RightsInv, Rights!TypeOK, Rights!Ages
<1>8. \A w \in Nat : Rights!RecentScope(w) \subseteq Rights!RecentScope(w)'
  <2> TAKE w \in Nat
  <2>1. \A c \in Region : cityAge[c] <= w => cityAge'[c] <= w
    BY <1>4, <1>7
  <2>2. QED
    BY <1>3, <2>1, RecentLater
<1>9. ASSUME NEW s \in Asked PROVE CacheInv(s)'
  <2> SUFFICES ASSUME cache[s] > 0
               PROVE  /\ roleAge' + cache[s] <= Rights!Bound
                      /\ s # None => s \in Rights!RecentScope(Rights!Bound - cache[s])'
    BY <1>1 DEF CacheInv
  <2>1. PICK w \in Nat : w = Rights!Bound - cache[s]
    BY <1>7, Times
  <2>2. cache'[s] = cache[s] /\ roleAge + cache[s] <= Rights!Bound
          /\ (s # None => s \in Rights!RecentScope(w))
    BY <1>1, <2>1 DEF RightsInv, CacheInv
  <2>3. roleAge' + cache[s] <= Rights!Bound
    BY <1>4, <1>7, <2>2, Times
  <2>4. QED
    BY <1>8, <2>1, <2>2, <2>3
<1>10. ASSUME NEW k \in CheckCall PROVE CheckInv(k)'
  <2>1. CASE check[k].at \in {"cache", "assignments", "cities", "set"}
    <3>1. PICK w \in Nat : w = check[k].waited
      BY <2>1, CheckAt, Times DEF Rights!Check
    <3>2. CheckInv(k) /\ check'[k] = check[k] /\ Rights!RecentScope(w) \subseteq Rights!RecentScope(w)'
      BY <1>1, <1>8 DEF RightsInv
    <3>3. roleAge <= w => roleAge' <= w
      BY <1>4, <1>7
    <3>4. QED
      BY <2>1, <3>1, <3>2, <3>3 DEF CheckInv
  <2>2. CASE check[k].at \notin {"cache", "assignments", "cities", "set"}
    BY <1>1, <2>2 DEF CheckInv
  <2>3. QED
    BY <2>1, <2>2
<1>11. QED
  BY <1>5, <1>6, <1>9, <1>10 DEF RightsInv

\* Everything gets older by one tick, and what is true does not.
LEMMA RightsTickStep ==
  ASSUME RightsInv, Rights!Tick
  PROVE  RightsInv'
<1> USE Times
<1>1. UNCHANGED <<granted, active>>
  BY DEF Rights!Tick
<1>2. roleAge \in 0 .. Rights!Bound + 1 /\ \A c \in Region : cityAge[c] \in 0 .. Rights!Bound + 1
  BY DEF RightsInv, Rights!TypeOK, Rights!Ages
<1>3. /\ roleAge' \in 0 .. Rights!Bound + 1 /\ roleAge' <= roleAge + 1
      /\ Rights!RoleTruth => roleAge' = roleAge
  BY <1>2 DEF Rights!Tick, Rights!Older
<1>4. ASSUME NEW c \in Region
      PROVE  /\ cityAge'[c] \in 0 .. Rights!Bound + 1 /\ cityAge'[c] <= cityAge[c] + 1
             /\ c \in active => cityAge'[c] = cityAge[c]
  BY <1>2 DEF Rights!Tick, Rights!Older
<1>5. \A s \in Asked : cache[s] \in 0 .. TTL /\ cache'[s] = IF cache[s] = 0 THEN 0 ELSE cache[s] - 1
  BY DEF Rights!Tick, RightsInv, Rights!TypeOK
<1>6. ASSUME NEW k \in CheckCall
      PROVE  IF check[k] \in Rights!Check
             THEN /\ check'[k] \in Rights!Check /\ check'[k].at = check[k].at
                  /\ check'[k].waited = check[k].waited + 1 /\ check[k].waited \in Nat
                  /\ check'[k].scope = check[k].scope /\ check'[k].scope \in Asked
                  /\ check'[k].roles = check[k].roles
                  /\ check'[k].found = check[k].found /\ check'[k].left = check[k].left
                  /\ check'[k].below = check[k].below /\ check'[k].todo = check[k].todo
             ELSE check'[k] = check[k]
  BY <1>6 DEF Rights!Tick, Rights!Check
<1>7. Rights!TypeOK'
  <2>1. cache' \in [Asked -> 0 .. TTL]
    BY <1>5 DEF Rights!Tick
  <2>2. check' \in [CheckCall -> Rights!Check \cup Rights!Done \cup {Rights!Idle}]
    BY <1>6 DEF Rights!Tick, RightsInv, Rights!TypeOK
  <2>3. roleAge' \in Rights!Ages /\ cityAge' \in [Region -> Rights!Ages]
    BY <1>3, <1>4 DEF Rights!Tick, Rights!Ages
  <2>4. QED
    BY <1>1, <2>1, <2>2, <2>3 DEF RightsInv, Rights!TypeOK
<1>8. TruthInv'
  <2>1. Rights!RoleTruth' <=> Rights!RoleTruth
    BY <1>1 DEF Rights!RoleTruth
  <2>2. active \subseteq Region
    BY DEF RightsInv, Rights!TypeOK
  <2>3. QED
    BY <1>1, <1>3, <1>4, <2>1, <2>2 DEF RightsInv, TruthInv
<1>9. \A w \in Nat : Rights!RecentScope(w) \subseteq Rights!RecentScope(w + 1)'
  <2> TAKE w \in Nat
  <2>1. \A c \in Region : cityAge[c] <= w => cityAge'[c] <= w + 1
    BY <1>2, <1>4
  <2>2. PICK v : v = w + 1
    OBVIOUS
  <2>3. Rights!Assigned(granted) \subseteq Rights!Assigned(granted')
    BY <1>1
  <2>4. QED
    BY <2>1, <2>2, <2>3, RecentLater
<1>10. ASSUME NEW s \in Asked PROVE CacheInv(s)'
  <2> SUFFICES ASSUME cache'[s] > 0
               PROVE  /\ roleAge' + cache'[s] <= Rights!Bound
                      /\ s # None => s \in Rights!RecentScope(Rights!Bound - cache[s])'
    BY DEF CacheInv
  <2>1. PICK m \in Nat : m = cache'[s] /\ m > 0 /\ cache[s] = m + 1 /\ m + 1 <= TTL
    BY <1>5
  <2>2. PICK w \in Nat : w = Rights!Bound - (m + 1) /\ Rights!Bound - m = w + 1
    BY <2>1
  <2>3. roleAge + m + 1 <= Rights!Bound /\ (s # None => s \in Rights!RecentScope(w))
    BY <1>2, <2>1, <2>2 DEF RightsInv, CacheInv
  <2>4. roleAge' + m <= Rights!Bound
    BY <1>2, <1>3, <2>1, <2>3
  <2>5. s # None => s \in Rights!RecentScope(w + 1)'
    BY <1>9, <2>3
  <2>6. QED
    BY <2>1, <2>2, <2>4, <2>5
<1>11. ASSUME NEW k \in CheckCall PROVE CheckInv(k)'
  <2>1. CASE check[k].at \in {"cache", "assignments", "cities", "set"}
    <3>1. check[k] \in Rights!Check
      BY <2>1, CheckAt
    <3>2. PICK w \in Nat : w = check[k].waited /\ check'[k].waited = w + 1
      BY <1>6, <3>1
    <3>3. Rights!RecentScope(w) \subseteq Rights!RecentScope(w + 1)' /\ CheckInv(k)
      BY <1>9 DEF RightsInv
    <3>4. roleAge <= w => roleAge' <= w + 1
      BY <1>2, <1>3
    <3>5. QED
      BY <1>6, <2>1, <3>1, <3>2, <3>3, <3>4 DEF CheckInv
  <2>2. CASE check[k].at \notin {"cache", "assignments", "cities", "set"}
    <3>1. check'[k].at = check[k].at
      BY <1>6
    <3>2. QED
      BY <2>2, <3>1 DEF CheckInv
  <2>3. QED
    BY <2>1, <2>2
<1>12. QED
  BY <1>7, <1>8, <1>10, <1>11 DEF RightsInv

LEMMA RightsStep == RightsInv /\ [Rights!Next]_permissionVars => RightsInv'
<1> SUFFICES ASSUME RightsInv, [Rights!Next]_permissionVars PROVE RightsInv'
  OBVIOUS
<1>1. CASE UNCHANGED permissionVars
  <2>1. \A w : Rights!RecentScope(w)' = Rights!RecentScope(w)
    BY <1>1 DEF permissionVars, Rights!RecentScope
  <2>2. QED
    BY <1>1, <2>1 DEF permissionVars, RightsInv, Rights!TypeOK, TruthInv, CacheInv, CheckInv,
       Rights!RoleTruth
<1>2. CASE Rights!Next
  BY <1>2, RightsGuardStep, RightsReadCacheStep, RightsReadAssignmentsStep, RightsWalkStep,
     RightsCheckScopeStep, RightsSetCacheStep, RightsEndStep, RightsChangeStep,
     RightsTickStep DEF Rights!Next
<1>3. QED
  BY <1>1, <1>2

-----------------------------------------------------------------------------
(* What is granted was true *)

\* A step of the check answers yes to what was true within the bound ...
Yes(k) ==
  /\ check[k].at # "granted" /\ check'[k].at = "granted" /\ check'[k].scope = check[k].scope
  /\ roleAge <= Rights!Bound
  /\ check[k].scope # None => check[k].scope \in Rights!RecentScope(Rights!Bound)
  /\ \A j \in CheckCall \ {k} : check'[j] = check[j]

\* ... or answers yes to nobody.
Stays == \A k \in CheckCall : check'[k].at = "granted" => check'[k] = check[k]

LEMMA YesStep ==
  ASSUME RightsInv, NEW k \in CheckCall, check[k] \in Rights!Check, Rights!Answer(k, TRUE),
         roleAge <= Rights!Bound,
         check[k].scope # None => check[k].scope \in Rights!RecentScope(Rights!Bound)
  PROVE  Yes(k)
BY DEF Yes, Rights!Answer, Rights!Goto, Rights!Check, RightsInv, Rights!TypeOK

\* The permission of citizens apart, a check that could not read the
\* assignments says no.
LEMMA RightsSteps ==
  ASSUME RightsInv, "CITIZEN" \notin Holders, [Rights!Next]_permissionVars
  PROVE  \/ UNCHANGED <<granted, active, roleAge, cityAge>> /\ (Stays \/ \E k \in CheckCall : Yes(k))
         \/ UNCHANGED check /\ Rights!Observe
         \/ Rights!Tick
<1>1. CASE UNCHANGED permissionVars
  BY <1>1 DEF permissionVars, Stays
<1>2. ASSUME NEW k \in CheckCall, NEW c, c.at # "granted", check' = [check EXCEPT ![k] = c]
      PROVE  Stays
  BY <1>2 DEF Stays, RightsInv, Rights!TypeOK
<1>3. ASSUME NEW k \in CheckCall, Rights!Answer(k, FALSE) PROVE Stays
  BY <1>2, <1>3 DEF Rights!Answer, Rights!Goto
<1>4. ASSUME NEW k \in CheckCall, NEW s \in Asked, Rights!PermissionsGuard(k, s) PROVE Stays
  BY <1>2, <1>4 DEF Rights!PermissionsGuard, Rights!Goto
<1>5. ASSUME NEW k \in CheckCall, check[k] \in Rights!Check,
             NEW at \in {"assignments", "set"}, Rights!Goto(k, [check[k] EXCEPT !.at = at])
      PROVE  Stays
  <2> DEFINE c == [check[k] EXCEPT !.at = at]
  <2>1. c.at # "granted"
    BY <1>5 DEF Rights!Check
  <2>2. check' = [check EXCEPT ![k] = c]
    BY <1>5 DEF Rights!Goto
  <2> HIDE DEF c
  <2>3. QED
    BY <1>2, <2>1, <2>2
<1>6. ASSUME NEW k \in CheckCall, Rights!ReadCache(k) PROVE Stays \/ Yes(k)
  <2>1. check[k] \in Rights!Check
    BY <1>6, CheckAt DEF Rights!ReadCache, Rights!At
  <2>2. CASE cache[check[k].scope] > 0 /\ Rights!Answer(k, TRUE)
    <3>1. PICK s \in Asked, m \in 0 .. TTL : s = check[k].scope /\ m = cache[s]
      BY <2>1 DEF Rights!Check, RightsInv, Rights!TypeOK
    <3>2. roleAge \in Nat /\ Rights!Bound - m \in Nat
      BY Times DEF RightsInv, Rights!TypeOK, Rights!Ages
    <3>3. roleAge + m <= Rights!Bound /\ (s # None => s \in Rights!RecentScope(Rights!Bound - m))
      BY <2>2, <3>1 DEF RightsInv, CacheInv
    <3>4. Rights!RecentScope(Rights!Bound - m) \subseteq Rights!RecentScope(Rights!Bound)
      BY <3>2, Times, RecentGrows
    <3>5. roleAge <= Rights!Bound
      BY <3>2, <3>3, Times
    <3>6. QED
      BY <2>1, <2>2, <3>1, <3>3, <3>4, <3>5, YesStep
  <2>3. CASE Rights!Goto(k, [check[k] EXCEPT !.at = "assignments"])
    BY <1>5, <2>1, <2>3
  <2>4. QED
    BY <1>6, <2>2, <2>3 DEF Rights!ReadCache
<1>7. ASSUME NEW k \in CheckCall, Rights!ReadAssignments(k) PROVE Stays
  <2>1. check[k] \in Rights!Check
    BY <1>7, CheckAt DEF Rights!ReadAssignments, Rights!At
  <2>2. Rights!RolesHold({}) = FALSE
    BY DEF Rights!RolesHold, Rights!HasRolePermission
  <2>3. CASE Rights!Answer(k, Rights!RolesHold({}))
    BY <1>3, <2>2, <2>3
  <2>4. CASE Rights!Goto(k, Read(k))
    <3> DEFINE c == Read(k)
    <3>1. c.at # "granted"
      BY <2>1 DEF Rights!Check, Read
    <3>2. check' = [check EXCEPT ![k] = c]
      BY <2>4 DEF Rights!Goto
    <3> HIDE DEF c
    <3>3. QED
      BY <1>2, <3>1, <3>2
  <2>5. \A rows : rows = [c \in Region |-> None] => Rights!Assigned(rows) = {}
    BY DEF Rights!Assigned
  <2>6. QED
    BY <1>7, <2>3, <2>4, <2>5 DEF Rights!ReadAssignments, Read
<1>8. ASSUME NEW k \in CheckCall, NEW city \in Region,
             Rights!NextCity(k, city) \/ Rights!ReadChildren(k, city) \/ Rights!ReadFails(k)
      PROVE  Stays
  <2>1. check[k] \in Rights!Check /\ check[k].at = "cities"
    BY <1>8, CheckAt DEF Rights!NextCity, Rights!ReadChildren, Rights!ReadFails, Rights!At
  <2>2. check'[k].at = "cities" /\ \A j \in CheckCall \ {k} : check'[j] = check[j]
    <3>1. ASSUME NEW c, c.at = "cities", check' = [check EXCEPT ![k] = c]
          PROVE  check'[k].at = "cities" /\ \A j \in CheckCall \ {k} : check'[j] = check[j]
      BY <3>1 DEF RightsInv, Rights!TypeOK
    <3>2. ASSUME NEW F, NEW L, NEW B, NEW T,
                 check' = [check EXCEPT ![k] = [check[k] EXCEPT !.found = F, !.left = L,
                                                                !.below = B, !.todo = T]]
          PROVE  check'[k].at = "cities" /\ \A j \in CheckCall \ {k} : check'[j] = check[j]
      <4> DEFINE c == [check[k] EXCEPT !.found = F, !.left = L, !.below = B, !.todo = T]
      <4>1. c.at = "cities"
        BY <2>1 DEF Rights!Check
      <4>2. check' = [check EXCEPT ![k] = c]
        BY <3>2
      <4> HIDE DEF c
      <4>3. QED
        BY <3>1, <4>1, <4>2
    <3>3. ASSUME NEW B, NEW T,
                 check' = [check EXCEPT ![k] = [check[k] EXCEPT !.below = B, !.todo = T]]
          PROVE  check'[k].at = "cities" /\ \A j \in CheckCall \ {k} : check'[j] = check[j]
      <4> DEFINE c == [check[k] EXCEPT !.below = B, !.todo = T]
      <4>1. c.at = "cities"
        BY <2>1 DEF Rights!Check
      <4>2. check' = [check EXCEPT ![k] = c]
        BY <3>3
      <4> HIDE DEF c
      <4>3. QED
        BY <3>1, <4>1, <4>2
    <3>4. CASE Rights!NextCity(k, city)
      BY <3>2, <3>4 DEF Rights!NextCity, Rights!Goto
    <3>5. CASE Rights!ReadChildren(k, city)
      BY <3>3, <3>5 DEF Rights!ReadChildren, Rights!Goto
    <3>6. CASE Rights!ReadFails(k)
      BY <3>3, <3>6 DEF Rights!ReadFails, Rights!Goto
    <3>7. QED
      BY <1>8, <3>4, <3>5, <3>6
  <2>3. QED
    BY <2>2 DEF Stays
<1>9. ASSUME NEW k \in CheckCall, Rights!CheckScope(k) PROVE Stays
  <2>1. check[k] \in Rights!Check
    BY <1>9, CheckAt DEF Rights!CheckScope, Rights!At
  <2>2. QED
    BY <1>3, <1>5, <1>9, <2>1 DEF Rights!CheckScope
<1>10. ASSUME NEW k \in CheckCall, Rights!SetCache(k) PROVE Yes(k)
  <2>1. check[k] \in Rights!Check /\ check[k].at = "set" /\ Rights!Answer(k, TRUE)
    BY <1>10, CheckAt DEF Rights!SetCache, Rights!At
  <2>2. PICK s \in Asked, w \in 0 .. CheckTime : s = check[k].scope /\ w = check[k].waited
    BY <2>1 DEF Rights!Check
  <2>3. roleAge <= w /\ (s # None => s \in Rights!RecentScope(w))
    BY <2>1, <2>2 DEF RightsInv, CheckInv
  <2>4. Rights!RecentScope(w) \subseteq Rights!RecentScope(Rights!Bound)
    BY Times, RecentGrows
  <2>5. roleAge \in Nat
    BY Times DEF RightsInv, Rights!TypeOK, Rights!Ages
  <2>6. roleAge <= Rights!Bound
    BY <2>3, <2>5, Times
  <2>7. QED
    BY <2>1, <2>2, <2>3, <2>4, <2>6, YesStep
<1>11. ASSUME NEW k \in CheckCall, Rights!EndRequest(k) PROVE Stays
  BY <1>2, <1>11 DEF Rights!EndRequest, Rights!Goto, Rights!Idle
<1>12. CASE Rights!Next
  <2>1. ASSUME NEW c \in Offices, NEW r \in Rights!Role, Rights!Assign(c, r)
        PROVE  UNCHANGED check /\ Rights!Observe
    BY <2>1 DEF Rights!Assign
  <2>2. ASSUME NEW c \in Region, Rights!SetActive(c) PROVE UNCHANGED check /\ Rights!Observe
    BY <2>2 DEF Rights!SetActive
  <2>3. ASSUME NEW k \in CheckCall,
               \/ \E s \in Asked : Rights!PermissionsGuard(k, s)
               \/ Rights!ReadCache(k) \/ Rights!ReadAssignments(k)
               \/ \E c \in Region : Rights!NextCity(k, c) \/ Rights!ReadChildren(k, c)
               \/ Rights!ReadFails(k) \/ Rights!CheckScope(k) \/ Rights!SetCache(k)
               \/ Rights!EndRequest(k)
        PROVE  UNCHANGED <<granted, active, roleAge, cityAge>>
    BY <2>3 DEF Rights!PermissionsGuard, Rights!ReadCache, Rights!ReadAssignments,
       Rights!NextCity, Rights!ReadChildren, Rights!ReadFails, Rights!CheckScope,
       Rights!SetCache, Rights!EndRequest
  <2>4. ASSUME NEW k \in CheckCall, Rights!ReadFails(k) PROVE Stays
    <3>1. check[k] \in Rights!Check /\ check[k].at = "cities"
      BY <2>4, CheckAt DEF Rights!ReadFails, Rights!At
    <3>2. PICK city : city \in check[k].todo
      BY <2>4 DEF Rights!ReadFails
    <3>3. city \in Region
      BY <3>1, <3>2 DEF Rights!Check
    <3>4. QED
      BY <1>8, <2>4, <3>3
  <2>5. QED
    BY <1>4, <1>6, <1>7, <1>8, <1>9, <1>10, <1>11, <1>12, <2>1, <2>2, <2>3, <2>4 DEF Rights!Next
<1>13. QED
  BY <1>1, <1>12

LEMMA RoleReadInit == Rights!Init => Rights!ByRole!Init
<1> SUFFICES ASSUME Rights!Init PROVE Rights!ByRole!Init
  OBVIOUS
<1>1. \A k \in CheckCall : ~Rights!At(k, "granted")
  BY DEF Rights!Init, Rights!At, Rights!Idle
<1>2. QED
  BY <1>1 DEF Rights!Init, Rights!ByRole!Init, Rights!ByRole!Never

LEMMA RoleReadStep ==
  ASSUME RightsInv, "CITIZEN" \notin Holders, [Rights!Next]_permissionVars
  PROVE  Rights!ByRole!Next
<1> DEFINE answers == [k \in CheckCall |-> IF Rights!At(k, "granted") THEN "role" ELSE "nothing"]
<1>1. CASE UNCHANGED <<granted, active, roleAge, cityAge>> /\ Stays
  <2> DEFINE over == {k \in CheckCall : check'[k].at # "granted"}
  <2>1. answers' = [k \in CheckCall |-> IF k \in over THEN "nothing" ELSE answers[k]]
    BY <1>1 DEF Stays, Rights!At
  <2>2. Rights!RoleTruth' = Rights!RoleTruth
    BY <1>1 DEF Rights!RoleTruth
  <2>3. Rights!ByRole!Forget(over)
    BY <1>1, <2>1, <2>2 DEF Rights!ByRole!Forget
  <2>4. QED
    BY <2>3 DEF Rights!ByRole!Next
<1>2. ASSUME UNCHANGED <<granted, active, roleAge, cityAge>>, NEW k \in CheckCall, Yes(k)
      PROVE  Rights!ByRole!Next
  <2>1. answers[k] = "nothing" /\ answers' = [answers EXCEPT ![k] = "role"]
    BY <1>2 DEF Yes, Rights!At
  <2>2. Rights!RoleTruth' = Rights!RoleTruth
    BY <1>2 DEF Rights!RoleTruth
  <2>3. Rights!ByRole!Answer(k)
    BY <1>2, <2>1, <2>2 DEF Rights!ByRole!Answer, Yes
  <2>4. QED
    BY <2>3 DEF Rights!ByRole!Next
<1>3. CASE UNCHANGED check /\ Rights!Observe
  <2>1. answers' = answers
    BY <1>3 DEF Rights!At
  <2>2. Rights!ByRole!Change
    BY <1>3, <2>1 DEF Rights!ByRole!Change, Rights!Observe
  <2>3. QED
    BY <2>2 DEF Rights!ByRole!Next
<1>4. CASE Rights!Tick
  <2>1. answers' = answers
    BY <1>4 DEF Rights!At, Rights!Tick, Rights!Check
  <2>2. UNCHANGED <<granted, active>> /\ roleAge' = Rights!Older(roleAge, Rights!RoleTruth)
    BY <1>4 DEF Rights!Tick
  <2>3. Rights!RoleTruth' = Rights!RoleTruth
    BY <2>2 DEF Rights!RoleTruth
  <2>4. Rights!ByRole!Tick
    BY <2>1, <2>2, <2>3 DEF Rights!ByRole!Tick, Rights!ByRole!Never, Rights!Older
  <2>5. QED
    BY <2>4 DEF Rights!ByRole!Next
<1>5. QED
  BY <1>1, <1>2, <1>3, <1>4, RightsSteps

\* The city that was asked for, as far as one was.
LEMMA ScopeReadStep ==
  ASSUME RightsInv, "CITIZEN" \notin Holders, [Rights!Next]_permissionVars,
         NEW k \in CheckCall, check'[k].at = "granted", check[k].at # "granted",
         check'[k].scope # None
  PROVE  check'[k].scope \in Rights!RecentScope(Rights!Bound)
<1>1. CASE Stays
  BY <1>1 DEF Stays
<1>2. ASSUME NEW j \in CheckCall, Yes(j) PROVE check'[k].scope \in Rights!RecentScope(Rights!Bound)
  BY <1>2 DEF Yes
<1>3. CASE UNCHANGED check
  BY <1>3
<1>4. CASE Rights!Tick
  BY <1>4 DEF Rights!Tick, Rights!Check
<1>5. QED
  BY <1>1, <1>2, <1>3, <1>4, RightsSteps

\* What a check grants was true within the lifetime of a cached yes and the time
\* of a check: of the user's roles as a whole, and of the way from one of the
\* user's cities down to the one that was asked for link by link, for any
\* cities, checks and lifetimes.  Of a permission that citizens hold too nothing
\* is said: there a check that reads no assignments grants it everywhere.
THEOREM GrantsRecent ==
  ASSUME "CITIZEN" \notin Holders PROVE Rights!Spec => Rights!GrantsAreRecent
<1> DEFINE Step == \A k \in CheckCall :
                     Rights!At(k, "granted")' /\ ~Rights!At(k, "granted") /\ check'[k].scope # None
                       => check'[k].scope \in Rights!RecentScope(Rights!Bound)
<1>1. RightsInv /\ [Rights!Next]_permissionVars => RightsInv' /\ Rights!ByRole!Next /\ Step
  BY RightsStep, RoleReadStep, ScopeReadStep DEF Rights!At
<1>2. Step => [Step]_permissionVars
  OBVIOUS
<1> HIDE DEF Step
<1>3. Rights!Spec => Rights!ByRole!Spec /\ [][Step]_permissionVars
  BY <1>1, <1>2, RightsInit, RoleReadInit, PTL
  DEF Rights!Spec, Rights!permissionVars, permissionVars, Rights!ByRole!Spec
<1>4. QED
  BY <1>3 DEF Step, Rights!GrantsAreRecent, Rights!ScopeIsRecent, Rights!permissionVars,
     permissionVars

(***************************************************************************)
(* TokenLifetimes                                                          *)
(***************************************************************************)

\* What a request waits with was true since it began, and what is left to an
\* access token makes up for how long ago its routes were open.
RecentInv ==
  \A d \in Device, r \in Route :
    /\ signIn[d] # Lifetimes!Idle /\ Lifetimes!Admits(r, signIn[d].role) =>
         openAge[r] <= signIn[d].waited
    /\ device[d].access > 0 /\ Lifetimes!Admits(r, device[d].role) =>
         openAge[r] + device[d].access <= Lifetimes!Bound

\* The key outlives the token it was stored with.
KeptInv ==
  \A d \in keeps : device[d].refresh > 0 => redis.by = d /\ device[d].refresh <= redis.left

LifetimesInv == Lifetimes!TypeOK /\ RecentInv /\ KeptInv

LEMMA Lives ==
  /\ {AccessLife, RefreshLife, KeyLife, RememberLife} \subseteq Nat \ {0} /\ SignInTime \in Nat
  /\ AccessLife <= RefreshLife /\ RefreshLife <= KeyLife /\ KeyLife <= RememberLife
  /\ Lifetimes!Bound = AccessLife + SignInTime /\ Lifetimes!Bound \in Nat
  /\ None \notin Device /\ None \notin Lifetimes!Kind
BY HostedAssumption DEF Lifetimes!LifetimesAssumption, Lifetimes!Bound, Lifetimes!Kind

LEMMA LifetimesInit == Lifetimes!Init => LifetimesInv
<1> SUFFICES ASSUME Lifetimes!Init PROVE LifetimesInv
  OBVIOUS
<1> USE Lives
<1>1. Lifetimes!TypeOK
  <2>1. Lifetimes!Bound + 1 \in 0 .. Lifetimes!Bound + 1 /\ Lifetimes!Bound \in Nat /\ RememberLife \in Nat
    OBVIOUS
  <2>2. /\ account \in [role : AccountRole, isActive : BOOLEAN]
        /\ signIn \in [Device -> {Lifetimes!Idle} \cup
             [kind : Lifetimes!Kind, role : AccountRole, waited : 0 .. SignInTime]]
        /\ unsaved \in BOOLEAN /\ keeps \subseteq Device
        /\ openAge \in [Route -> 0 .. Lifetimes!Bound + 1]
    BY <2>1 DEF Lifetimes!Init
  <2>3. device \in [Device -> Lifetimes!Tokens]
    BY DEF Lifetimes!Init, Lifetimes!Tokens
  <2>4. redis \in [by : Device \cup {None}, left : 0 .. RememberLife]
    BY <2>1 DEF Lifetimes!Init
  <2>5. QED
    BY <2>2, <2>3, <2>4 DEF Lifetimes!TypeOK
<1>2. QED
  BY <1>1 DEF Lifetimes!Init, LifetimesInv, RecentInv, KeptInv

LEMMA SomeTypes ==
  ASSUME LifetimesInv
  PROVE  /\ \A r \in Route : openAge[r] \in Nat
         /\ \A d \in Device : device[d].access \in Nat /\ device[d].refresh \in Nat
         /\ redis.left \in Nat
         /\ \A d \in Device : signIn[d] # Lifetimes!Idle =>
              /\ signIn[d].waited \in Nat /\ signIn[d].waited <= SignInTime
              /\ signIn[d].role \in AccountRole
BY Lives DEF LifetimesInv, Lifetimes!TypeOK, Lifetimes!Tokens

\* No step but the clock makes a route's age grow.
LEMMA WatchStep ==
  ASSUME LifetimesInv, Lifetimes!Watch
  PROVE  /\ openAge' \in [Route -> 0 .. Lifetimes!Bound + 1]
         /\ \A r \in Route : openAge'[r] <= openAge[r]
         /\ \A r \in Lifetimes!Open' : openAge'[r] = 0
BY Lives, SomeTypes DEF LifetimesInv, Lifetimes!TypeOK, Lifetimes!Watch, Lifetimes!Open

LEMMA BeginStep ==
  ASSUME LifetimesInv, NEW d \in Device, NEW kind1 \in Lifetimes!Kind, Lifetimes!Begin(d, kind1)
  PROVE  LifetimesInv'
<1> DEFINE j == [kind |-> kind1, role |-> account.role, waited |-> 0]
<1>1. /\ signIn' = [signIn EXCEPT ![d] = j] /\ account.isActive
      /\ UNCHANGED <<account, redis, device, unsaved, keeps>> /\ Lifetimes!Watch
  BY DEF Lifetimes!Begin
<1>2. j # Lifetimes!Idle /\ j \in [kind : Lifetimes!Kind, role : AccountRole, waited : 0 .. SignInTime]
        /\ j.role = account.role /\ j.waited = 0
  <2>1. j.kind # Lifetimes!Idle.kind
    BY Lives DEF Lifetimes!Idle
  <2>2. account.role \in AccountRole /\ 0 \in 0 .. SignInTime
    BY Lives DEF LifetimesInv, Lifetimes!TypeOK
  <2>3. QED
    BY <2>1, <2>2
<1> HIDE DEF j
<1>3. signIn'[d] = j /\ \A e \in Device \ {d} : signIn'[e] = signIn[e]
  BY <1>1 DEF LifetimesInv, Lifetimes!TypeOK
<1>4. Lifetimes!TypeOK'
  BY <1>1, <1>2, <1>3, WatchStep DEF LifetimesInv, Lifetimes!TypeOK
<1>5. \A r \in Route : Lifetimes!Admits(r, account.role) => openAge'[r] = 0
  BY <1>1, <1>2, <1>3, WatchStep DEF Lifetimes!Open, Lifetimes!SignedIn
<1>6. RecentInv'
  <2> SUFFICES ASSUME NEW e \in Device, NEW r \in Route
               PROVE  /\ signIn'[e] # Lifetimes!Idle /\ Lifetimes!Admits(r, signIn'[e].role) =>
                           openAge'[r] <= signIn'[e].waited
                      /\ device[e].access > 0 /\ Lifetimes!Admits(r, device[e].role) =>
                           openAge'[r] + device[e].access <= Lifetimes!Bound
    BY <1>1 DEF RecentInv
  <2>1. openAge'[r] \in Nat /\ openAge'[r] <= openAge[r]
    BY <1>1, Lives, WatchStep
  <2>2. QED
    BY <1>2, <1>3, <1>5, <2>1, SomeTypes, Lives DEF LifetimesInv, RecentInv
<1>7. KeptInv'
  BY <1>1 DEF LifetimesInv, KeptInv
<1>8. QED
  BY <1>4, <1>6, <1>7 DEF LifetimesInv

LEMMA StoreTokenStep ==
  ASSUME LifetimesInv, NEW d \in Device, NEW taken \in BOOLEAN, NEW arrives \in BOOLEAN,
         Lifetimes!StoreToken(d, taken, arrives)
  PROVE  LifetimesInv'
<1> DEFINE life == Lifetimes!KeyTTL(signIn[d].kind)
           pair == Lifetimes!GenerateTokenPair(signIn[d].role)
<1>1. /\ signIn[d] # Lifetimes!Idle
      /\ redis' = IF taken
                  THEN [by |-> IF arrives THEN d ELSE None, left |-> life]
                  ELSE IF arrives /\ redis.by = d THEN [redis EXCEPT !.by = None] ELSE redis
      /\ device' = IF arrives THEN [device EXCEPT ![d] = pair] ELSE device
      /\ signIn' = [signIn EXCEPT ![d] = Lifetimes!Idle]
      /\ unsaved' = (~taken /\ (arrives \/ unsaved))
      /\ keeps' = IF taken THEN IF arrives THEN {d} ELSE {}
                  ELSE IF arrives THEN keeps \ {d} ELSE keeps
      /\ account' = account /\ Lifetimes!Watch
  BY DEF Lifetimes!StoreToken
<1>2. /\ life \in 0 .. RememberLife /\ RefreshLife <= life
      /\ pair \in Lifetimes!Tokens
      /\ pair.access = AccessLife /\ pair.refresh = RefreshLife /\ pair.role = signIn[d].role
  BY <1>1, Lives, SomeTypes
  DEF Lifetimes!KeyTTL, Lifetimes!GenerateTokenPair, Lifetimes!Tokens
<1> HIDE DEF life, pair
<1>3. /\ signIn'[d] = Lifetimes!Idle
      /\ \A e \in Device \ {d} : signIn'[e] = signIn[e] /\ device'[e] = device[e]
      /\ device'[d] = IF arrives THEN pair ELSE device[d]
  BY <1>1 DEF LifetimesInv, Lifetimes!TypeOK
<1>4. /\ redis' \in [by : Device \cup {None}, left : 0 .. RememberLife]
      /\ taken => redis'.left = life /\ redis'.by = (IF arrives THEN d ELSE None)
      /\ ~taken => /\ redis'.left = redis.left
                   /\ redis'.by = redis.by \/ (arrives /\ redis.by = d)
  <2>1. redis \in [by : Device \cup {None}, left : 0 .. RememberLife]
    BY DEF LifetimesInv, Lifetimes!TypeOK
  <2>2. CASE taken
    BY <1>1, <1>2, <2>2
  <2>3. CASE ~taken
    BY <1>1, <2>1, <2>3
  <2>4. QED
    BY <2>2, <2>3
<1>5. Lifetimes!TypeOK'
  <2>1. device' \in [Device -> Lifetimes!Tokens]
    BY <1>1, <1>2 DEF LifetimesInv, Lifetimes!TypeOK
  <2>2. unsaved' \in BOOLEAN /\ keeps' \subseteq Device /\ account' = account
    BY <1>1 DEF LifetimesInv, Lifetimes!TypeOK
  <2>3. QED
    BY <1>1, <1>4, <2>1, <2>2, WatchStep DEF LifetimesInv, Lifetimes!TypeOK
<1>6. RecentInv'
  <2> SUFFICES ASSUME NEW e \in Device, NEW r \in Route
               PROVE  /\ signIn'[e] # Lifetimes!Idle /\ Lifetimes!Admits(r, signIn'[e].role) =>
                           openAge'[r] <= signIn'[e].waited
                      /\ device'[e].access > 0 /\ Lifetimes!Admits(r, device'[e].role) =>
                           openAge'[r] + device'[e].access <= Lifetimes!Bound
    BY DEF RecentInv
  <2>1. /\ openAge'[r] \in Nat /\ openAge'[r] <= openAge[r] /\ openAge[r] \in Nat
    BY <1>1, Lives, WatchStep, SomeTypes
  <2>2. CASE e # d
    BY <1>3, <2>1, <2>2, SomeTypes, Lives DEF LifetimesInv, RecentInv
  <2>3. CASE e = d /\ ~arrives
    BY <1>3, <2>1, <2>3, SomeTypes, Lives DEF LifetimesInv, RecentInv
  <2>4. CASE e = d /\ arrives
    <3>1. Lifetimes!Admits(r, signIn[d].role) =>
            openAge[r] <= signIn[d].waited /\ signIn[d].waited <= SignInTime
      BY <1>1, SomeTypes DEF LifetimesInv, RecentInv
    <3>2. signIn[d].waited \in Nat /\ AccessLife \in Nat /\ SignInTime \in Nat
      BY <1>1, SomeTypes, Lives
    <3>3. QED
      BY <1>2, <1>3, <2>1, <2>4, <3>1, <3>2, Lives
  <2>5. QED
    BY <2>2, <2>3, <2>4
<1>7. KeptInv'
  <2> SUFFICES ASSUME NEW e \in keeps', device'[e].refresh > 0
               PROVE  redis'.by = e /\ device'[e].refresh <= redis'.left
    BY DEF KeptInv
  <2>1. CASE taken
    BY <1>1, <1>2, <1>3, <1>4, <2>1
  <2>2. CASE ~taken
    <3>1. e \in keeps /\ e \in Device /\ (arrives => e # d)
      BY <1>1, <2>2 DEF LifetimesInv, Lifetimes!TypeOK
    <3>2. device'[e] = device[e]
      BY <1>3, <3>1
    <3>3. redis.by = e /\ device[e].refresh <= redis.left
      BY <3>1, <3>2 DEF LifetimesInv, KeptInv
    <3>4. QED
      BY <1>4, <2>2, <3>1, <3>2, <3>3
  <2>3. QED
    BY <2>1, <2>2
<1>8. QED
  BY <1>5, <1>6, <1>7 DEF LifetimesInv

LEMMA GiveUpStep ==
  ASSUME LifetimesInv, NEW d \in Device, Lifetimes!GiveUp(d)
  PROVE  LifetimesInv'
<1>1. /\ signIn' = [signIn EXCEPT ![d] = Lifetimes!Idle]
      /\ UNCHANGED <<account, redis, device, unsaved, keeps>> /\ Lifetimes!Watch
  BY DEF Lifetimes!GiveUp
<1>2. \A e \in Device : signIn'[e] = IF e = d THEN Lifetimes!Idle ELSE signIn[e]
  BY <1>1 DEF LifetimesInv, Lifetimes!TypeOK
<1>3. Lifetimes!TypeOK'
  BY <1>1, WatchStep DEF LifetimesInv, Lifetimes!TypeOK
<1>4. \A r \in Route : openAge'[r] \in Nat /\ openAge'[r] <= openAge[r]
  BY <1>1, Lives, WatchStep
<1>5. RecentInv'
  BY <1>1, <1>2, <1>4, SomeTypes, Lives DEF LifetimesInv, RecentInv
<1>6. QED
  BY <1>1, <1>3, <1>5 DEF LifetimesInv, KeptInv

\* Logging out, and a change of the user, end what is open and open nothing
\* that was judged before.
LEMMA LogoutStep ==
  ASSUME LifetimesInv, NEW d \in Device, Lifetimes!Logout(d)
  PROVE  LifetimesInv'
<1>1. /\ redis' = [by |-> None, left |-> 0] /\ unsaved' = FALSE /\ keeps' = {}
      /\ UNCHANGED <<account, device, signIn>> /\ Lifetimes!Watch
  BY DEF Lifetimes!Logout
<1>2. redis' \in [by : Device \cup {None}, left : 0 .. RememberLife]
  BY <1>1, Lives
<1>3. Lifetimes!TypeOK'
  BY <1>1, <1>2, WatchStep DEF LifetimesInv, Lifetimes!TypeOK
<1>4. \A r \in Route : openAge'[r] \in Nat /\ openAge'[r] <= openAge[r]
  BY <1>1, Lives, WatchStep
<1>5. RecentInv'
  BY <1>1, <1>4, SomeTypes, Lives DEF LifetimesInv, RecentInv
<1>6. QED
  BY <1>1, <1>3, <1>5 DEF LifetimesInv, KeptInv

LEMMA UpdateUserStep ==
  ASSUME LifetimesInv, NEW r1 \in AccountRole, NEW on \in BOOLEAN, Lifetimes!UpdateUser(r1, on)
  PROVE  LifetimesInv'
<1>1. /\ account' = [role |-> r1, isActive |-> on]
      /\ UNCHANGED <<redis, device, signIn, unsaved, keeps>> /\ Lifetimes!Watch
  BY DEF Lifetimes!UpdateUser
<1>2. Lifetimes!TypeOK'
  BY <1>1, WatchStep DEF LifetimesInv, Lifetimes!TypeOK
<1>3. \A r \in Route : openAge'[r] \in Nat /\ openAge'[r] <= openAge[r]
  BY <1>1, Lives, WatchStep
<1>4. RecentInv'
  BY <1>1, <1>3, SomeTypes, Lives DEF LifetimesInv, RecentInv
<1>5. QED
  BY <1>1, <1>2, <1>4 DEF LifetimesInv, KeptInv

LEMMA TickStep ==
  ASSUME LifetimesInv, Lifetimes!Tick
  PROVE  LifetimesInv'
<1>1. /\ \A d \in Device : signIn[d] # Lifetimes!Idle => signIn[d].waited < SignInTime
      /\ redis' = IF redis.left > 1 THEN [redis EXCEPT !.left = @ - 1]
                                    ELSE [by |-> None, left |-> 0]
      /\ device' = [d \in Device |->
           [access |-> Lifetimes!Less(device[d].access),
            refresh |-> Lifetimes!Less(device[d].refresh),
            role |-> IF device[d].access > 1 THEN device[d].role ELSE None]]
      /\ signIn' = [d \in Device |->
           IF signIn[d] = Lifetimes!Idle THEN Lifetimes!Idle
           ELSE [signIn[d] EXCEPT !.waited = @ + 1]]
      /\ openAge' = [r \in Route |-> IF r \in Lifetimes!Open THEN 0
           ELSE IF openAge[r] > Lifetimes!Bound THEN openAge[r] ELSE openAge[r] + 1]
      /\ UNCHANGED <<account, unsaved, keeps>>
  BY DEF Lifetimes!Tick
<1>2. \A n \in Nat : Lifetimes!Less(n) \in Nat /\ Lifetimes!Less(n) <= n /\ (n > 0 => Lifetimes!Less(n) = n - 1)
  BY DEF Lifetimes!Less
<1>3. \A d \in Device :
        /\ device[d] \in Lifetimes!Tokens
        /\ device'[d] \in Lifetimes!Tokens
        /\ device'[d].access = Lifetimes!Less(device[d].access)
        /\ device'[d].refresh = Lifetimes!Less(device[d].refresh)
        /\ device'[d].access > 0 => device'[d].role = device[d].role
  <2> SUFFICES ASSUME NEW d \in Device
               PROVE  /\ device[d] \in Lifetimes!Tokens
                      /\ device'[d] \in Lifetimes!Tokens
                      /\ device'[d].access = Lifetimes!Less(device[d].access)
                      /\ device'[d].refresh = Lifetimes!Less(device[d].refresh)
                      /\ device'[d].access > 0 => device'[d].role = device[d].role
    OBVIOUS
  <2>1. device[d] \in Lifetimes!Tokens
    BY DEF LifetimesInv, Lifetimes!TypeOK
  <2>2. device'[d] = [access |-> Lifetimes!Less(device[d].access),
                      refresh |-> Lifetimes!Less(device[d].refresh),
                      role |-> IF device[d].access > 1 THEN device[d].role ELSE None]
    BY <1>1
  <2>3. /\ Lifetimes!Less(device[d].access) \in 0 .. AccessLife
        /\ Lifetimes!Less(device[d].refresh) \in 0 .. RefreshLife
        /\ Lifetimes!Less(device[d].access) > 0 => device[d].access > 1
    BY <2>1, Lives DEF Lifetimes!Tokens, Lifetimes!Less
  <2>4. (IF device[d].access > 1 THEN device[d].role ELSE None) \in AccountRole \cup {None}
    BY <2>1 DEF Lifetimes!Tokens
  <2>5. device'[d] \in Lifetimes!Tokens
    BY <2>2, <2>3, <2>4 DEF Lifetimes!Tokens
  <2>6. QED
    BY <2>1, <2>2, <2>3, <2>5
<1>4. \A d \in Device : signIn[d] # Lifetimes!Idle =>
        /\ signIn'[d] \in [kind : Lifetimes!Kind, role : AccountRole, waited : 0 .. SignInTime]
        /\ signIn'[d].role = signIn[d].role /\ signIn'[d].waited = signIn[d].waited + 1
  <2> SUFFICES ASSUME NEW d \in Device, signIn[d] # Lifetimes!Idle
               PROVE  /\ signIn'[d] \in [kind : Lifetimes!Kind, role : AccountRole, waited : 0 .. SignInTime]
                      /\ signIn'[d].role = signIn[d].role /\ signIn'[d].waited = signIn[d].waited + 1
    OBVIOUS
  <2>1. signIn[d] \in [kind : Lifetimes!Kind, role : AccountRole, waited : 0 .. SignInTime]
    BY DEF LifetimesInv, Lifetimes!TypeOK
  <2>2. signIn'[d] = [signIn[d] EXCEPT !.waited = @ + 1] /\ signIn[d].waited < SignInTime
    BY <1>1
  <2>3. QED
    BY <2>1, <2>2, Lives
<1>5. /\ redis' \in [by : Device \cup {None}, left : 0 .. RememberLife]
      /\ redis.left > 1 => redis'.by = redis.by /\ redis'.left = redis.left - 1
  <2>1. redis \in [by : Device \cup {None}, left : 0 .. RememberLife]
    BY DEF LifetimesInv, Lifetimes!TypeOK
  <2>2. QED
    BY <1>1, <2>1, Lives
<1>6. openAge' \in [Route -> 0 .. Lifetimes!Bound + 1]
        /\ \A r \in Route : openAge'[r] \in Nat /\ openAge[r] \in Nat
             /\ openAge'[r] <= openAge[r] + 1
  BY <1>1, Lives DEF LifetimesInv, Lifetimes!TypeOK
<1>7. \A d \in Device : signIn[d] = Lifetimes!Idle => signIn'[d] = Lifetimes!Idle
  BY <1>1
<1>8. Lifetimes!TypeOK'
  <2>1. signIn' \in [Device -> {Lifetimes!Idle} \cup
          [kind : Lifetimes!Kind, role : AccountRole, waited : 0 .. SignInTime]]
    <3>1. signIn' = [d \in Device |-> signIn'[d]]
      BY <1>1
    <3>2. QED
      BY <1>4, <1>7, <3>1
  <2>2. device' \in [Device -> Lifetimes!Tokens]
    <3>1. device' = [d \in Device |-> device'[d]]
      BY <1>1
    <3>2. QED
      BY <1>3, <3>1
  <2>3. QED
    BY <1>1, <1>5, <1>6, <2>1, <2>2 DEF LifetimesInv, Lifetimes!TypeOK
<1>9. RecentInv'
  <2> SUFFICES ASSUME NEW e \in Device, NEW r \in Route
               PROVE  /\ signIn'[e] # Lifetimes!Idle /\ Lifetimes!Admits(r, signIn'[e].role) =>
                           openAge'[r] <= signIn'[e].waited
                      /\ device'[e].access > 0 /\ Lifetimes!Admits(r, device'[e].role) =>
                           openAge'[r] + device'[e].access <= Lifetimes!Bound
    BY DEF RecentInv
  <2>1. ASSUME signIn'[e] # Lifetimes!Idle, Lifetimes!Admits(r, signIn'[e].role)
        PROVE  openAge'[r] <= signIn'[e].waited
    BY <1>4, <1>6, <1>7, <2>1, SomeTypes DEF LifetimesInv, RecentInv
  <2>2. ASSUME device'[e].access > 0, Lifetimes!Admits(r, device'[e].role)
        PROVE  openAge'[r] + device'[e].access <= Lifetimes!Bound
    <3>1. device[e].access \in Nat /\ device[e].access > 0 /\ device'[e].access = device[e].access - 1
            /\ device'[e].role = device[e].role
      BY <1>2, <1>3, <2>2, SomeTypes DEF Lifetimes!Less
    <3>2. openAge[r] + device[e].access <= Lifetimes!Bound
      BY <2>2, <3>1 DEF LifetimesInv, RecentInv
    <3>3. QED
      BY <1>6, <3>1, <3>2, Lives
  <2>3. QED
    BY <2>1, <2>2
<1>10. KeptInv'
  <2> SUFFICES ASSUME NEW e \in keeps, device'[e].refresh > 0
               PROVE  redis'.by = e /\ device'[e].refresh <= redis'.left
    BY <1>1 DEF KeptInv
  <2>1. e \in Device
    BY DEF LifetimesInv, Lifetimes!TypeOK
  <2>2. device[e].refresh \in Nat /\ device[e].refresh > 1 /\ device'[e].refresh = device[e].refresh - 1
    BY <1>2, <1>3, <2>1, SomeTypes DEF Lifetimes!Less
  <2>3. redis.by = e /\ device[e].refresh <= redis.left
    BY <2>2 DEF LifetimesInv, KeptInv
  <2>4. QED
    BY <1>5, <2>2, <2>3, SomeTypes
<1>11. QED
  BY <1>8, <1>9, <1>10 DEF LifetimesInv

LEMMA LifetimesStep ==
  LifetimesInv /\ [Lifetimes!Next]_lifetimeVars => LifetimesInv'
<1> SUFFICES ASSUME LifetimesInv, [Lifetimes!Next]_lifetimeVars PROVE LifetimesInv'
  OBVIOUS
<1>1. ASSUME NEW d \in Device, Lifetimes!Login(d) PROVE LifetimesInv'
  BY <1>1, BeginStep DEF Lifetimes!Login, Lifetimes!Kind
<1>2. ASSUME NEW d \in Device, Lifetimes!Refresh(d) PROVE LifetimesInv'
  BY <1>2, BeginStep DEF Lifetimes!Refresh, Lifetimes!Kind
<1>3. CASE UNCHANGED lifetimeVars
  BY <1>3 DEF lifetimeVars, LifetimesInv, Lifetimes!TypeOK, RecentInv, KeptInv
<1>4. QED
  BY <1>1, <1>2, <1>3, StoreTokenStep, GiveUpStep, LogoutStep, UpdateUserStep, TickStep
  DEF Lifetimes!Next

\* What the invariant is for.
LEMMA LifetimesSafe == LifetimesInv => Lifetimes!ServedIsRecent /\ Lifetimes!TimelyReturn
<1> SUFFICES ASSUME LifetimesInv PROVE Lifetimes!ServedIsRecent /\ Lifetimes!TimelyReturn
  OBVIOUS
<1>1. Lifetimes!ServedIsRecent
  <2> SUFFICES ASSUME NEW d \in Device, NEW r \in Route, Lifetimes!CanActivate(d, r)
               PROVE  openAge[r] <= Lifetimes!Bound
    BY DEF Lifetimes!ServedIsRecent
  <2>1. device[d].access > 0 /\ Lifetimes!Admits(r, device[d].role)
    BY DEF Lifetimes!CanActivate, Lifetimes!Validate
  <2>2. QED
    BY <2>1, SomeTypes, Lives DEF LifetimesInv, RecentInv
<1>2. Lifetimes!TimelyReturn
  <2> SUFFICES ASSUME NEW d \in keeps, device[d].refresh > 0
               PROVE  redis.left > 0 /\ redis.by = d
    BY DEF Lifetimes!TimelyReturn, Lifetimes!VerifyRefreshToken, Lifetimes!Stored
  <2>1. d \in Device
    BY DEF LifetimesInv, Lifetimes!TypeOK
  <2>2. redis.by = d /\ device[d].refresh <= redis.left
    BY DEF LifetimesInv, KeptInv
  <2>3. QED
    BY <2>1, <2>2, SomeTypes
<1>3. QED
  BY <1>1, <1>2

\* TokenLifetimes, for any lifetimes that fit each other: no device is served
\* on a route that was closed to the user longer than an access token lives
\* and a refresh takes, and the key of the newest tokens outlives them.
THEOREM TokensEnd == Lifetimes!Spec => [](Lifetimes!ServedIsRecent /\ Lifetimes!TimelyReturn)
BY LifetimesInit, LifetimesStep, LifetimesSafe, PTL
DEF Lifetimes!Spec, Lifetimes!lifetimeVars, lifetimeVars

(***************************************************************************)
(* AuthSessions                                                            *)
(***************************************************************************)

USE DEF Places, Token, NoToken

LEMMA TypeInit == Init => TypeOK
<1> SUFFICES ASSUME Init PROVE TypeOK
  OBVIOUS
<1>1. upset \in {"no", "logout", "fault"} /\ token \in [Token -> Token \cup {NoToken}]
  BY DEF Init
<1>2. /\ store \in Token \cup {NoToken}
      /\ row \in [Token -> {"none", "active", "revoked"}]
      /\ minted \in 0 .. MaxTokens /\ since \in 0 .. minted
  BY AuthAssumption DEF Init
<1>3. /\ held \in [Client -> Token \cup {NoToken}]
      /\ pc \in [Client -> Places]
      /\ arg \in [Client -> Token \cup {NoToken}]
  BY DEF Init
<1>4. QED
  BY <1>1, <1>2, <1>3 DEF TypeOK

LEMMA TypeStep == TypeOK /\ KnownMintings /\ [Next]_vars => TypeOK'
<1> SUFFICES ASSUME TypeOK, KnownMintings, [Next]_vars PROVE TypeOK'
  OBVIOUS
<1> USE AuthAssumption DEF TypeOK, Goto
<1>1. ASSUME NEW c \in Client, Login(c) PROVE TypeOK'
  BY <1>1 DEF Login
<1>2. ASSUME NEW c \in Client, Refresh(c) PROVE TypeOK'
  BY <1>2 DEF Refresh
<1>3. ASSUME NEW c \in Client, RefreshRefused(c) PROVE TypeOK'
  BY <1>3 DEF RefreshRefused
<1>4. ASSUME NEW c \in Client, IssueToken(c) PROVE TypeOK'
  <2>1. PICK t \in Mintable(since') : token' = [token EXCEPT ![minted + 1] = t] /\ SetKey(t)
    BY <1>4 DEF IssueToken
  <2>2. /\ minted + 1 \in Token /\ minted' = minted + 1
        /\ minted' \in 0 .. MaxTokens /\ since' \in 0 .. minted'
    BY <1>4 DEF IssueToken
  <2>3. t \in Token \cup {NoToken}
    <3>1. PICK b \in Nat : b = since'
      BY <2>2
    <3>2. \A n \in b + 1 .. minted : n \in Token
      BY <2>2
    <3>3. \A n \in b + 1 .. minted : token[n] \in Token \cup {NoToken}
      BY <3>2
    <3>4. t \in Mintable(b)
      BY <2>1, <3>1
    <3>5. QED
      BY <2>2, <3>3, <3>4 DEF Mintable
  <2>4. token' \in [Token -> Token \cup {NoToken}]
    BY <2>1, <2>3
  <2>5. store' \in Token \cup {NoToken} /\ upset' \in {"no", "logout", "fault"}
    BY <2>1, <2>3 DEF SetKey, Fault
  <2>6. arg' \in [Client -> Token \cup {NoToken}] /\ pc' \in [Client -> Places]
    BY <1>4, <2>2 DEF IssueToken
  <2>7. QED
    BY <1>4, <2>2, <2>4, <2>5, <2>6 DEF IssueToken
<1>5. ASSUME NEW c \in Client, StoreSession(c) PROVE TypeOK'
  <2>1. arg[c] \in Token
    BY <1>5 DEF StoreSession, KnownMintings
  <2>2. QED
    BY <1>5, <2>1 DEF StoreSession, InsertRow, Answer, Fault
<1>6. ASSUME NEW c \in Client, LogoutDropsKey(c) PROVE TypeOK'
  BY <1>6 DEF LogoutDropsKey, DelKey, Fault
<1>7. ASSUME NEW c \in Client, LogoutClosesRows(c) PROVE TypeOK'
  BY <1>7 DEF LogoutClosesRows, RevokeRows
<1>8. ASSUME NEW c \in Client, FindSession(c) PROVE TypeOK'
  BY <1>8 DEF FindSession
<1>9. ASSUME NEW c \in Client, RevokeSession(c) PROVE TypeOK'
  BY <1>9 DEF RevokeSession, RevokeRows
<1>10. ASSUME NEW c \in Client, RevokeAllSessions(c) PROVE TypeOK'
  BY <1>10 DEF RevokeAllSessions, RevokeRows
<1>11. ASSUME NEW c \in Client, DropKey(c) PROVE TypeOK'
  BY <1>11 DEF DropKey, DelKey, Fault
<1>12. ASSUME NEW c \in Client, Crash(c) PROVE TypeOK'
  BY <1>12 DEF Crash, Fault
<1>13. CASE KeyExpires
  BY <1>13 DEF KeyExpires
<1>14. CASE UNCHANGED vars
  BY <1>14 DEF vars
<1>15. ASSUME NEW c \in Client, NEW d \in Client, Share(c, d) PROVE TypeOK'
  BY <1>15 DEF Share
<1>16. QED
  BY <1>1, <1>2, <1>3, <1>4, <1>5, <1>6, <1>7, <1>8, <1>9, <1>10, <1>11,
     <1>12, <1>13, <1>14, <1>15 DEF Next

LEMMA KnownMintingsStep ==
  ASSUME TypeOK, KnownMintings, [Next]_vars PROVE KnownMintings'
<1> USE AuthAssumption DEF TypeOK, KnownMintings, Goto
<1>1. ASSUME NEW c \in Client, Login(c) \/ Refresh(c) \/ RefreshRefused(c)
      PROVE  KnownMintings'
  BY <1>1 DEF Login, Refresh, RefreshRefused
<1>2. ASSUME NEW c \in Client, IssueToken(c) PROVE KnownMintings'
  BY <1>2 DEF IssueToken
<1>3. ASSUME NEW c \in Client, StoreSession(c) PROVE KnownMintings'
  BY <1>3 DEF StoreSession, Answer
<1>4. ASSUME NEW c \in Client, LogoutDropsKey(c) \/ LogoutClosesRows(c)
      PROVE  KnownMintings'
  BY <1>4 DEF LogoutDropsKey, LogoutClosesRows
<1>5. ASSUME NEW c \in Client, FindSession(c) PROVE KnownMintings'
  BY <1>5 DEF FindSession
<1>6. ASSUME NEW c \in Client, RevokeSession(c) \/ RevokeAllSessions(c)
      PROVE  KnownMintings'
  BY <1>6 DEF RevokeSession, RevokeAllSessions
<1>7. ASSUME NEW c \in Client, DropKey(c) \/ Crash(c) PROVE KnownMintings'
  BY <1>7 DEF DropKey, Crash
<1>8. CASE KeyExpires \/ UNCHANGED vars
  BY <1>8 DEF KeyExpires, vars
<1>9. ASSUME NEW c \in Client, NEW d \in Client, Share(c, d) PROVE KnownMintings'
  BY <1>9 DEF Share
<1>10. QED
  BY <1>1, <1>2, <1>3, <1>4, <1>5, <1>6, <1>7, <1>8, <1>9 DEF Next

\* TypeOK holds in every reachable state: a row is only ever written for a
\* minting that has taken place, which is why what is answered is a token.
THEOREM TypeCorrect == Spec => []TypeOK
<1>1. Init => KnownMintings
  BY DEF Init, KnownMintings
<1>2. TypeOK /\ KnownMintings /\ [Next]_vars => KnownMintings'
  BY KnownMintingsStep
<1>3. QED
  BY <1>1, <1>2, TypeInit, TypeStep, PTL DEF Spec

-----------------------------------------------------------------------------
(* Out means out *)

\* From a signed-out state every step but a login leads to a signed-out one:
\* refresh finds no key to match, and nobody is left who would write it.
LEMMA SignedOutStep ==
  ASSUME TypeOK, [Next]_vars, SignedOut, ~ \E c \in Client : Login(c)
  PROVE  SignedOut'
<1> USE DEF TypeOK, SignedOut, Goto
<1>1. ASSUME NEW c \in Client, Refresh(c) PROVE FALSE
  BY <1>1 DEF Refresh, Matches
<1>2. ASSUME NEW c \in Client, RefreshRefused(c) \/ IssueToken(c) PROVE FALSE
  BY <1>2 DEF RefreshRefused, IssueToken
<1>3. ASSUME NEW c \in Client, StoreSession(c) PROVE SignedOut'
  BY <1>3 DEF StoreSession
<1>4. ASSUME NEW c \in Client, LogoutDropsKey(c) PROVE SignedOut'
  BY <1>4 DEF LogoutDropsKey, DelKey
<1>5. ASSUME NEW c \in Client, LogoutClosesRows(c) PROVE SignedOut'
  BY <1>5 DEF LogoutClosesRows
<1>6. ASSUME NEW c \in Client, FindSession(c) PROVE SignedOut'
  BY <1>6 DEF FindSession
<1>7. ASSUME NEW c \in Client, RevokeSession(c) PROVE SignedOut'
  BY <1>7 DEF RevokeSession
<1>8. ASSUME NEW c \in Client, RevokeAllSessions(c) PROVE SignedOut'
  BY <1>8 DEF RevokeAllSessions
<1>9. ASSUME NEW c \in Client, DropKey(c) PROVE SignedOut'
  BY <1>9 DEF DropKey, DelKey
<1>10. ASSUME NEW c \in Client, Crash(c) PROVE SignedOut'
  BY <1>10 DEF Crash
<1>11. CASE KeyExpires \/ UNCHANGED vars
  BY <1>11 DEF KeyExpires, vars
<1>12. ASSUME NEW c \in Client, NEW d \in Client, Share(c, d) PROVE SignedOut'
  BY <1>12 DEF Share
<1>13. QED
  BY <1>1, <1>2, <1>3, <1>4, <1>5, <1>6, <1>7, <1>8, <1>9, <1>10, <1>11, <1>12
  DEF Next

\* SignedOutStaysOut, whatever Redis, the database and the process do: an
\* empty key and no call past its checks can only be left by a login.
THEOREM OutMeansOut == Spec => SignedOutStaysOut
<1>1. TypeOK /\ [Next]_vars
        => [(SignedOut /\ ~ \E c \in Client : Login(c)) => SignedOut']_vars
  BY SignedOutStep
<1>2. QED
  BY <1>1, TypeCorrect, PTL DEF Spec, SignedOutStaysOut

-----------------------------------------------------------------------------
(* Sessions the user can see, and go on with *)

\* What no minting was given changes no token that is known.
LEMMA Minting ==
  ASSUME TypeOK, NEW c \in Client, IssueToken(c)
  PROVE  /\ minted + 1 \in Token /\ minted' = minted + 1
         /\ \A n \in 1 .. minted : token'[n] = token[n]
         /\ pc' = [pc EXCEPT ![c] = "record"] /\ arg' = [arg EXCEPT ![c] = minted + 1]
         /\ upset' # "fault" => store' = token'[minted + 1]
<1>1. PICK t \in Mintable(since') : token' = [token EXCEPT ![minted + 1] = t] /\ SetKey(t)
  BY DEF IssueToken
<1>2. minted + 1 \in Token /\ minted' = minted + 1 /\ minted \in Nat
  BY AuthAssumption DEF IssueToken, TypeOK
<1>3. token'[minted + 1] = t
  BY <1>1, <1>2 DEF TypeOK
<1>4. \A n \in 1 .. minted : token'[n] = token[n]
  BY <1>1, <1>2 DEF TypeOK
<1>5. QED
  BY <1>1, <1>2, <1>3, <1>4 DEF IssueToken, Goto, SetKey, Fault

\* The token a client keeps is stored until it is replaced, dropped or expired,
\* and the one that replaces it is on its way to a client.
LEMMA HeldStep ==
  ASSUME TypeOK, KnownMintings, Held, [Next]_vars, upset' # "fault"
  PROVE  Held'
<1> USE AuthAssumption DEF TypeOK, Goto, Fault
<1> SUFFICES ASSUME store' # NoToken PROVE \E c \in Client : Keeps(c)' = store'
  BY DEF Held
<1>1. ASSUME store' = store, \A d \in Client : Keeps(d)' = Keeps(d)
      PROVE  \E c \in Client : Keeps(c)' = store'
  BY <1>1 DEF Held
<1>2. ASSUME NEW c \in Client, Login(c) \/ Refresh(c) \/ RefreshRefused(c)
      PROVE  \A d \in Client : Keeps(d)' = Keeps(d)
  BY <1>2 DEF Login, Refresh, RefreshRefused, Keeps
<1>3. ASSUME NEW c \in Client, IssueToken(c) PROVE Keeps(c)' = store'
  BY <1>3, Minting DEF Keeps
<1>4. ASSUME NEW c \in Client, StoreSession(c) PROVE \A d \in Client : Keeps(d)' = Keeps(d)
  BY <1>4 DEF StoreSession, Answer, Keeps, KnownMintings
<1>5. ASSUME NEW c \in Client, LogoutDropsKey(c) \/ DropKey(c) PROVE store' = NoToken
  BY <1>5 DEF LogoutDropsKey, DropKey, DelKey
<1>6. ASSUME NEW c \in Client,
             \/ LogoutClosesRows(c) \/ FindSession(c)
             \/ RevokeSession(c) \/ RevokeAllSessions(c)
      PROVE  \A d \in Client : Keeps(d)' = Keeps(d)
  BY <1>6 DEF LogoutClosesRows, FindSession, RevokeSession, RevokeAllSessions, Keeps
<1>7. ASSUME NEW c \in Client, Crash(c) PROVE FALSE
  BY <1>7 DEF Crash
<1>8. CASE KeyExpires
  BY <1>8 DEF KeyExpires
<1>9. CASE UNCHANGED vars
  BY <1>1, <1>9 DEF vars, Keeps
<1>10. ASSUME NEW c \in Client, NEW d \in Client, Share(c, d)
       PROVE  \E e \in Client : Keeps(e)' = store'
  <2>1. store' = store /\ pc[d] = "idle" /\ held[d] = NoToken
    BY <1>10 DEF Share
  <2>2. PICK e \in Client : Keeps(e) = store
    BY <2>1 DEF Held
  <2>3. e # d
    BY <2>1, <2>2 DEF Keeps
  <2>4. Keeps(e)' = Keeps(e)
    BY <1>10, <2>3 DEF Share, Keeps
  <2>5. QED
    BY <2>1, <2>2, <2>4
<1>11. QED
  <2>1. ASSUME NEW c \in Client, Login(c) \/ Refresh(c) \/ RefreshRefused(c) \/ StoreSession(c)
                 \/ LogoutClosesRows(c) \/ FindSession(c) \/ RevokeSession(c)
                 \/ RevokeAllSessions(c)
        PROVE  store' = store
    BY <2>1 DEF Login, Refresh, RefreshRefused, StoreSession, LogoutClosesRows,
       FindSession, RevokeSession, RevokeAllSessions
  <2>2. QED
    BY <1>1, <1>2, <1>3, <1>4, <1>5, <1>6, <1>7, <1>8, <1>9, <1>10, <2>1 DEF Next

LEMMA ListedStep ==
  ASSUME TypeOK, KnownMintings, Listed, [Next]_vars, upset' = "no"
  PROVE  Listed'
<1> USE AuthAssumption DEF TypeOK, Listed, Goto, Fault
<1>1. ASSUME NEW c \in Client, Login(c) \/ Refresh(c) \/ RefreshRefused(c)
      PROVE  Listed'
  BY <1>1 DEF Login, Refresh, RefreshRefused
<1>2. ASSUME NEW c \in Client, IssueToken(c) PROVE Listed'
  <2>1. /\ minted + 1 \in Token /\ arg'[c] = minted + 1 /\ pc'[c] = "record"
        /\ store' = token'[minted + 1]
    BY <1>2, Minting
  <2>2. QED
    BY <2>1
<1>3. ASSUME NEW c \in Client, StoreSession(c) PROVE Listed'
  <2>1. /\ row' = [row EXCEPT ![arg[c]] = "active"]
        /\ pc' = [pc EXCEPT ![c] = "idle"]
        /\ arg' = [arg EXCEPT ![c] = NoToken]
        /\ pc[c] = "record" /\ arg[c] \in 1 .. minted /\ arg[c] \in Token
        /\ UNCHANGED <<store, token, minted>>
    BY <1>3 DEF StoreSession, InsertRow, KnownMintings
  <2>2. CASE token[arg[c]] = store
    BY <2>1, <2>2
  <2>3. CASE token[arg[c]] # store
    <3>1. ASSUME NEW n \in 1 .. minted, row[n] = "active" PROVE row'[n] = "active"
      BY <2>1, <3>1
    <3>2. ASSUME NEW d \in Client, d # c PROVE pc'[d] = pc[d] /\ arg'[d] = arg[d]
      BY <2>1, <3>2
    <3>3. ASSUME store' # NoToken,
                 NEW d \in Client, pc[d] = "record" /\ token[arg[d]] = store
          PROVE  Listed'
      BY <2>1, <2>3, <3>2, <3>3
    <3>4. ASSUME NEW d \in Client, pc[d] = "dropKey" PROVE Listed'
      BY <2>1, <3>2, <3>4
    <3>5. QED
      BY <2>1, <3>1, <3>3, <3>4
  <2>4. QED
    BY <2>2, <2>3
<1>4. ASSUME NEW c \in Client, LogoutDropsKey(c) PROVE Listed'
  BY <1>4 DEF LogoutDropsKey, DelKey
<1>5. ASSUME NEW c \in Client, LogoutClosesRows(c) PROVE Listed'
  <2>1. store' = NoToken
    BY <1>5 DEF LogoutClosesRows
  <2>2. QED
    BY <2>1
<1>6. ASSUME NEW c \in Client, FindSession(c) PROVE Listed'
  BY <1>6 DEF FindSession
<1>7. ASSUME NEW c \in Client, RevokeSession(c) \/ RevokeAllSessions(c)
      PROVE  Listed'
  <2>1. pc'[c] = "dropKey"
    BY <1>7 DEF RevokeSession, RevokeAllSessions
  <2>2. QED
    BY <2>1
<1>8. ASSUME NEW c \in Client, DropKey(c) PROVE Listed'
  BY <1>8 DEF DropKey, DelKey
<1>9. ASSUME NEW c \in Client, Crash(c) PROVE FALSE
  BY <1>9 DEF Crash
<1>10. CASE KeyExpires \/ UNCHANGED vars
  BY <1>10 DEF KeyExpires, vars
<1>11. ASSUME NEW c \in Client, NEW d \in Client, Share(c, d) PROVE Listed'
  BY <1>11 DEF Share
<1>12. QED
  BY <1>1, <1>2, <1>3, <1>4, <1>5, <1>6, <1>7, <1>8, <1>9, <1>10, <1>11 DEF Next

\* Nothing that was upset is calm again.
LEMMA UpsetStays ==
  TypeOK /\ [Next]_vars =>
    (upset' = "no" => upset = "no") /\ (upset' # "fault" => upset # "fault")
BY DEF TypeOK, Next, vars, Login, Refresh, RefreshRefused, IssueToken, SetKey,
       StoreSession, InsertRow, LogoutDropsKey, LogoutClosesRows, FindSession,
       RevokeSession, RevokeAllSessions, DropKey, DelKey, Crash, KeyExpires,
       Share, Fault

LEMMA SessionsConsistent == Spec => []SessionInv
<1>1. Init => SessionInv
  BY AuthAssumption DEF Init, SessionInv, KnownMintings, Listed, Held
<1>2. TypeOK /\ SessionInv /\ [Next]_vars => SessionInv'
  BY KnownMintingsStep, ListedStep, HeldStep, UpsetStays DEF SessionInv
<1>3. QED
  BY <1>1, <1>2, TypeCorrect, PTL DEF Spec

\* NoHiddenSession: rows are revoked before the key is dropped, so until a
\* logout, which does it the other way round, closes the row of a sign-in that
\* came between, or a failure comes in, the stored token of a quiet user has its
\* unrevoked row.
THEOREM NoneHidden == Spec => []NoHiddenSession
<1>1. SessionInv => NoHiddenSession
  BY DEF SessionInv, Listed, NoHiddenSession, Quiet
<1>2. QED
  BY <1>1, SessionsConsistent, PTL

\* LiveTokenIsHeld: however many tabs and devices refresh at once, with one
\* token or with several, and whether or not two tokens of one second are equal,
\* the token that survives is one that a client was answered with.
THEOREM LiveHeld == Spec => []LiveTokenIsHeld
<1>1. SessionInv => LiveTokenIsHeld
  BY DEF SessionInv, Held, Keeps, LiveTokenIsHeld, Quiet
<1>2. QED
  BY <1>1, SessionsConsistent, PTL

(***************************************************************************)
(* The parts together                                                      *)
(***************************************************************************)

\* A behaviour of MCAuth is one of every part, which the steps of the others
\* leave alone.
LEMMA Parts ==
  MCSpec => /\ Spec /\ Guests!Spec /\ Roles!Spec
            /\ Rights!Spec /\ Terms!Spec /\ Lifetimes!Spec
<1>1. MCInit => /\ Init /\ Guests!Init /\ Roles!Init
                /\ Rights!Init /\ Terms!Init /\ Lifetimes!Init
  BY DEF MCInit
<1>2. [MCNext]_all =>
        /\ [Next]_vars
        /\ [Guests!Next]_(Guests!guestVars) /\ [Roles!Next]_(Roles!roleVars)
        /\ [Rights!Next]_(Rights!permissionVars) /\ [Terms!Next]_(Terms!termsVars)
        /\ [Lifetimes!Next]_(Lifetimes!lifetimeVars)
  BY DEF MCNext, all, vars, guestVars, roleVars, permissionVars, termsVars, lifetimeVars,
         Guests!guestVars, Roles!roleVars, Rights!permissionVars, Terms!termsVars,
         Lifetimes!lifetimeVars
<1>3. QED
  BY <1>1, <1>2, PTL
  DEF MCSpec, Spec, Guests!Spec, Roles!Spec, Rights!Spec, Terms!Spec, Lifetimes!Spec

SomeKind == kind \in {"sessions", "guests", "roles", "permissions", "terms", "lifetimes"}

LEMMA OneKind == MCSpec => []SomeKind
<1>1. MCInit => SomeKind
  BY DEF MCInit, SomeKind
<1>2. SomeKind /\ [MCNext]_all => SomeKind'
  BY DEF MCNext, all, SomeKind
<1>3. QED
  BY <1>1, <1>2, PTL DEF MCSpec

\* AllTypeOK: every part keeps its types.
THEOREM AllTypesCorrect == MCSpec => []AllTypeOK
<1>1. Guests!Spec => []Guests!AccountInv
  BY HostedAssumption, Guests!AccountCorrect
<1>2. /\ (Roles!Spec => []StaffInv) /\ (Rights!Spec => []RightsInv)
      /\ (Terms!Spec => []TermsInv) /\ (Lifetimes!Spec => []LifetimesInv)
  BY StaffInit, StaffStep, RightsInit, RightsStep, TermsInit, TermsStep,
     LifetimesInit, LifetimesStep, PTL
  DEF Roles!Spec, Rights!Spec, Terms!Spec, Lifetimes!Spec, Roles!roleVars, roleVars,
      Rights!permissionVars, permissionVars, Terms!termsVars, termsVars,
      Lifetimes!lifetimeVars, lifetimeVars
<1>3. SomeKind /\ TypeOK /\ Guests!AccountInv /\ StaffInv /\ RightsInv /\ TermsInv /\ LifetimesInv
        => AllTypeOK
  BY DEF AllTypeOK, SomeKind, Guests!AccountInv, StaffInv, RightsInv, TermsInv, LifetimesInv
<1>4. QED
  BY <1>1, <1>2, <1>3, Parts, OneKind, TypeCorrect, PTL

\* OneLatest in the behaviours of MCAuth.
THEOREM OneLatestHolds == MCSpec => []OneLatest
<1>1. Terms!OneLatest => OneLatest
  BY DEF OneLatest
<1>2. QED
  BY <1>1, Parts, TermsHaveOneLatest, PTL

\* ConversionStands in the behaviours of MCAuth: what a guest who became a
\* registered user was told stands, as GuestAccounts shows.
THEOREM ConversionHolds == MCSpec => []ConversionStands
<1>1. Guests!ConversionStands => ConversionStands
  BY DEF ConversionStands
<1>2. Guests!Spec => []Guests!ConversionStands
  BY HostedAssumption, Guests!AnsweredConversionStands
<1>3. QED
  BY <1>1, <1>2, Parts, PTL

\* RightsFollow: roles, permissions and tokens follow what takes them away,
\* for every permission that citizens do not hold.
THEOREM RightsFollowChanges ==
  ASSUME "CITIZEN" \notin Holders PROVE MCSpec => RightsFollow
<1> DEFINE A == kind = "roles" => Roles!RoleMatchesAssignment
           B == kind = "lifetimes" => Lifetimes!ServedIsRecent /\ Lifetimes!TimelyReturn
<1>1. Roles!RoleMatchesAssignment => A
  OBVIOUS
<1>2. Lifetimes!ServedIsRecent /\ Lifetimes!TimelyReturn => B
  OBVIOUS
<1> HIDE DEF A, B
<1>3. MCSpec => []A /\ Rights!GrantsAreRecent /\ []B
  BY <1>1, <1>2, Parts, RolesFollow, GrantsRecent, TokensEnd, PTL
<1>4. QED
  BY <1>3 DEF RightsFollow, A, B
=============================================================================
