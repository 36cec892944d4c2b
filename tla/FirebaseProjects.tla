-------------------------- MODULE FirebaseProjects --------------------------
(***************************************************************************)
(* The Firebase projects of the cities (apps/notification): their rows,    *)
(* and the apps a process has made of them, which it keeps until it clears *)
(* them.  Making an app is synchronous, but it is made of rows read in an  *)
(* earlier statement, and what is kept already is never made anew.         *)
(*                                                                         *)
(* The credentials stand for the whole of a project; the encryption around *)
(* them is undone when the app is made.                                    *)
(***************************************************************************)
CONSTANTS
  City,
  Main,         \* key of the default project, which has no city
  Credentials,  \* what may be sent for each project
  Call,
  None

FirebaseAssumption ==
  /\ Main \notin City /\ None \notin City
  /\ \A p \in City \cup {Main} : None \notin Credentials[p]
  /\ None \notin [credentials : UNION {Credentials[p] : p \in City \cup {Main}},
                isActive : BOOLEAN]

\* A city has one project, by the unique cityId, so it stands for the id.
Project == City \cup {Main}

VARIABLES
  project,   \* table firebase_projects
  appCache,  \* the credentials in the app of each project, if there is one
  admin,     \* what each request does, where it is and the rows it read
  alone,     \* history: requests that no other one overlapped
  settled    \* history: projects whose last change of credentials was alone

projectVars == <<project, appCache, admin, alone, settled>>

Sent == UNION {Credentials[p] : p \in Project}
Row  == [credentials : Sent, isActive : BOOLEAN]
Idle == [at |-> "idle"]
Rows == [Project -> Row \cup {None}]
Job  == [at : {"store", "clear", "read", "load"}, id : Project,
         reloads : BOOLEAN,
         credentials : Sent \cup {None}, rows : Rows \cup {None}]

At(k, place) == admin[k].at = place

TypeOK ==
  /\ project \in Rows
  /\ appCache \in [Project -> Sent \cup {None}]
  /\ admin \in [Call -> Job \cup {Idle}]
  /\ alone \in SUBSET Call /\ settled \in SUBSET Project

Active(rows, p) == rows[p] # None /\ rows[p].isActive

\* loadProjects and getOrCreateApp: the active projects without an app get one.
Loaded(rows) ==
  [p \in Project |-> IF appCache[p] = None /\ Active(rows, p)
                     THEN rows[p].credentials ELSE appCache[p]]

Init ==
  /\ project \in [Project -> [credentials : Sent, isActive : {TRUE}] \cup {None}]
  /\ \A p \in Project : project[p] # None => project[p].credentials \in Credentials[p]
  /\ appCache = [p \in Project |-> IF project[p] = None THEN None ELSE project[p].credentials]
  /\ admin = [k \in Call |-> Idle]
  /\ alone = {} /\ settled = Project

-----------------------------------------------------------------------------
\* History: a change of credentials is unsettled from its begin.
Begin(k, p, credentials, place) ==
  /\ At(k, "idle")
  /\ admin' = [admin EXCEPT ![k] =
       [at |-> place, id |-> p, reloads |-> credentials # None \/ place = "store",
        credentials |-> credentials, rows |-> None]]
  /\ alone' = IF \E o \in Call : ~At(o, "idle") THEN {} ELSE {k}
  /\ settled' = IF credentials = None THEN settled ELSE settled \ {p}

Store(p, row)           == project' = [project EXCEPT ![p] = row]
ActiveWith(credentials) == [credentials |-> credentials, isActive |-> TRUE]

\* A second project of a city is refused, P2002, and so is here a second
\* default one, of which the code would take as many as are sent.
CreateProject(k, p, credentials) ==
  /\ project[p] = None
  /\ Begin(k, p, credentials, "read")
  /\ Store(p, ActiveWith(credentials))
  /\ UNCHANGED appCache

\* The city service has told that there is such a city; a request that times
\* out there has done nothing yet.
UpsertCityProject(k, c, credentials) ==
  /\ Begin(k, c, credentials, "clear")
  /\ Store(c, ActiveWith(credentials))
  /\ UNCHANGED appCache

ClearCache(p) == [appCache EXCEPT ![p] = None]

\* Mutant: the cache is left as it is when credentials are sent.
UpdateProjectUncleared(k, p, credentials) ==
  /\ project[p] # None
  /\ Begin(k, p, credentials, "store")
  /\ UNCHANGED <<project, appCache>>

\* The existing row is read; with credentials sent, its app is dropped before
\* the row is written.
UpdateProject(k, p, credentials) ==
  /\ project[p] # None
  /\ Begin(k, p, credentials, "store")
  /\ appCache' = IF credentials # None THEN ClearCache(p) ELSE appCache
  /\ UNCHANGED project

\* A PATCH may switch a project on or off as well.
StoreUpdate(k) ==
  /\ At(k, "store")
  /\ LET p    == admin[k].id
         sent == admin[k].credentials
         now  == IF sent = None THEN project[p].credentials ELSE sent
     IN  \E on \in BOOLEAN : Store(p, [credentials |-> now, isActive |-> on])
  /\ admin' = [admin EXCEPT ![k].at = "read"]
  /\ UNCHANGED <<appCache, alone, settled>>

\* No row ever goes, so the one that is found is there when it is written.
DeleteProject(k, p) ==
  /\ project[p] # None
  /\ Begin(k, p, None, "clear")
  /\ Store(p, [project[p] EXCEPT !.isActive = FALSE])
  /\ UNCHANGED appCache

\* History: a request that was alone leaves its project settled.
Over(k) ==
  /\ admin' = [admin EXCEPT ![k] = Idle]
  /\ alone' = alone \ {k}
  /\ settled' = IF admin[k].credentials # None /\ k \in alone
                THEN settled \cup {admin[k].id} ELSE settled

\* After an upsert, or a deletion, which loads nothing.
ClearAfter(k) ==
  /\ At(k, "clear")
  /\ appCache' = ClearCache(admin[k].id)
  /\ IF admin[k].reloads
     THEN admin' = [admin EXCEPT ![k].at = "read"] /\ UNCHANGED <<alone, settled>>
     ELSE Over(k)
  /\ UNCHANGED project

ReadProjects(k) ==
  /\ At(k, "read")
  /\ admin' = [admin EXCEPT ![k].at = "load", ![k].rows = project]
  /\ UNCHANGED <<project, appCache, alone, settled>>

\* The rest of loadProjects happens at once, and the request is answered.
LoadProjects(k) ==
  /\ At(k, "load")
  /\ appCache' = Loaded(admin[k].rows)
  /\ Over(k)
  /\ UNCHANGED project

\* A statement fails.
Fail(k) ==
  /\ At(k, "store") \/ At(k, "read")
  /\ admin' = [admin EXCEPT ![k] = Idle]
  /\ alone' = alone \ {k}
  /\ UNCHANGED <<project, appCache, settled>>

\* onModuleInit is over before a new process takes requests.
Restart ==
  /\ appCache' = [p \in Project |-> IF Active(project, p) THEN project[p].credentials ELSE None]
  /\ admin' = [k \in Call |-> Idle]
  /\ alone' = {} /\ settled' = Project
  /\ UNCHANGED project

Next ==
  \/ \E k \in Call :
       \/ \E p \in Project :
            \/ \E c \in Credentials[p] :
                 \/ CreateProject(k, p, c)
                 \/ p \in City /\ UpsertCityProject(k, p, c)
            \/ \E c \in Credentials[p] \cup {None} : UpdateProject(k, p, c)
            \/ DeleteProject(k, p)
       \/ StoreUpdate(k)
       \/ ClearAfter(k)
       \/ ReadProjects(k)
       \/ LoadProjects(k)
       \/ Fail(k)
  \/ Restart

Spec == Init /\ [][Next]_projectVars

-----------------------------------------------------------------------------
\* The credentials getFirebaseApp sends with for a city: of its project when
\* that is active, otherwise of the default one; of the app where there is
\* one, else of the row.  No notification gets as far: the user the push
\* service is told of never has a token of a device.
GetFirebaseApp(c) ==
  LET p == IF Active(project, c) THEN c ELSE Main
  IN  IF ~Active(project, p) THEN None
      ELSE IF appCache[p] # None THEN appCache[p] ELSE project[p].credentials

\* A city whose project was given credentials by a request that nobody
\* overlapped is served with them from then on, and not with an app made of
\* older ones, whatever else is created, switched or deleted later.
CredentialsInForce ==
  \A c \in City : Active(project, c) /\ c \in settled =>
    GetFirebaseApp(c) = project[c].credentials
=============================================================================
