------------------------- MODULE BulkNotifications -------------------------
(***************************************************************************)
(* Notifications to all users, or to all users of a city.                  *)
(* apps/notification asks apps/users for one page after the other and      *)
(* stops at the last page or at an empty one.  A page is a window of the   *)
(* list as it is when the page is read; users come and go in between, the  *)
(* number of pages is counted by a statement of its own, and the users of  *)
(* a city are read in no order.                                            *)
(***************************************************************************)
EXTENDS Integers, FiniteSets, Sequences, SequencesExt

CONSTANTS
  User,
  Limit  \* users on a page

LimitAssumption == Limit \in Nat \ {0} /\ IsFiniteSet(User)

VARIABLES
  born,    \* registered users, the newest first
  active,  \* those that are active
  bulk,    \* where the request stands
  tried,   \* calls of send for each user, a row or a failure counted
  steady,  \* history: users active ever since the request began
  shaken   \* history: what happened to the active users since then:
           \* "came", "left", and "torn" for a change inside a page

bulkVars == <<born, active, bulk, tried, steady, shaken>>

Scope == {"city", "all"}

\* Most times a page can hold one user: once per page.
MaxPage == Cardinality(User) + 1

\* "page": a page is wanted, and asks for its two statements.  "send": the
\* users found are to be notified.  "done", "error": the answer.
Bulk ==
  [at : {"page", "send", "done", "error"}, scope : Scope, page : 1 .. MaxPage,
   asks : SUBSET {"users", "count"}, found : SUBSET User, pages : 0 .. MaxPage,
   due : [User -> 0 .. MaxPage]]
Idle == [at |-> "idle"]

TypeOK ==
  /\ Range(born) \subseteq User /\ active \subseteq Range(born)
  /\ bulk \in Bulk \cup {Idle}
  /\ tried \in [User -> 0 .. MaxPage]
  /\ steady \subseteq active
  /\ shaken \subseteq {"came", "left", "torn"}

Init ==
  /\ born \in {s \in SeqOf(User, Cardinality(User)) : IsInjective(s)}
  /\ active \in SUBSET Range(born)
  /\ bulk = Idle
  /\ tried = [u \in User |-> 0]
  /\ steady = {} /\ shaken = {}

At(place) == bulk.at = place

-----------------------------------------------------------------------------

\* A page is being read: one of its statements has run, the other has not.
Torn == At("page") /\ bulk.asks # {} /\ bulk.asks # {"users", "count"}

Shake(how) == shaken' = shaken \cup {how} \cup (IF Torn THEN {"torn"} ELSE {})

\* A user registers, or one is activated again or stops being a guest and
\* takes the place of the registration.
Come(u) ==
  /\ u \notin active
  /\ born' = IF u \in Range(born) THEN born ELSE <<u>> \o born
  /\ active' = active \cup {u}
  /\ Shake("came")
  /\ UNCHANGED <<bulk, tried, steady>>

\* A user is deactivated or deleted.
Leave(u) ==
  /\ u \in active
  /\ active' = active \ {u} /\ steady' = steady \ {u}
  /\ Shake("left")
  /\ UNCHANGED <<born, bulk, tried>>

\* sendBulkToCity and sendBulkToAll.
Start(scope) ==
  /\ At("idle")
  /\ bulk' = [at |-> "page", scope |-> scope, page |-> 1,
              asks |-> {"users", "count"}, found |-> {}, pages |-> 0,
              due |-> [u \in User |-> 0]]
  /\ steady' = active /\ shaken' = {}
  /\ UNCHANGED <<born, active, tried>>

\* How many active users are newer, and so before a user in the list.
Place(u)  == CHOOSE i \in DOMAIN born : born[i] = u
Before(u) == Cardinality({v \in active : Place(v) < Place(u)})
Skip      == (bulk.page - 1) * Limit

\* The window of findAllActive.
PageWindow == {u \in active : Skip <= Before(u) /\ Before(u) < Skip + Limit}

\* Of findByCity, which orders nothing, any users of that number.
Pages(scope) ==
  IF scope = "all" THEN {PageWindow}
  ELSE {us \in SUBSET active : Cardinality(us) = Cardinality(PageWindow)}

\* findMany.
ReadUsers ==
  /\ At("page") /\ "users" \in bulk.asks
  /\ \E us \in Pages(bulk.scope) :
       bulk' = [bulk EXCEPT !.asks = @ \ {"users"}, !.found = us]
  /\ UNCHANGED <<born, active, tried, steady, shaken>>

\* Mutant: a page that is not full is not counted.
PagesDown == Cardinality(active) \div Limit

\* count, rounded up to pages.
PageCount == (Cardinality(active) + Limit - 1) \div Limit

CountUsers ==
  /\ At("page") /\ "count" \in bulk.asks
  /\ bulk' = [bulk EXCEPT !.asks = @ \ {"count"}, !.pages = PageCount]
  /\ UNCHANGED <<born, active, tried, steady, shaken>>

\* A page is last when it is empty or when the count says so; a count of 0
\* says nothing.
LastPage == bulk.found = {} \/ (bulk.pages > 0 /\ bulk.page >= bulk.pages)

NextPage ==
  [bulk EXCEPT !.page = @ + 1, !.asks = {"users", "count"}, !.found = {}, !.pages = 0]

Once(us) == [u \in User |-> IF u \in us THEN 1 ELSE 0]
Plus(f, g) == [u \in User |-> f[u] + g[u]]

\* To a city, the users of the page are notified before the next is read.
SendPage ==
  /\ At("page") /\ bulk.asks = {} /\ bulk.scope = "city"
  /\ tried' = Plus(tried, Once(bulk.found))
  /\ bulk' = IF LastPage THEN [bulk EXCEPT !.at = "done"] ELSE NextPage
  /\ UNCHANGED <<born, active, steady, shaken>>

\* To all, they are collected.
Collect ==
  /\ At("page") /\ bulk.asks = {} /\ bulk.scope = "all"
  /\ LET due == Plus(bulk.due, Once(bulk.found))
     IN  bulk' = IF LastPage THEN [bulk EXCEPT !.at = "send", !.due = due]
                 ELSE [NextPage EXCEPT !.due = due]
  /\ UNCHANGED <<born, active, tried, steady, shaken>>

\* And notified in the end, city by city.
SendAll ==
  /\ At("send")
  /\ tried' = Plus(tried, bulk.due)
  /\ bulk' = [bulk EXCEPT !.at = "done"]
  /\ UNCHANGED <<born, active, steady, shaken>>

\* Users does not answer within thirty seconds, or fails: an error, whoever
\* was notified by then.
Fail ==
  /\ At("page") /\ bulk.asks # {}
  /\ bulk' = [bulk EXCEPT !.at = "error"]
  /\ UNCHANGED <<born, active, tried, steady, shaken>>

Next ==
  \/ \E u \in User : Come(u)
  \/ \E u \in User : Leave(u)
  \/ \E scope \in Scope : Start(scope)
  \/ ReadUsers
  \/ CountUsers
  \/ SendPage
  \/ Collect
  \/ SendAll
  \/ Fail

Spec == Init /\ [][Next]_bulkVars

-----------------------------------------------------------------------------

\* All calls of send, the n-th for each user.
Sends == {c \in User \X (1 .. MaxPage) : c[2] <= tried[c[1]]}
Total == Cardinality(Sends)

\* What a bulk that answered with success has reached.  If the users were
\* the same throughout: all of them, each once; in a city as many as there
\* are, though not each once.  If some came and none left, and no page was
\* read across a change: in the bulk to all, everybody who was there from
\* the start, though perhaps twice.  And an error of the bulk to all has
\* reached nobody.
BulkReaches ==
  /\ At("done") /\ shaken = {} =>
       /\ Total = Cardinality(active)
       /\ bulk.scope = "all" => \A u \in active : tried[u] = 1
  /\ At("done") /\ bulk.scope = "all" /\ shaken \subseteq {"came"} =>
       \A u \in steady : tried[u] > 0
  /\ At("error") /\ bulk.scope = "all" => Total = 0
=============================================================================
