----------------------------- MODULE Newsletter -----------------------------
(***************************************************************************)
(* Newsletter subscriptions of apps/integration.  A request looks for a    *)
(* row, creates a contact in the e-marketing suite (EMS), triggers an      *)
(* event there and inserts the row last.  The suite is not asked whether   *)
(* the contact exists, its answers may be lost after it acted, and nothing *)
(* removes a contact whose row was never written.                          *)
(***************************************************************************)
EXTENDS Naturals

CONSTANTS
  User,
  Address,
  Call,        \* requests that may be under way at once
  MaxContacts, \* bound: contacts of one address
  None

ContactsAssumption ==
  /\ MaxContacts \in Nat \ {0}
  /\ None \notin [mail : Address, event : BOOLEAN]

VARIABLES
  row,      \* table newsletter_subscriptions, by its unique userId
  call,     \* where each request stands
  contacts, \* EMS: contacts created for each address
  events,   \* EMS: addresses with an event triggered
  spoilt    \* history: addresses with a request that failed after it had
            \* asked for a contact, or that ran beside another of its address
            \* or its user

newsVars == <<row, call, contacts, events, spoilt>>

Row     == [mail : Address, event : BOOLEAN]
Idle    == [at |-> "idle"]
Pending == [at : {"contact", "event", "insert"}, user : User, mail : Address,
            event : BOOLEAN]

TypeOK ==
  /\ row \in [User -> Row \cup {None}]
  /\ call \in [Call -> Pending \cup {Idle}]
  /\ contacts \in [Address -> 0 .. MaxContacts]
  /\ events \in SUBSET Address
  /\ spoilt \in SUBSET Address

Init ==
  /\ row = [u \in User |-> None]
  /\ call = [k \in Call |-> Idle]
  /\ contacts = [m \in Address |-> 0]
  /\ events = {} /\ spoilt = {}

At(k, place) == call[k].at = place
Goto(k, at)  == call' = [call EXCEPT ![k].at = at]
Finish(k)    == call' = [call EXCEPT ![k] = Idle]

HasRow(m) == \E u \in User : row[u] # None /\ row[u].mail = m

\* Requests under way that concern the user or the address.
Beside(u, m) == {k \in Call : ~At(k, "idle") /\ (call[k].user = u \/ call[k].mail = m)}

-----------------------------------------------------------------------------

\* Mutant: an existing subscription is looked for by the user only.
FindByUser(u, m) == row[u] # None

\* findFirst with OR.
Existing(u, m) == row[u] # None \/ HasRow(m)

\* subscribeToNewsletter, up to the first request to the suite.  Finding a
\* row answers Conflict; a missing API key fails before anything is sent.
Subscribe(k, u, m) ==
  /\ At(k, "idle") /\ ~Existing(u, m)
  /\ call' = [call EXCEPT ![k] =
       [at |-> "contact", user |-> u, mail |-> m, event |-> FALSE]]
  /\ LET others == Beside(u, m)
     IN  spoilt' = IF others = {} THEN spoilt
                   ELSE spoilt \cup {m} \cup {call[j].mail : j \in others}
  /\ UNCHANGED <<row, contacts, events>>

\* POST contacts.  The suite creates the contact and answers with its href,
\* or it refuses, or its answer is lost or has no href that can be read.
CreateContact(k) ==
  /\ At(k, "contact")
  /\ LET m == call[k].mail
     IN  \/ /\ contacts[m] < MaxContacts
            /\ contacts' = [contacts EXCEPT ![m] = @ + 1]
            /\ \/ Goto(k, "event") /\ UNCHANGED spoilt
               \/ Finish(k) /\ spoilt' = spoilt \cup {m}
         \/ Finish(k) /\ UNCHANGED <<contacts, spoilt>>
  /\ UNCHANGED <<row, events>>

\* POST events, to the address.  An error is logged and forgotten.
TriggerEvent(k) ==
  /\ At(k, "event")
  /\ \E done, answered \in BOOLEAN :
       /\ answered => done
       /\ events' = IF done THEN events \cup {call[k].mail} ELSE events
       /\ call' = [call EXCEPT ![k].at = "insert", ![k].event = answered]
  /\ UNCHANGED <<row, contacts, spoilt>>

\* The row.  It is refused when the user or the address has one by now, and
\* the statement may fail.
InsertRow(k) ==
  /\ At(k, "insert")
  /\ LET c == call[k]
         free == row[c.user] = None /\ ~HasRow(c.mail)
     IN  \/ /\ row' = IF free
                     THEN [row EXCEPT ![c.user] = [mail |-> c.mail, event |-> c.event]]
                     ELSE row
            /\ UNCHANGED spoilt
         \/ UNCHANGED row /\ spoilt' = spoilt \cup {c.mail}
  /\ Finish(k)
  /\ UNCHANGED <<contacts, events>>

\* The process stops.
Crash ==
  /\ \E k \in Call : ~At(k, "idle")
  /\ call' = [k \in Call |-> Idle]
  /\ spoilt' = spoilt \cup {call[k].mail : k \in {j \in Call : ~At(j, "idle")}}
  /\ UNCHANGED <<row, contacts, events>>

Next ==
  \/ \E k \in Call, u \in User, m \in Address : Subscribe(k, u, m)
  \/ \E k \in Call : CreateContact(k)
  \/ \E k \in Call : TriggerEvent(k)
  \/ \E k \in Call : InsertRow(k)
  \/ Crash

Spec == Init /\ [][Next]_newsVars

-----------------------------------------------------------------------------

\* Requests whose contact exists and whose row does not yet.
Underway(m) == {k \in Call : ~At(k, "idle") /\ ~At(k, "contact") /\ call[k].mail = m}

\* The suite and the table agree.  A subscription has its contact, and the
\* event it claims; and an address has one contact if it is subscribed and
\* none if it is not, unless a request for it failed half-way, is still
\* under way, or two requests for the address or for one user overlapped.
SubscribedOnce ==
  /\ \A u \in User : row[u] # None =>
       /\ contacts[row[u].mail] > 0
       /\ row[u].event => row[u].mail \in events
  /\ \A m \in Address : m \notin spoilt /\ Underway(m) = {} =>
       contacts[m] = IF HasRow(m) THEN 1 ELSE 0
=============================================================================
