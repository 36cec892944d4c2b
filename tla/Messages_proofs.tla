-------------------------- MODULE Messages_proofs --------------------------
(* The parts of MCLinks beside the links: what notifications, the           *)
(* newsletter, the hourly run, the Firebase projects, the alerts, the       *)
(* history of errors and the notifications to many users promise, for every *)
(* value of their constants.                                                *)
EXTENDS Links_proofs, Sequences, SequenceTheorems, WellFoundedInduction

-----------------------------------------------------------------------------
(* Newsletter *)

USE DEF Subscriptions!At, Subscriptions!Goto, Subscriptions!Finish

Busy(k) == call[k].at # "idle"

\* The contact of a request that has got so far exists, and the event that it
\* or a subscription claims.
ContactsMade ==
  /\ \A u \in Subscriber : subscription[u] # None =>
       /\ contacts[subscription[u].mail] > 0
       /\ subscription[u].event => subscription[u].mail \in events
  /\ \A k \in Call : call[k].at \in {"event", "insert"} => contacts[call[k].mail] > 0
  /\ \A k \in Call : call[k].at = "insert" /\ call[k].event => call[k].mail \in events

\* Two requests for one user or one address have spoilt both addresses.
OthersSpoil ==
  \A j, k \in Call :
    Busy(j) /\ Busy(k) /\ j # k /\ (call[j].user = call[k].user \/ call[j].mail = call[k].mail)
      => call[k].mail \in spoilt

\* What a request looked for is still missing when its row is inserted,
\* unless its address is spoilt.
StillMissing ==
  \A k \in Call : Busy(k) /\ call[k].mail \notin spoilt =>
    subscription[call[k].user] = None /\ ~Subscriptions!HasRow(call[k].mail)

\* An address that is not spoilt has one contact when it is subscribed or when
\* a request has got that far, and none otherwise.
OneContact ==
  \A m \in Address \ spoilt :
    contacts[m] = IF Subscriptions!HasRow(m)
                     \/ \E k \in Call : call[k].at \in {"event", "insert"} /\ call[k].mail = m
                  THEN 1 ELSE 0

NewsInv ==
  /\ Subscriptions!TypeOK
  /\ ContactsMade
  /\ OthersSpoil
  /\ StillMissing
  /\ OneContact

LEMMA NewsInvInit == Subscriptions!Init => NewsInv
<1> SUFFICES ASSUME Subscriptions!Init PROVE NewsInv
  OBVIOUS
<1> USE HostedAssumption DEF Subscriptions!Init, Subscriptions!Idle, Subscriptions!ContactsAssumption
<1>1. Subscriptions!TypeOK
  BY DEF Subscriptions!TypeOK
<1>2. ContactsMade /\ OthersSpoil /\ StillMissing
  BY DEF ContactsMade, OthersSpoil, StillMissing, Busy
<1>3. OneContact
  BY DEF OneContact, Subscriptions!HasRow
<1> QED
  BY <1>1, <1>2, <1>3 DEF NewsInv

\* What is known of a request under way.
LEMMA BusyTypes ==
  ASSUME NewsInv, NEW k \in Call, Busy(k)
  PROVE  /\ call[k] \in Subscriptions!Pending
         /\ call[k].user \in Subscriber /\ call[k].mail \in Address
         /\ call[k].at \in {"contact", "event", "insert"} /\ call[k].event \in BOOLEAN
BY DEF NewsInv, Busy, Subscriptions!TypeOK, Subscriptions!Pending, Subscriptions!Idle

LEMMA SubscribeKeeps ==
  ASSUME NewsInv, NEW k \in Call, NEW u \in Subscriber, NEW m \in Address,
         Subscriptions!Subscribe(k, u, m)
  PROVE  NewsInv'
<1> DEFINE c == [at |-> "contact", user |-> u, mail |-> m, event |-> FALSE]
<1>1. /\ call[k].at = "idle" /\ subscription[u] = None /\ ~Subscriptions!HasRow(m)
      /\ call' = [call EXCEPT ![k] = c]
      /\ UNCHANGED <<subscription, contacts, events>>
  BY DEF Subscriptions!Subscribe, Subscriptions!Existing
<1>2. c \in Subscriptions!Pending
  BY DEF Subscriptions!Pending
<1>3. /\ call' \in [Call -> Subscriptions!Pending \cup {Subscriptions!Idle}]
      /\ call'[k] = c /\ \A j \in Call \ {k} : call'[j] = call[j]
  BY <1>1, <1>2 DEF NewsInv, Subscriptions!TypeOK
<1>4. c.at = "contact" /\ c.user = u /\ c.mail = m /\ c.event = FALSE
  OBVIOUS
<1> HIDE DEF c
<1>5. /\ spoilt \subseteq spoilt' /\ spoilt' \subseteq Address
      /\ \A j \in Call : Busy(j) /\ (call[j].user = u \/ call[j].mail = m)
           => call[j].mail \in spoilt' /\ m \in spoilt'
  <2>1. \A j \in Subscriptions!Beside(u, m) : call[j].mail \in Address
    BY BusyTypes DEF Subscriptions!Beside, Busy
  <2>2. \A j \in Call : Busy(j) /\ (call[j].user = u \/ call[j].mail = m)
           => j \in Subscriptions!Beside(u, m)
    BY DEF Subscriptions!Beside, Busy
  <2> QED
    BY <2>1, <2>2 DEF Subscriptions!Subscribe, NewsInv, Subscriptions!TypeOK
<1>6. Subscriptions!TypeOK'
  BY <1>1, <1>3, <1>5 DEF NewsInv, Subscriptions!TypeOK
<1>7. ContactsMade'
  BY <1>1, <1>3, <1>4 DEF NewsInv, ContactsMade
<1>8. OthersSpoil'
  BY <1>3, <1>4, <1>5 DEF NewsInv, OthersSpoil, Busy
<1>9. StillMissing'
  BY <1>1, <1>3, <1>4, <1>5 DEF NewsInv, StillMissing, Subscriptions!HasRow, Busy
<1>10. OneContact'
  BY <1>1, <1>3, <1>4, <1>5 DEF NewsInv, OneContact, Subscriptions!HasRow
<1> QED
  BY <1>6, <1>7, <1>8, <1>9, <1>10 DEF NewsInv

\* A request that ends, or all of them, leaving the addresses it had a contact
\* for to the spoilt ones.
LEMMA EndKeeps ==
  ASSUME NewsInv, UNCHANGED <<subscription, events>>,
         contacts' \in [Address -> 0 .. MaxContacts],
         spoilt \subseteq spoilt', spoilt' \subseteq Address,
         \A m \in Address : contacts'[m] >= contacts[m],
         \A m \in Address \ spoilt' : contacts'[m] = contacts[m],
         \A k \in Call : \/ call'[k] = call[k]
                         \/ /\ call'[k] = Subscriptions!Idle
                            /\ call[k].at \in {"event", "insert"} => call[k].mail \in spoilt',
         call' \in [Call -> Subscriptions!Pending \cup {Subscriptions!Idle}]
  PROVE  NewsInv'
<1>1. \A k \in Call : call'[k].at # "idle" => call'[k] = call[k]
  BY DEF Subscriptions!Idle
<1>2. Subscriptions!TypeOK'
  BY DEF NewsInv, Subscriptions!TypeOK
<1>3. \A m \in Address : contacts[m] > 0 => contacts'[m] > 0
  BY DEF NewsInv, Subscriptions!TypeOK
<1>4. ContactsMade'
  <2>1. \A k \in Call : call[k].at # "idle" => call[k].mail \in Address
    BY BusyTypes DEF Busy
  <2>2. \A u \in Subscriber : subscription[u] # None => subscription[u].mail \in Address
    BY DEF NewsInv, Subscriptions!TypeOK, Subscriptions!Row
  <2> QED
    BY <1>1, <1>3, <2>1, <2>2 DEF NewsInv, ContactsMade
<1>5. OthersSpoil'
  BY <1>1 DEF NewsInv, OthersSpoil, Busy
<1>6. StillMissing'
  BY <1>1 DEF NewsInv, StillMissing, Subscriptions!HasRow, Busy
<1>7. OneContact'
  <2> SUFFICES ASSUME NEW m \in Address, m \notin spoilt'
               PROVE  /\ contacts'[m] = contacts[m] /\ m \notin spoilt
                      /\ \A k \in Call : call'[k].at \in {"event", "insert"} /\ call'[k].mail = m
                                      <=> call[k].at \in {"event", "insert"} /\ call[k].mail = m
    BY DEF NewsInv, OneContact, Subscriptions!HasRow
  <2> QED
    BY <1>1
<1> QED
  BY <1>2, <1>4, <1>5, <1>6, <1>7 DEF NewsInv

LEMMA CreateContactKeeps ==
  ASSUME NewsInv, NEW k \in Call, Subscriptions!CreateContact(k)
  PROVE  NewsInv'
<1> DEFINE m == call[k].mail
<1>0. /\ Busy(k) /\ call[k].at = "contact" /\ m \in Address
      /\ UNCHANGED <<subscription, events>>
  BY BusyTypes DEF Subscriptions!CreateContact, Busy
<1>1. CASE Subscriptions!Finish(k) /\ UNCHANGED <<contacts, spoilt>>
  <2>1. call' \in [Call -> Subscriptions!Pending \cup {Subscriptions!Idle}]
    BY <1>1 DEF NewsInv, Subscriptions!TypeOK
  <2>2. \A j \in Call : call'[j] = call[j] \/ (j = k /\ call'[j] = Subscriptions!Idle)
    BY <1>1 DEF NewsInv, Subscriptions!TypeOK
  <2>3. contacts' \in [Address -> 0 .. MaxContacts] /\ \A n \in Address : contacts'[n] >= contacts[n]
    BY <1>1 DEF NewsInv, Subscriptions!TypeOK
  <2> QED
    BY <1>0, <1>1, <2>1, <2>2, <2>3, EndKeeps DEF NewsInv, Subscriptions!TypeOK
<1>2. CASE /\ contacts[m] < MaxContacts /\ contacts' = [contacts EXCEPT ![m] = @ + 1]
           /\ \/ Subscriptions!Goto(k, "event") /\ UNCHANGED spoilt
              \/ Subscriptions!Finish(k) /\ spoilt' = spoilt \cup {m}
  <2>0. contacts' \in [Address -> 0 .. MaxContacts]
    BY <1>0, <1>2, HostedAssumption
       DEF NewsInv, Subscriptions!TypeOK, Subscriptions!ContactsAssumption
  <2>1. /\ contacts'[m] = contacts[m] + 1 /\ contacts[m] \in Nat
        /\ \A n \in Address \ {m} : contacts'[n] = contacts[n]
        /\ \A n \in Address : contacts'[n] >= contacts[n]
    BY <1>0, <1>2 DEF NewsInv, Subscriptions!TypeOK
  <2>2. CASE Subscriptions!Finish(k) /\ spoilt' = spoilt \cup {m}
    <3>1. call' \in [Call -> Subscriptions!Pending \cup {Subscriptions!Idle}]
      BY <2>2 DEF NewsInv, Subscriptions!TypeOK
    <3>2. \A j \in Call : call'[j] = call[j] \/ (j = k /\ call'[j] = Subscriptions!Idle)
      BY <2>2 DEF NewsInv, Subscriptions!TypeOK
    <3> QED
      BY <1>0, <2>0, <2>1, <2>2, <3>1, <3>2, EndKeeps DEF NewsInv, Subscriptions!TypeOK
  <2>3. CASE Subscriptions!Goto(k, "event") /\ UNCHANGED spoilt
    <3>1. /\ call' \in [Call -> Subscriptions!Pending \cup {Subscriptions!Idle}]
          /\ call'[k].at = "event" /\ call'[k].user = call[k].user /\ call'[k].mail = m
          /\ \A j \in Call \ {k} : call'[j] = call[j]
      BY <1>0, <2>3, BusyTypes DEF NewsInv, Subscriptions!TypeOK, Subscriptions!Pending
    <3>2. Subscriptions!TypeOK'
      BY <1>0, <2>0, <2>3, <3>1 DEF NewsInv, Subscriptions!TypeOK
    <3>3. ContactsMade'
      <4>1. \A n \in Address : contacts[n] > 0 => contacts'[n] > 0
        BY <2>1, <2>0 DEF NewsInv, Subscriptions!TypeOK
      <4>2. \A j \in Call : call[j].at # "idle" => call[j].mail \in Address
        BY BusyTypes DEF Busy
      <4>3. \A u \in Subscriber : subscription[u] # None => subscription[u].mail \in Address
        BY DEF NewsInv, Subscriptions!TypeOK, Subscriptions!Row
      <4> QED
        BY <1>0, <2>1, <3>1, <4>1, <4>2, <4>3 DEF NewsInv, ContactsMade
    <3>4. OthersSpoil'
      BY <1>0, <2>3, <3>1 DEF NewsInv, OthersSpoil, Busy
    <3>5. StillMissing'
      BY <1>0, <2>3, <3>1 DEF NewsInv, StillMissing, Subscriptions!HasRow, Busy
    <3>6. OneContact'
      <4> SUFFICES ASSUME NEW n \in Address, n \notin spoilt
                   PROVE  contacts'[n] = IF Subscriptions!HasRow(n)
                            \/ \E j \in Call : call'[j].at \in {"event", "insert"} /\ call'[j].mail = n
                          THEN 1 ELSE 0
        BY <1>0, <2>3 DEF OneContact, Subscriptions!HasRow
      <4>1. CASE n = m
        <5>1. ~Subscriptions!HasRow(m)
          BY <1>0, <4>1 DEF NewsInv, StillMissing
        <5>2. ~\E j \in Call : call[j].at \in {"event", "insert"} /\ call[j].mail = m
          BY <1>0, <4>1 DEF NewsInv, OthersSpoil, Busy
        <5>3. contacts[m] = 0
          BY <1>0, <4>1, <5>1, <5>2 DEF NewsInv, OneContact
        <5> QED
          BY <2>1, <3>1, <4>1, <5>3
      <4>2. CASE n # m
        <5>1. \A j \in Call : call'[j].at \in {"event", "insert"} /\ call'[j].mail = n
                          <=> call[j].at \in {"event", "insert"} /\ call[j].mail = n
          BY <1>0, <3>1, <4>2
        <5> QED
          BY <2>1, <4>2, <5>1 DEF NewsInv, OneContact
      <4> QED
        BY <4>1, <4>2
    <3> QED
      BY <3>2, <3>3, <3>4, <3>5, <3>6 DEF NewsInv
  <2> QED
    BY <1>2, <2>2, <2>3
<1> QED
  BY <1>1, <1>2 DEF Subscriptions!CreateContact

LEMMA TriggerEventKeeps ==
  ASSUME NewsInv, NEW k \in Call, Subscriptions!TriggerEvent(k)
  PROVE  NewsInv'
<1>1. PICK done \in BOOLEAN, answered \in BOOLEAN :
        /\ answered => done
        /\ events' = IF done THEN events \cup {call[k].mail} ELSE events
        /\ call' = [call EXCEPT ![k].at = "insert", ![k].event = answered]
  BY DEF Subscriptions!TriggerEvent
<1>2. Busy(k) /\ call[k].at = "event" /\ UNCHANGED <<subscription, contacts, spoilt>>
  BY DEF Subscriptions!TriggerEvent, Busy
<1>3. /\ call' \in [Call -> Subscriptions!Pending \cup {Subscriptions!Idle}]
      /\ call'[k].at = "insert" /\ call'[k].user = call[k].user
      /\ call'[k].mail = call[k].mail /\ call'[k].event = answered
      /\ \A j \in Call \ {k} : call'[j] = call[j]
  BY <1>1, <1>2, BusyTypes DEF NewsInv, Subscriptions!TypeOK, Subscriptions!Pending
<1>4. Subscriptions!TypeOK'
  BY <1>1, <1>2, <1>3, BusyTypes DEF NewsInv, Subscriptions!TypeOK
<1>5. ContactsMade'
  BY <1>1, <1>2, <1>3 DEF NewsInv, ContactsMade
<1>6. OthersSpoil' /\ StillMissing'
  BY <1>2, <1>3 DEF NewsInv, OthersSpoil, StillMissing, Subscriptions!HasRow, Busy
<1>7. OneContact'
  <2>1. \A m \in Address, j \in Call :
          call'[j].at \in {"event", "insert"} /\ call'[j].mail = m
            <=> call[j].at \in {"event", "insert"} /\ call[j].mail = m
    BY <1>2, <1>3
  <2> QED
    BY <1>2, <2>1 DEF NewsInv, OneContact, Subscriptions!HasRow
<1> QED
  BY <1>4, <1>5, <1>6, <1>7 DEF NewsInv

LEMMA InsertRowKeeps ==
  ASSUME NewsInv, NEW k \in Call, Subscriptions!InsertRow(k)
  PROVE  NewsInv'
<1> DEFINE m == call[k].mail
           u == call[k].user
           new == [mail |-> m, event |-> call[k].event]
<1>0. /\ Busy(k) /\ call[k].at = "insert" /\ m \in Address /\ u \in Subscriber
      /\ UNCHANGED <<contacts, events>> /\ call' = [call EXCEPT ![k] = Subscriptions!Idle]
  BY BusyTypes DEF Subscriptions!InsertRow, Busy
<1>1. /\ call' \in [Call -> Subscriptions!Pending \cup {Subscriptions!Idle}]
      /\ call'[k] = Subscriptions!Idle /\ call'[k].at = "idle"
      /\ \A j \in Call \ {k} : call'[j] = call[j]
  BY <1>0 DEF NewsInv, Subscriptions!TypeOK, Subscriptions!Idle
<1>2. CASE /\ subscription[u] = None /\ ~Subscriptions!HasRow(m)
           /\ subscription' = [subscription EXCEPT ![u] = new] /\ UNCHANGED spoilt
  <2>1. /\ new \in Subscriptions!Row /\ new # None
        /\ new.mail = m /\ new.event = call[k].event
    BY <1>0, BusyTypes, HostedAssumption
       DEF Subscriptions!Row, Subscriptions!ContactsAssumption
  <2> HIDE DEF new
  <2>2. /\ subscription' \in [Subscriber -> Subscriptions!Row \cup {None}]
        /\ subscription'[u] = new
        /\ \A v \in Subscriber \ {u} : subscription'[v] = subscription[v]
    BY <1>0, <1>2, <2>1 DEF NewsInv, Subscriptions!TypeOK
  <2>3. Subscriptions!TypeOK'
    BY <1>0, <1>1, <1>2, <2>2 DEF NewsInv, Subscriptions!TypeOK
  <2>4. ContactsMade'
    BY <1>0, <1>1, <2>1, <2>2 DEF NewsInv, ContactsMade
  <2>5. OthersSpoil'
    BY <1>1, <1>2 DEF NewsInv, OthersSpoil, Busy
  <2>6. \A n \in Address : n # m => (Subscriptions!HasRow(n)' <=> Subscriptions!HasRow(n))
    BY <1>2, <2>1, <2>2 DEF Subscriptions!HasRow
  <2>7. StillMissing'
    <3>1. \A j \in Call : Busy(j)' => j # k /\ call'[j] = call[j] /\ Busy(j)
      BY <1>1 DEF Busy
    <3>2. \A j \in Call \ {k} : Busy(j) /\ call[j].mail \notin spoilt
            => call[j].user # u /\ call[j].mail # m
      BY <1>0 DEF NewsInv, OthersSpoil
    <3>3. \A j \in Call : Busy(j) => call[j].user \in Subscriber /\ call[j].mail \in Address
      BY BusyTypes
    <3>4. \A j \in Call \ {k} : Busy(j) /\ call[j].mail \notin spoilt
            => subscription'[call[j].user] = None /\ ~(\E v \in Subscriber :
                 subscription'[v] # None /\ subscription'[v].mail = call[j].mail)
      BY <1>2, <2>1, <2>2, <3>2, <3>3 DEF NewsInv, StillMissing, Subscriptions!HasRow
    <3> QED
      BY <1>2, <3>1, <3>4 DEF StillMissing, Subscriptions!HasRow
  <2>8. OneContact'
    <3> SUFFICES ASSUME NEW n \in Address, n \notin spoilt
                 PROVE  contacts[n] = IF Subscriptions!HasRow(n)'
                          \/ \E j \in Call : call'[j].at \in {"event", "insert"} /\ call'[j].mail = n
                        THEN 1 ELSE 0
      BY <1>0, <1>2 DEF OneContact, Subscriptions!HasRow
    <3>1. CASE n = m
      <4>1. Subscriptions!HasRow(n)'
        BY <1>0, <2>1, <2>2, <3>1 DEF Subscriptions!HasRow
      <4> QED
        BY <1>0, <3>1, <4>1 DEF NewsInv, OneContact
    <3>2. CASE n # m
      <4>1. \A j \in Call : call'[j].at \in {"event", "insert"} /\ call'[j].mail = n
                        <=> call[j].at \in {"event", "insert"} /\ call[j].mail = n
        BY <1>0, <1>1, <3>2
      <4> QED
        BY <2>6, <3>2, <4>1 DEF NewsInv, OneContact
    <3> QED
      BY <3>1, <3>2
  <2> QED
    BY <2>3, <2>4, <2>5, <2>7, <2>8 DEF NewsInv
<1>3. CASE UNCHANGED subscription /\ spoilt' = spoilt \cup {m}
  <2>1. /\ spoilt \subseteq spoilt' /\ spoilt' \subseteq Address /\ m \in spoilt'
        /\ contacts' \in [Address -> 0 .. MaxContacts]
        /\ \A n \in Address : contacts'[n] >= contacts[n]
    BY <1>0, <1>3 DEF NewsInv, Subscriptions!TypeOK
  <2> QED
    BY <1>0, <1>1, <1>3, <2>1, EndKeeps
<1>4. subscription[u] # None \/ Subscriptions!HasRow(m) => m \in spoilt
  BY <1>0 DEF NewsInv, StillMissing
<1>5. CASE subscription[u] = None /\ ~Subscriptions!HasRow(m)
  <2>1. \/ /\ subscription' = [subscription EXCEPT ![u] = new]
           /\ UNCHANGED spoilt
        \/ UNCHANGED subscription /\ spoilt' = spoilt \cup {m}
    BY <1>5 DEF Subscriptions!InsertRow
  <2> QED
    BY <1>2, <1>3, <1>5, <2>1
<1>6. CASE subscription[u] # None \/ Subscriptions!HasRow(m)
  <2>1. \/ UNCHANGED subscription /\ UNCHANGED spoilt
        \/ UNCHANGED subscription /\ spoilt' = spoilt \cup {m}
    BY <1>6 DEF Subscriptions!InsertRow
  <2>2. spoilt \cup {m} = spoilt
    BY <1>4, <1>6
  <2> QED
    BY <1>3, <2>1, <2>2
<1> QED
  BY <1>5, <1>6

LEMMA NewsInvStep ==
  ASSUME NewsInv, [Subscriptions!Next]_(Subscriptions!newsVars)
  PROVE  NewsInv'
<1>1. CASE Subscriptions!Crash
  <2>1. /\ UNCHANGED <<subscription, events, contacts>>
        /\ call' = [k \in Call |-> Subscriptions!Idle]
        /\ spoilt' = spoilt \cup {call[k].mail : k \in {j \in Call : call[j].at # "idle"}}
    BY <1>1 DEF Subscriptions!Crash
  <2>2. /\ spoilt \subseteq spoilt' /\ spoilt' \subseteq Address
        /\ \A k \in Call : call[k].at \in {"event", "insert"} => call[k].mail \in spoilt'
    BY <2>1, BusyTypes DEF Busy, NewsInv, Subscriptions!TypeOK
  <2>3. /\ contacts' \in [Address -> 0 .. MaxContacts]
        /\ \A n \in Address : contacts'[n] >= contacts[n]
    BY <2>1 DEF NewsInv, Subscriptions!TypeOK
  <2>4. /\ call' \in [Call -> Subscriptions!Pending \cup {Subscriptions!Idle}]
        /\ \A k \in Call : call'[k] = Subscriptions!Idle
    BY <2>1
  <2> QED
    BY <2>1, <2>2, <2>3, <2>4, EndKeeps
<1>2. CASE UNCHANGED Subscriptions!newsVars
  BY <1>2
     DEF Subscriptions!newsVars, NewsInv, Subscriptions!TypeOK, ContactsMade, OthersSpoil,
         StillMissing, OneContact, Subscriptions!HasRow, Busy
<1> QED
  BY <1>1, <1>2, SubscribeKeeps, CreateContactKeeps, TriggerEventKeeps, InsertRowKeeps
     DEF Subscriptions!Next

\* Subscriptions and contacts agree.
LEMMA NewsAgree == NewsInv => Subscriptions!SubscribedOnce
<1> SUFFICES ASSUME NewsInv, NEW m \in Address, m \notin spoilt, Subscriptions!Underway(m) = {}
             PROVE  contacts[m] = IF Subscriptions!HasRow(m) THEN 1 ELSE 0
  BY DEF NewsInv, ContactsMade, Subscriptions!SubscribedOnce
<1>1. ~\E k \in Call : call[k].at \in {"event", "insert"} /\ call[k].mail = m
  BY DEF Subscriptions!Underway
<1> QED
  BY <1>1 DEF NewsInv, OneContact
-----------------------------------------------------------------------------
(* Scheduler *)

USE DEF Hourly!At, Hourly!Goto

\* Nobody has begun the run of this replica and hour.
Fresh(r) == r[2] > hour \/ (r[2] = hour /\ r[1] \in due)

\* A run at work holds the lock, unless one outlived it.
LockHeld == ~outlived => \A r \in Hourly!RunId : run[r].at # "off" => lock = r

\* Runs that have published a task and not yet counted it.
Noting(t) == {r \in Hourly!RunId : run[r].at = "note" /\ run[r].task = t}

\* A task has been published once for each time it was counted, not to speak
\* of the runs about to count it.
Counted == \A t \in Task : schedule[t] # None =>
  schedule[t].count <= Cardinality(published[t] \ Noting(t))

\* What a run has published and what it has yet to publish.
PublishedOnce == \A r \in Hourly!RunId :
  /\ Fresh(r) => run[r].at = "off"
  /\ Fresh(r) \/ run[r].at = "find" => \A t \in Task : r \notin published[t]
  /\ run[r].at # "off" => \A t \in run[r].todo : schedule[t] # None /\ r \notin published[t]
  /\ run[r].at \in {"note", "fail"} => run[r].task \in Task /\ schedule[run[r].task] # None
  /\ run[r].at = "note" => r \in published[run[r].task]

HourInv == Hourly!TypeOK /\ LockHeld /\ Counted /\ PublishedOnce

LEMMA RunsFinite ==
  /\ IsFiniteSet(Hourly!RunId)
  /\ \A S \in SUBSET Hourly!RunId :
       /\ IsFiniteSet(S) /\ Cardinality(S) \in Nat
       /\ Cardinality(S) <= Hourly!Cardinality(Hourly!RunId)
  /\ Hourly!Cardinality(Hourly!RunId) \in Nat
  /\ \A S, T \in SUBSET Hourly!RunId : T \subseteq S => Cardinality(T) <= Cardinality(S)
  /\ \A S \in SUBSET Hourly!RunId : \A r \in S : Cardinality(S \ {r}) + 1 = Cardinality(S)
<1>1. IsFiniteSet(Replica) /\ MaxHour \in Nat
  BY HostedAssumption DEF Hourly!HourAssumption, Hourly!IsFiniteSet, IsFiniteSet
<1>2. IsFiniteSet(1 .. MaxHour)
  BY <1>1, FS_Interval
<1>3. IsFiniteSet(Hourly!RunId)
  BY <1>1, <1>2, FS_Product DEF Hourly!RunId
<1>4. Hourly!Cardinality(Hourly!RunId) = Cardinality(Hourly!RunId)
  BY DEF Hourly!Cardinality, Cardinality
<1>5. \A S \in SUBSET Hourly!RunId : IsFiniteSet(S) /\ Cardinality(S) \in Nat
  BY <1>3, FS_Subset, FS_CardinalityType
<1> QED
  BY <1>3, <1>4, <1>5, FS_Subset, FS_RemoveElement

\* What the types say of a run.
LEMMA RunTypes ==
  ASSUME Hourly!TypeOK, NEW r \in Hourly!RunId
  PROVE  /\ run[r].at # "off" => run[r] \in Hourly!Working /\ run[r].todo \subseteq Task
         /\ \A t \in Task : published[t] \subseteq Hourly!RunId
         /\ r[1] \in Replica /\ r[2] \in 1 .. MaxHour /\ r = <<r[1], r[2]>>
         /\ hour \in Nat
BY DEF Hourly!TypeOK, Hourly!Working, Hourly!Off, Hourly!RunId

LEMMA HourInvInit == Hourly!Init => HourInv
<1> SUFFICES ASSUME Hourly!Init PROVE HourInv
  OBVIOUS
<1>1. Hourly!TypeOK
  <2>1. hour \in 1 .. MaxHour
    BY HostedAssumption DEF Hourly!Init, Hourly!HourAssumption
  <2> QED
    BY <2>1 DEF Hourly!TypeOK, Hourly!Init
<1>2. LockHeld /\ Counted /\ PublishedOnce
  BY DEF LockHeld, Counted, PublishedOnce, Hourly!Init, Hourly!Off
<1> QED
  BY <1>1, <1>2 DEF HourInv

\* A row whose count is backed is a row.
LEMMA RowTypes ==
  ASSUME NEW x \in {"none", "SUCCESS", "FAILED"}, NEW n \in Nat,
         NEW S \in SUBSET Hourly!RunId, n <= Cardinality(S)
  PROVE  /\ [status |-> x, count |-> n] \in Hourly!Row
         /\ [status |-> x, count |-> n] # None
<1>1. Cardinality(S) \in Nat /\ Cardinality(S) <= Hourly!Cardinality(Hourly!RunId)
  BY RunsFinite
<1>2. n \in 0 .. Hourly!Cardinality(Hourly!RunId)
  BY <1>1, RunsFinite
<1>3. [status |-> x, count |-> n] \in Hourly!Row
  BY <1>2 DEF Hourly!Row
<1> QED
  BY <1>3, HostedAssumption DEF Hourly!HourAssumption

LEMMA CreateTaskKeeps ==
  ASSUME HourInv, NEW t \in Task, Hourly!Create(t)
  PROVE  HourInv'
<1> DEFINE blank == [status |-> "none", count |-> 0]
<1>1. /\ schedule[t] = None /\ schedule' = [schedule EXCEPT ![t] = blank]
      /\ UNCHANGED <<hour, due, run, lock, published, outlived>>
  BY DEF Hourly!Create
<1>2. blank \in Hourly!Row /\ blank # None /\ blank.count = 0
  BY RunsFinite, RowTypes
<1> HIDE DEF blank
<1>3. /\ schedule' \in [Task -> Hourly!Row \cup {None}] /\ schedule'[t] = blank
      /\ \A o \in Task \ {t} : schedule'[o] = schedule[o]
  BY <1>1, <1>2 DEF HourInv, Hourly!TypeOK
<1>4. Hourly!TypeOK'
  BY <1>1, <1>3 DEF HourInv, Hourly!TypeOK
<1>5. \A o \in Task : published[o] \subseteq Hourly!RunId
  BY DEF HourInv, Hourly!TypeOK
<1>6. Counted'
  <2>1. \A o \in Task : Cardinality(published[o] \ Noting(o)) \in Nat
    BY <1>5, RunsFinite
  <2> QED
    BY <1>1, <1>2, <1>3, <2>1 DEF HourInv, Counted, Noting
<1>7. PublishedOnce' /\ LockHeld'
  <2>1. \A o \in Task : schedule[o] # None => schedule'[o] # None
    BY <1>2, <1>3
  <2>2. \A r \in Hourly!RunId : run[r].at # "off" => run[r].todo \subseteq Task
    BY RunTypes DEF HourInv
  <2> QED
    BY <1>1, <2>1, <2>2 DEF HourInv, PublishedOnce, LockHeld, Fresh
<1> QED
  BY <1>4, <1>6, <1>7 DEF HourInv

LEMMA WakeKeeps ==
  ASSUME HourInv, NEW x \in Replica, Hourly!Wake(x)
  PROVE  HourInv'
<1> DEFINE r == <<x, hour>>
<1>1. /\ x \in due /\ due' = due \ {x} /\ UNCHANGED <<hour, schedule, published, outlived>>
      /\ \/ lock = None /\ lock' = r /\ run' = [run EXCEPT ![r] = Hourly!Begin]
         \/ UNCHANGED <<lock, run>>
         \/ lock = None /\ lock' = r /\ UNCHANGED run
  BY DEF Hourly!Wake, Hourly!MaySet
<1>2. /\ r \in Hourly!RunId /\ Fresh(r)
      /\ \A q \in Hourly!RunId : Fresh(q)' => Fresh(q) /\ q # r
  BY <1>1 DEF HourInv, Hourly!TypeOK, Hourly!RunId, Fresh
<1>3. /\ run[r].at = "off" /\ \A t \in Task : r \notin published[t]
      /\ r # None
  BY <1>2, HostedAssumption DEF HourInv, PublishedOnce, Hourly!HourAssumption, Hourly!RunId
<1> HIDE DEF r
<1>4. Hourly!Begin \in Hourly!Working /\ Hourly!Begin.at = "find" /\ Hourly!Begin.todo = {}
  BY DEF Hourly!Begin, Hourly!Working
<1>5. CASE UNCHANGED run
  <2>1. Hourly!TypeOK'
    BY <1>1, <1>2, <1>5 DEF HourInv, Hourly!TypeOK
  <2>2. LockHeld'
    BY <1>1, <1>5, <1>2, HostedAssumption
       DEF HourInv, LockHeld, Hourly!HourAssumption, Hourly!RunId
  <2>3. Counted'
    BY <1>1, <1>5 DEF HourInv, Counted, Noting
  <2>4. PublishedOnce'
    BY <1>1, <1>2, <1>5 DEF HourInv, PublishedOnce
  <2> QED
    BY <2>1, <2>2, <2>3, <2>4 DEF HourInv
<1>6. CASE lock = None /\ lock' = r /\ run' = [run EXCEPT ![r] = Hourly!Begin]
  <2>0. /\ run' \in [Hourly!RunId -> Hourly!Working \cup {Hourly!Off}]
        /\ run'[r] = Hourly!Begin /\ \A q \in Hourly!RunId \ {r} : run'[q] = run[q]
    BY <1>2, <1>4, <1>6 DEF HourInv, Hourly!TypeOK
  <2>1. Hourly!TypeOK'
    BY <1>1, <1>2, <1>6, <2>0 DEF HourInv, Hourly!TypeOK
  <2>2. LockHeld'
    <3>1. ~outlived => \A q \in Hourly!RunId : run[q].at = "off"
      BY <1>6, HostedAssumption DEF HourInv, LockHeld, Hourly!HourAssumption, Hourly!RunId
    <3> QED
      BY <1>1, <1>6, <2>0, <3>1 DEF LockHeld
  <2>3. Counted'
    <3>1. \A t \in Task : Noting(t)' = Noting(t)
      BY <1>2, <1>3, <1>4, <2>0 DEF Noting
    <3> QED
      BY <1>1, <3>1 DEF HourInv, Counted
  <2>4. PublishedOnce'
    BY <1>1, <1>2, <1>3, <1>4, <2>0 DEF HourInv, PublishedOnce
  <2> QED
    BY <2>1, <2>2, <2>3, <2>4 DEF HourInv
<1> QED
  BY <1>1, <1>5, <1>6

\* A run that goes on, or ends, and publishes and counts nothing.
LEMMA GoOnKeeps ==
  ASSUME HourInv, NEW r \in Hourly!RunId, run[r].at # "off",
         UNCHANGED <<hour, due, lock, schedule, published, outlived>>,
         NEW new \in Hourly!Working, new.at \in {"next", "release"},
         run' = [run EXCEPT ![r] = new],
         run[r].at # "note",
         \A t \in new.todo : schedule[t] # None /\ r \notin published[t]
  PROVE  HourInv'
<1>0. /\ run' \in [Hourly!RunId -> Hourly!Working \cup {Hourly!Off}]
      /\ run'[r] = new /\ \A q \in Hourly!RunId \ {r} : run'[q] = run[q]
  BY DEF HourInv, Hourly!TypeOK
<1>1. Hourly!TypeOK'
  BY <1>0 DEF HourInv, Hourly!TypeOK
<1>2. LockHeld'
  BY <1>0 DEF HourInv, LockHeld
<1>3. Counted'
  <2>1. \A t \in Task : Noting(t)' = Noting(t)
    BY <1>0 DEF Noting
  <2> QED
    BY <2>1 DEF HourInv, Counted
<1>4. PublishedOnce'
  BY <1>0 DEF HourInv, PublishedOnce, Fresh
<1> QED
  BY <1>1, <1>2, <1>3, <1>4 DEF HourInv

LEMMA FindTasksKeeps ==
  ASSUME HourInv, NEW r \in Hourly!RunId, Hourly!FindTasks(r)
  PROVE  HourInv'
<1>1. /\ run[r].at = "find" /\ UNCHANGED <<hour, due, lock, schedule, published, outlived>>
      /\ run[r] \in Hourly!Working /\ \A t \in Task : r \notin published[t]
  BY RunTypes DEF Hourly!FindTasks, HourInv, PublishedOnce
<1>2. CASE run' = [run EXCEPT ![r].at = "next",
                              ![r].todo = {t \in Task : schedule[t] # None}]
  <2> DEFINE new == [run[r] EXCEPT !.at = "next", !.todo = {t \in Task : schedule[t] # None}]
  <2>1. new \in Hourly!Working /\ new.at = "next" /\ new.todo = {t \in Task : schedule[t] # None}
    BY <1>1 DEF Hourly!Working
  <2>2. run' = [run EXCEPT ![r] = new]
    BY <1>2
  <2> HIDE DEF new
  <2> QED
    BY <1>1, <2>1, <2>2, GoOnKeeps
<1>3. CASE run' = [run EXCEPT ![r].at = "release"]
  <2> DEFINE new == [run[r] EXCEPT !.at = "release"]
  <2>1. new \in Hourly!Working /\ new.at = "release" /\ new.todo = run[r].todo
    BY <1>1 DEF Hourly!Working
  <2>2. run' = [run EXCEPT ![r] = new]
    BY <1>3
  <2>3. \A t \in run[r].todo : schedule[t] # None /\ r \notin published[t]
    BY <1>1 DEF HourInv, PublishedOnce
  <2> HIDE DEF new
  <2> QED
    BY <1>1, <2>1, <2>2, <2>3, GoOnKeeps
<1> QED
  BY <1>2, <1>3 DEF Hourly!FindTasks

LEMMA PublishKeeps ==
  ASSUME HourInv, NEW r \in Hourly!RunId, NEW t \in Task, Hourly!Publish(r, t)
  PROVE  HourInv'
<1> DEFINE new == [at |-> "note", todo |-> run[r].todo \ {t}, task |-> t]
<1>1. /\ run[r].at = "next" /\ t \in run[r].todo
      /\ published' = [published EXCEPT ![t] = @ \cup {r}]
      /\ run' = [run EXCEPT ![r] = new]
      /\ UNCHANGED <<hour, due, lock, schedule, outlived>>
  BY DEF Hourly!Publish
<1>2. /\ run[r] \in Hourly!Working /\ run[r].todo \subseteq Task
      /\ schedule[t] # None /\ r \notin published[t]
      /\ \A o \in run[r].todo : schedule[o] # None /\ r \notin published[o]
      /\ ~Fresh(r)
  BY <1>1, RunTypes DEF HourInv, PublishedOnce
<1>3. /\ new \in Hourly!Working /\ new.at = "note" /\ new.todo = run[r].todo \ {t}
      /\ new.task = t
  BY <1>2 DEF Hourly!Working
<1> HIDE DEF new
<1>4. /\ run' \in [Hourly!RunId -> Hourly!Working \cup {Hourly!Off}]
      /\ run'[r] = new /\ \A q \in Hourly!RunId \ {r} : run'[q] = run[q]
  BY <1>1, <1>3 DEF HourInv, Hourly!TypeOK
<1>5. /\ published' \in [Task -> SUBSET Hourly!RunId]
      /\ published'[t] = published[t] \cup {r}
      /\ \A o \in Task \ {t} : published'[o] = published[o]
  BY <1>1 DEF HourInv, Hourly!TypeOK
<1>6. Hourly!TypeOK' /\ LockHeld'
  BY <1>1, <1>3, <1>4, <1>5 DEF HourInv, Hourly!TypeOK, LockHeld
<1>7. Counted'
  <2>1. Noting(t)' = Noting(t) \cup {r} /\ r \notin Noting(t)
    BY <1>1, <1>3, <1>4 DEF Noting
  <2>2. \A o \in Task \ {t} : Noting(o)' = Noting(o)
    BY <1>1, <1>3, <1>4 DEF Noting
  <2>3. \A o \in Task : published'[o] \ Noting(o)' = published[o] \ Noting(o)
    BY <1>2, <1>5, <2>1, <2>2
  <2> QED
    BY <1>1, <2>3 DEF HourInv, Counted
<1>8. PublishedOnce'
  <2> SUFFICES ASSUME NEW q \in Hourly!RunId
               PROVE  /\ Fresh(q) => run'[q].at = "off"
                      /\ Fresh(q) \/ run'[q].at = "find" => \A o \in Task : q \notin published'[o]
                      /\ run'[q].at # "off" =>
                           \A o \in run'[q].todo : schedule[o] # None /\ q \notin published'[o]
                      /\ run'[q].at \in {"note", "fail"} =>
                           run'[q].task \in Task /\ schedule[run'[q].task] # None
                      /\ run'[q].at = "note" => q \in published'[run'[q].task]
    BY <1>1 DEF PublishedOnce, Fresh
  <2>1. CASE q = r
    BY <1>2, <1>3, <1>4, <1>5, <2>1
  <2>2. CASE q # r
    <3>1. run[q].at # "off" => run[q].todo \subseteq Task
      BY RunTypes DEF HourInv
    <3> QED
      BY <1>4, <1>5, <2>2, <3>1 DEF HourInv, PublishedOnce
  <2> QED
    BY <2>1, <2>2
<1> QED
  BY <1>6, <1>7, <1>8 DEF HourInv

\* One more SUCCESS of a task.
LEMMA RowCounts ==
  ASSUME NEW rows, NEW t \in Task, rows \in [Task -> Hourly!Row \cup {None}],
         rows[t] \in Hourly!Row
  PROVE  /\ [rows EXCEPT ![t].status = "SUCCESS", ![t].count = @ + 1] =
            [rows EXCEPT ![t] = [status |-> "SUCCESS", count |-> rows[t].count + 1]]
         /\ rows[t].count \in Nat
<1> DEFINE once == [rows[t] EXCEPT !.status = "SUCCESS"]
           first == [rows EXCEPT ![t] = once]
<1>1. once = [status |-> "SUCCESS", count |-> rows[t].count]
  BY DEF Hourly!Row
<1>2. [once EXCEPT !.count = @ + 1] = [status |-> "SUCCESS", count |-> rows[t].count + 1]
  <2> HIDE DEF once
  <2> QED
    BY <1>1
<1>3. first[t] = once
  OBVIOUS
<1>4. [first EXCEPT ![t] = [once EXCEPT !.count = @ + 1]] =
      [rows EXCEPT ![t] = [once EXCEPT !.count = @ + 1]]
  OBVIOUS
<1> QED
  BY <1>2, <1>3, <1>4, RunsFinite DEF Hourly!Row

LEMMA NoteRunKeeps ==
  ASSUME HourInv, NEW r \in Hourly!RunId, Hourly!NoteRun(r)
  PROVE  HourInv'
<1>0. PICK t \in Task : t = run[r].task
  BY DEF Hourly!NoteRun, HourInv, PublishedOnce
<1> DEFINE new == [status |-> "SUCCESS", count |-> schedule[t].count + 1]
<1>1. /\ run[r].at = "note" /\ UNCHANGED <<hour, due, lock, published, outlived>>
      /\ run[r] \in Hourly!Working /\ ~Fresh(r)
      /\ schedule[t] # None /\ r \in published[t] /\ published[t] \subseteq Hourly!RunId
      /\ \A o \in run[r].todo : schedule[o] # None /\ r \notin published[o]
  BY <1>0, RunTypes DEF Hourly!NoteRun, HourInv, PublishedOnce
<1>2. schedule[t] \in Hourly!Row
  BY <1>1 DEF HourInv, Hourly!TypeOK
<1>3. PICK place \in {"next", "fail"} :
        /\ run' = [run EXCEPT ![r].at = place]
        /\ place = "next" => schedule' = [schedule EXCEPT ![t] = new]
        /\ place = "fail" => UNCHANGED schedule
  <2>1. [schedule EXCEPT ![t].status = "SUCCESS", ![t].count = @ + 1] =
        [schedule EXCEPT ![t] = new]
    BY <1>2, RowCounts DEF HourInv, Hourly!TypeOK
  <2> HIDE DEF new
  <2> QED
    BY <1>0, <2>1 DEF Hourly!NoteRun
<1>4. /\ run' \in [Hourly!RunId -> Hourly!Working \cup {Hourly!Off}]
      /\ run'[r].at = place /\ run'[r].todo = run[r].todo /\ run'[r].task = t
      /\ \A q \in Hourly!RunId \ {r} : run'[q] = run[q]
  BY <1>0, <1>1, <1>3 DEF HourInv, Hourly!TypeOK, Hourly!Working
<1>5. /\ schedule[t].count \in Nat /\ Cardinality(published[t] \ Noting(t)) \in Nat
      /\ schedule[t].count <= Cardinality(published[t] \ Noting(t))
  <2>1. published[t] \ Noting(t) \in SUBSET Hourly!RunId
    BY <1>1
  <2> QED
    BY <1>1, <1>2, <2>1, RunsFinite DEF HourInv, Counted, Hourly!Row
<1>6. /\ Noting(t)' = Noting(t) \ {r} /\ r \in Noting(t)
      /\ \A o \in Task \ {t} : Noting(o)' = Noting(o)
  BY <1>0, <1>1, <1>4 DEF Noting
<1>7. /\ published[t] \ Noting(t)' \in SUBSET Hourly!RunId
      /\ Cardinality(published[t] \ Noting(t)') = Cardinality(published[t] \ Noting(t)) + 1
  <2> DEFINE S == published[t] \ Noting(t)'
  <2>1. r \in S /\ S \ {r} = published[t] \ Noting(t) /\ S \in SUBSET Hourly!RunId
    BY <1>1, <1>6
  <2> HIDE DEF S
  <2>2. Cardinality(S \ {r}) + 1 = Cardinality(S)
    BY <2>1, RunsFinite
  <2> QED
    BY <2>1, <2>2 DEF S
<1>8. schedule[t].count + 1 <= Cardinality(published[t] \ Noting(t)')
  BY <1>5, <1>7
<1>9. \A q \in Hourly!RunId : run[q].at # "off" => run[q].todo \subseteq Task
  BY RunTypes DEF HourInv
<1>10. CASE place = "next"
  <2>1. new \in Hourly!Row /\ new # None
    BY <1>5, <1>7, <1>8, RowTypes
  <2>2. new.count = schedule[t].count + 1
    OBVIOUS
  <2> HIDE DEF new
  <2>3. /\ schedule' \in [Task -> Hourly!Row \cup {None}] /\ schedule'[t] = new
        /\ \A o \in Task \ {t} : schedule'[o] = schedule[o]
    BY <1>3, <1>10, <2>1 DEF HourInv, Hourly!TypeOK
  <2>4. Hourly!TypeOK' /\ LockHeld'
    BY <1>1, <1>4, <2>3 DEF HourInv, Hourly!TypeOK, LockHeld
  <2>5. Counted'
    BY <1>1, <1>6, <1>8, <2>2, <2>3 DEF HourInv, Counted
  <2>6. \A o \in Task : schedule[o] # None => schedule'[o] # None
    BY <2>1, <2>3
  <2>7. PublishedOnce'
    BY <1>1, <1>4, <1>9, <1>10, <2>6 DEF HourInv, PublishedOnce, Fresh
  <2> QED
    BY <2>4, <2>5, <2>7 DEF HourInv
<1>11. CASE place = "fail"
  <2>1. Hourly!TypeOK' /\ LockHeld'
    BY <1>1, <1>3, <1>4, <1>11 DEF HourInv, Hourly!TypeOK, LockHeld
  <2>2. Counted'
    <3>1. schedule[t].count <= Cardinality(published[t] \ Noting(t)')
      BY <1>5, <1>8, <1>7
    <3> QED
      BY <1>1, <1>3, <1>6, <1>11, <3>1 DEF HourInv, Counted
  <2>3. PublishedOnce'
    BY <1>0, <1>1, <1>3, <1>4, <1>11 DEF HourInv, PublishedOnce, Fresh
  <2> QED
    BY <2>1, <2>2, <2>3 DEF HourInv
<1> QED
  BY <1>10, <1>11

LEMMA NoteFailureKeeps ==
  ASSUME HourInv, NEW r \in Hourly!RunId, Hourly!NoteFailure(r)
  PROVE  HourInv'
<1> DEFINE t == run[r].task
<1>1. /\ run[r].at = "fail" /\ UNCHANGED <<hour, due, lock, published, outlived>>
      /\ run[r] \in Hourly!Working /\ ~Fresh(r)
      /\ t \in Task /\ schedule[t] # None
      /\ \A o \in run[r].todo : schedule[o] # None /\ r \notin published[o]
  BY RunTypes DEF Hourly!NoteFailure, HourInv, PublishedOnce
<1>2. PICK place \in {"next", "release"} :
        /\ run' = [run EXCEPT ![r].at = place]
        /\ \/ schedule' = [schedule EXCEPT ![t].status = "FAILED"]
           \/ UNCHANGED schedule
  BY <1>1 DEF Hourly!NoteFailure
<1>3. /\ run' \in [Hourly!RunId -> Hourly!Working \cup {Hourly!Off}]
      /\ run'[r].at = place /\ run'[r].todo = run[r].todo /\ run'[r].task = t
      /\ \A q \in Hourly!RunId \ {r} : run'[q] = run[q]
  BY <1>1, <1>2 DEF HourInv, Hourly!TypeOK, Hourly!Working
<1>4. \A o \in Task : Noting(o)' = Noting(o)
  BY <1>1, <1>3 DEF Noting
<1>5. /\ schedule' \in [Task -> Hourly!Row \cup {None}]
      /\ \A o \in Task : /\ schedule[o] # None <=> schedule'[o] # None
                         /\ schedule[o] # None => schedule'[o].count = schedule[o].count
  <2> DEFINE new == [schedule[t] EXCEPT !.status = "FAILED"]
  <2>1. schedule[t] \in Hourly!Row
    BY <1>1 DEF HourInv, Hourly!TypeOK
  <2>2. new \in Hourly!Row /\ new.count = schedule[t].count /\ schedule[t].count \in Nat
    BY <2>1, RunsFinite DEF Hourly!Row
  <2>3. new \in [status : {"none", "SUCCESS", "FAILED"}, count : Nat]
    BY <2>1, RunsFinite DEF Hourly!Row
  <2>4. new # None
    BY <2>3, HostedAssumption DEF Hourly!HourAssumption
  <2>5. schedule' = [schedule EXCEPT ![t] = new] \/ UNCHANGED schedule
    BY <1>2
  <2> HIDE DEF new
  <2> QED
    BY <1>1, <2>2, <2>4, <2>5 DEF HourInv, Hourly!TypeOK
<1>6. Hourly!TypeOK' /\ LockHeld'
  BY <1>1, <1>3, <1>5 DEF HourInv, Hourly!TypeOK, LockHeld
<1>7. Counted'
  BY <1>1, <1>4, <1>5 DEF HourInv, Counted
<1>8. PublishedOnce'
  <2>1. \A q \in Hourly!RunId : run[q].at # "off" => run[q].todo \subseteq Task
    BY RunTypes DEF HourInv
  <2> QED
    BY <1>1, <1>3, <1>5, <2>1 DEF HourInv, PublishedOnce, Fresh
<1> QED
  BY <1>6, <1>7, <1>8 DEF HourInv

\* Runs end, and the lock goes or stays.
LEMMA RunsEndKeeps ==
  ASSUME HourInv, UNCHANGED <<hour, schedule, published>>,
         due' \subseteq due, lock' \in {lock, None},
         NEW E \in SUBSET Hourly!RunId,
         run' = [r \in Hourly!RunId |-> IF r \in E THEN Hourly!Off ELSE run[r]],
         outlived' = (outlived /\ \E r \in Hourly!RunId : run'[r].at # "off"),
         \A r \in Hourly!RunId : lock' = lock \/ run'[r].at = "off" \/ outlived
  PROVE  HourInv'
<1>1. /\ run' \in [Hourly!RunId -> Hourly!Working \cup {Hourly!Off}]
      /\ \A r \in Hourly!RunId : run'[r].at # "off" => run'[r] = run[r]
  BY DEF HourInv, Hourly!TypeOK, Hourly!Off
<1>2. Hourly!TypeOK'
  BY <1>1 DEF HourInv, Hourly!TypeOK
<1>3. LockHeld'
  BY <1>1 DEF HourInv, LockHeld
<1>4. Counted'
  <2> SUFFICES ASSUME NEW t \in Task, schedule[t] # None
               PROVE  schedule[t].count <= Cardinality(published[t] \ Noting(t)')
    BY DEF Counted
  <2>1. Noting(t)' \subseteq Noting(t)
    BY <1>1 DEF Noting
  <2>2. /\ published[t] \ Noting(t) \in SUBSET Hourly!RunId
        /\ published[t] \ Noting(t)' \in SUBSET Hourly!RunId
        /\ published[t] \ Noting(t) \subseteq published[t] \ Noting(t)'
    BY <2>1 DEF HourInv, Hourly!TypeOK
  <2>3. /\ Cardinality(published[t] \ Noting(t)) \in Nat
        /\ Cardinality(published[t] \ Noting(t)') \in Nat
        /\ Cardinality(published[t] \ Noting(t)) <= Cardinality(published[t] \ Noting(t)')
    BY <2>2, RunsFinite
  <2>4. schedule[t].count <= Cardinality(published[t] \ Noting(t))
    BY DEF HourInv, Counted
  <2>5. schedule[t].count \in Nat
    BY RunsFinite DEF HourInv, Hourly!TypeOK, Hourly!Row
  <2> QED
    BY <2>3, <2>4, <2>5
<1>5. PublishedOnce'
  <2>1. \A r \in Hourly!RunId : Fresh(r)' => Fresh(r)
    BY DEF Fresh
  <2>2. \A r \in Hourly!RunId : Fresh(r)' => run'[r].at = "off"
    BY <1>1, <2>1 DEF HourInv, PublishedOnce
  <2> QED
    BY <1>1, <2>1, <2>2 DEF HourInv, PublishedOnce
<1> QED
  BY <1>2, <1>3, <1>4, <1>5 DEF HourInv

LEMMA HourInvStep ==
  ASSUME HourInv, [Hourly!Next]_(Hourly!scheduleVars)
  PROVE  HourInv'
<1>1. ASSUME NEW r \in Hourly!RunId, Hourly!Release(r) PROVE HourInv'
  <2>1. /\ UNCHANGED <<due, hour, schedule, published>> /\ lock' \in {lock, None}
        /\ run[r].at # "off" /\ Hourly!Stays
        /\ run' = [q \in Hourly!RunId |-> IF q \in {r} THEN Hourly!Off ELSE run[q]]
    BY <1>1 DEF Hourly!Release, HourInv, Hourly!TypeOK
  <2>2. \A q \in Hourly!RunId : run'[q].at = "off" \/ outlived \/ lock' = lock
    BY <2>1 DEF HourInv, LockHeld, Hourly!Off
  <2> QED
    BY <2>1, <2>2, RunsEndKeeps DEF Hourly!Stays
<1>2. ASSUME NEW x \in Replica, Hourly!Crash(x) PROVE HourInv'
  <2> DEFINE E == {r \in Hourly!RunId : r[1] = x}
  <2>1. /\ UNCHANGED <<lock, hour, schedule, published>> /\ due' \subseteq due /\ Hourly!Stays
        /\ run' = [q \in Hourly!RunId |-> IF q \in E THEN Hourly!Off ELSE run[q]]
    BY <1>2 DEF Hourly!Crash
  <2> QED
    BY <2>1, RunsEndKeeps DEF Hourly!Stays
<1>3. CASE Hourly!Lapse
  <2>1. /\ UNCHANGED <<hour, due, run, schedule, published>> /\ lock' = None
        /\ outlived' = (outlived \/ lock \in Hourly!AtWork)
    BY <1>3 DEF Hourly!Lapse, Hourly!Outlives
  <2>2. Hourly!TypeOK'
    BY <2>1 DEF HourInv, Hourly!TypeOK
  <2>3. LockHeld'
    BY <2>1 DEF HourInv, LockHeld, Hourly!AtWork
  <2>4. Counted' /\ PublishedOnce'
    BY <2>1 DEF HourInv, Counted, PublishedOnce, Noting, Fresh
  <2> QED
    BY <2>2, <2>3, <2>4 DEF HourInv
<1>4. CASE Hourly!Strike
  <2>1. /\ UNCHANGED <<run, lock, schedule, published, outlived>> /\ due' = Replica
        /\ hour < MaxHour /\ hour' = hour + 1
    BY <1>4 DEF Hourly!Strike
  <2>2. Hourly!TypeOK'
    BY <2>1, HostedAssumption DEF HourInv, Hourly!TypeOK, Hourly!HourAssumption
  <2>3. LockHeld' /\ Counted'
    BY <2>1 DEF HourInv, LockHeld, Counted, Noting
  <2>4. \A r \in Hourly!RunId : Fresh(r)' => Fresh(r)
    BY <2>1, RunTypes DEF HourInv, Fresh
  <2>5. PublishedOnce'
    BY <2>1, <2>4 DEF HourInv, PublishedOnce
  <2> QED
    BY <2>2, <2>3, <2>5 DEF HourInv
<1>5. CASE UNCHANGED Hourly!scheduleVars
  BY <1>5
     DEF Hourly!scheduleVars, HourInv, Hourly!TypeOK, LockHeld, Counted, Noting,
         PublishedOnce, Fresh
<1> QED
  BY <1>1, <1>2, <1>3, <1>4, <1>5, CreateTaskKeeps, WakeKeeps, FindTasksKeeps, PublishKeeps,
     NoteRunKeeps, NoteFailureKeeps
     DEF Hourly!Next

\* Runs hold the lock, and no task is counted more often than published.
LEMMA HourApart == HourInv => Hourly!RunsApart
<1> SUFFICES ASSUME HourInv, NEW t \in Task, schedule[t] # None
             PROVE  schedule[t].count <= Hourly!Cardinality(published[t])
  BY DEF HourInv, LockHeld, Hourly!RunsApart, Hourly!AtWork
<1>1. Hourly!Cardinality(published[t]) = Cardinality(published[t])
  BY DEF Hourly!Cardinality, Cardinality
<1>2. /\ published[t] \in SUBSET Hourly!RunId
      /\ published[t] \ Noting(t) \in SUBSET Hourly!RunId
  BY DEF HourInv, Hourly!TypeOK
<1>3. /\ Cardinality(published[t] \ Noting(t)) <= Cardinality(published[t])
      /\ Cardinality(published[t] \ Noting(t)) \in Nat /\ Cardinality(published[t]) \in Nat
  BY <1>2, RunsFinite
<1>4. schedule[t].count \in Nat
  BY RunsFinite DEF HourInv, Hourly!TypeOK, Hourly!Row
<1> QED
  BY <1>1, <1>3, <1>4 DEF HourInv, Counted

-----------------------------------------------------------------------------
(* FirebaseProjects *)

USE DEF Projects!At

\* An app is of a project that has a row.
AppsOfRows == \A p \in Projects!Project : project[p] = None => appCache[p] = None

\* What requests under way have read stays true of the settled projects, and
\* none of these is having its credentials changed.
JobsSound == \A k \in Call :
  /\ admin[k].at = "store" => project[admin[k].id] # None
  /\ admin[k].at = "load" =>
       /\ admin[k].rows \in Projects!Rows
       /\ \A p \in Projects!Project : admin[k].rows[p] # None =>
            /\ project[p] # None
            /\ p \in settled => admin[k].rows[p].credentials = project[p].credentials
  /\ admin[k].at # "idle" /\ admin[k].credentials # None => admin[k].id \notin settled

\* The app of the project whose credentials a request changes alone is gone,
\* or made of those.
AloneSound == \A k \in alone :
  /\ \A j \in Call \ {k} : admin[j].at = "idle"
  /\ admin[k].at = "store" /\ admin[k].credentials # None => appCache[admin[k].id] = None
  /\ admin[k].at \in {"read", "load"} /\ admin[k].credentials # None =>
       appCache[admin[k].id] \in {None, project[admin[k].id].credentials}
  /\ admin[k].at = "load" => admin[k].rows = project

SettledApps ==
  \A p \in settled : appCache[p] # None => appCache[p] = project[p].credentials

ProjectInv ==
  Projects!TypeOK /\ AppsOfRows /\ JobsSound /\ AloneSound /\ SettledApps

LEMMA SentTypes ==
  /\ None \notin Projects!Sent /\ None \notin Projects!Row
  /\ \A p \in Projects!Project : Credentials[p] \subseteq Projects!Sent
  /\ \A c \in Projects!Sent, on \in BOOLEAN :
       LET r == [credentials |-> c, isActive |-> on]
       IN  r \in Projects!Row /\ r # None /\ r.credentials = c /\ r.isActive = on
<1>1. None \notin Projects!Sent /\ None \notin Projects!Row
  BY HostedAssumption
     DEF Projects!FirebaseAssumption, Projects!Sent, Projects!Project, Projects!Row
<1>2. \A p \in Projects!Project : Credentials[p] \subseteq Projects!Sent
  BY DEF Projects!Sent
<1> QED
  BY <1>1, <1>2 DEF Projects!Row

LEMMA ProjectInvInit == Projects!Init => ProjectInv
<1> SUFFICES ASSUME Projects!Init PROVE ProjectInv
  OBVIOUS
<1>1. Projects!TypeOK
  <2>1. project \in Projects!Rows
    BY DEF Projects!Init, Projects!Rows, Projects!Row
  <2>2. \A p \in Projects!Project : project[p] # None => project[p].credentials \in Projects!Sent
    BY <2>1 DEF Projects!Rows, Projects!Row
  <2> QED
    BY <2>1, <2>2 DEF Projects!Init, Projects!TypeOK
<1>2. AppsOfRows /\ JobsSound /\ AloneSound /\ SettledApps
  BY DEF AppsOfRows, JobsSound, AloneSound, SettledApps, Projects!Init, Projects!Idle
<1> QED
  BY <1>1, <1>2 DEF ProjectInv

LEMMA JobTypes ==
  ASSUME ProjectInv, NEW k \in Call, admin[k].at # "idle"
  PROVE  /\ admin[k] \in Projects!Job
         /\ admin[k].id \in Projects!Project
         /\ admin[k].credentials \in Projects!Sent \cup {None}
         /\ admin[k].at \in {"store", "clear", "read", "load"}
BY DEF ProjectInv, Projects!TypeOK, Projects!Idle, Projects!Job

\* A request that begins, about p.
LEMMA BeginKeeps ==
  ASSUME ProjectInv, NEW k \in Call, NEW p \in Projects!Project,
         NEW c \in Projects!Sent \cup {None}, NEW place \in {"store", "clear", "read"},
         Projects!Begin(k, p, c, place),
         project' \in Projects!Rows,
         \A q \in Projects!Project \ {p} : project'[q] = project[q],
         \/ project'[p] = project[p]
         \/ /\ project'[p] # None
            /\ c = None => project[p] # None /\ project'[p].credentials = project[p].credentials,
         appCache' = appCache \/ appCache' = [appCache EXCEPT ![p] = None],
         place = "store" => project[p] # None /\ (c # None => appCache'[p] = None),
         place = "read" => appCache'[p] = None
  PROVE  ProjectInv'
<1> DEFINE job == [at |-> place, id |-> p, reloads |-> c # None \/ place = "store",
                   credentials |-> c, rows |-> None]
<1>1. /\ admin[k].at = "idle" /\ admin' = [admin EXCEPT ![k] = job]
      /\ alone' = IF \E o \in Call : admin[o].at # "idle" THEN {} ELSE {k}
      /\ settled' = IF c = None THEN settled ELSE settled \ {p}
  BY DEF Projects!Begin
<1>2. /\ job \in Projects!Job /\ job.at = place /\ job.id = p /\ job.credentials = c
  BY DEF Projects!Job
<1> HIDE DEF job
<1>3. /\ admin' \in [Call -> Projects!Job \cup {Projects!Idle}]
      /\ admin'[k] = job /\ \A j \in Call \ {k} : admin'[j] = admin[j]
  BY <1>1, <1>2 DEF ProjectInv, Projects!TypeOK
<1>4. /\ appCache' \in [Projects!Project -> Projects!Sent \cup {None}]
      /\ \A q \in Projects!Project : appCache'[q] = appCache[q] \/ appCache'[q] = None
      /\ \A q \in Projects!Project : project[q] # None => project'[q] # None
  BY DEF ProjectInv, Projects!TypeOK
<1>5. \A q \in settled' : q \in settled /\ q \in Projects!Project
        /\ (project[q] # None => project'[q].credentials = project[q].credentials)
  BY <1>1 DEF ProjectInv, Projects!TypeOK
<1>6. Projects!TypeOK'
  BY <1>1, <1>3, <1>4 DEF ProjectInv, Projects!TypeOK
<1>7. AppsOfRows'
  BY <1>4 DEF ProjectInv, AppsOfRows
<1>8. JobsSound'
  <2> SUFFICES ASSUME NEW j \in Call
               PROVE  /\ admin'[j].at = "store" => project'[admin'[j].id] # None
                      /\ admin'[j].at = "load" =>
                           /\ admin'[j].rows \in Projects!Rows
                           /\ \A q \in Projects!Project : admin'[j].rows[q] # None =>
                                /\ project'[q] # None
                                /\ q \in settled' =>
                                     admin'[j].rows[q].credentials = project'[q].credentials
                      /\ admin'[j].at # "idle" /\ admin'[j].credentials # None =>
                           admin'[j].id \notin settled'
    BY DEF JobsSound
  <2>1. CASE j = k
    BY <1>1, <1>2, <1>3, <1>4, <2>1
  <2>2. CASE j # k
    BY <1>3, <1>4, <1>5, <2>2, JobTypes DEF ProjectInv, JobsSound
  <2> QED
    BY <2>1, <2>2
<1>9. AloneSound'
  BY <1>1, <1>2, <1>3 DEF AloneSound
<1>10. SettledApps'
  BY <1>4, <1>5 DEF ProjectInv, SettledApps, AppsOfRows
<1> QED
  BY <1>6, <1>7, <1>8, <1>9, <1>10 DEF ProjectInv

LEMMA ProjectBegins ==
  ASSUME ProjectInv, NEW k \in Call, NEW p \in Projects!Project
  PROVE  /\ \A c \in Credentials[p] : Projects!CreateProject(k, p, c) => ProjectInv'
         /\ \A c \in Credentials[p] : Projects!UpsertCityProject(k, p, c) => ProjectInv'
         /\ \A c \in Credentials[p] \cup {None} : Projects!UpdateProject(k, p, c) => ProjectInv'
         /\ Projects!DeleteProject(k, p) => ProjectInv'
<1> USE DEF Projects!Store
<1>0. Credentials[p] \subseteq Projects!Sent /\ None \notin Projects!Sent
  BY SentTypes
<1>1. \A r \in Projects!Row : LET rows == [project EXCEPT ![p] = r]
        IN  /\ rows \in Projects!Rows /\ rows[p] = r
            /\ \A q \in Projects!Project \ {p} : rows[q] = project[q]
  BY DEF ProjectInv, Projects!TypeOK, Projects!Rows
<1>2. ASSUME NEW c \in Credentials[p],
             Projects!CreateProject(k, p, c) \/ Projects!UpsertCityProject(k, p, c)
      PROVE  ProjectInv'
  <2> DEFINE r == [credentials |-> c, isActive |-> TRUE]
  <2>1. r \in Projects!Row /\ r # None
    BY <1>0, SentTypes
  <2>2. project' = [project EXCEPT ![p] = r] /\ UNCHANGED appCache
    BY <1>2 DEF Projects!CreateProject, Projects!UpsertCityProject, Projects!ActiveWith
  <2> HIDE DEF r
  <2>3. /\ project' \in Projects!Rows /\ project'[p] # None
        /\ \A q \in Projects!Project \ {p} : project'[q] = project[q]
    BY <1>1, <2>1, <2>2
  <2>4. \/ Projects!Begin(k, p, c, "read") /\ appCache[p] = None
        \/ Projects!Begin(k, p, c, "clear")
    BY <1>2 DEF Projects!CreateProject, Projects!UpsertCityProject, ProjectInv, AppsOfRows
  <2>5. CASE Projects!Begin(k, p, c, "read") /\ appCache[p] = None
    BY <1>0, <2>2, <2>3, <2>5, BeginKeeps
  <2>6. CASE Projects!Begin(k, p, c, "clear")
    BY <1>0, <2>2, <2>3, <2>6, BeginKeeps
  <2> QED
    BY <2>4, <2>5, <2>6
<1>3. ASSUME NEW c \in Credentials[p] \cup {None}, Projects!UpdateProject(k, p, c)
      PROVE  ProjectInv'
  <2>1. /\ project[p] # None /\ Projects!Begin(k, p, c, "store") /\ UNCHANGED project
        /\ appCache' = IF c # None THEN [appCache EXCEPT ![p] = None] ELSE appCache
    BY <1>3 DEF Projects!UpdateProject, Projects!ClearCache
  <2>2. /\ appCache' = appCache \/ appCache' = [appCache EXCEPT ![p] = None]
        /\ c # None => appCache'[p] = None
        /\ project' \in Projects!Rows
    BY <2>1 DEF ProjectInv, Projects!TypeOK
  <2> QED
    BY <1>0, <2>1, <2>2, BeginKeeps
<1>4. ASSUME Projects!DeleteProject(k, p) PROVE ProjectInv'
  <2> DEFINE r == [project[p] EXCEPT !.isActive = FALSE]
  <2>1. /\ project[p] # None /\ Projects!Begin(k, p, None, "clear") /\ UNCHANGED appCache
        /\ project' = [project EXCEPT ![p] = r]
    BY <1>4 DEF Projects!DeleteProject
  <2>2. r \in Projects!Row /\ r.credentials = project[p].credentials
    BY <2>1 DEF ProjectInv, Projects!TypeOK, Projects!Rows, Projects!Row
  <2> HIDE DEF r
  <2>3. /\ project' \in Projects!Rows /\ project'[p] = r
        /\ \A q \in Projects!Project \ {p} : project'[q] = project[q]
    BY <1>1, <2>1, <2>2
  <2>4. project'[p] # None /\ project'[p].credentials = project[p].credentials
    BY <2>2, <2>3, SentTypes
  <2> QED
    BY <2>1, <2>3, <2>4, BeginKeeps
<1> QED
  BY <1>2, <1>3, <1>4

LEMMA StoreUpdateKeeps ==
  ASSUME ProjectInv, NEW k \in Call, Projects!StoreUpdate(k)
  PROVE  ProjectInv'
<1>0. PICK p \in Projects!Project, on \in BOOLEAN, c \in Projects!Sent :
        /\ p = admin[k].id /\ project[p] # None
        /\ c = IF admin[k].credentials = None THEN project[p].credentials
               ELSE admin[k].credentials
        /\ project' = [project EXCEPT ![p] = [credentials |-> c, isActive |-> on]]
  <2>1. admin[k].id \in Projects!Project /\ project[admin[k].id] # None
    BY JobTypes DEF Projects!StoreUpdate, ProjectInv, JobsSound
  <2>2. project[admin[k].id].credentials \in Projects!Sent
    BY <2>1 DEF ProjectInv, Projects!TypeOK, Projects!Rows, Projects!Row
  <2> QED
    BY <2>1, <2>2, JobTypes DEF Projects!StoreUpdate, Projects!Store
<1> DEFINE r == [credentials |-> c, isActive |-> on]
<1>1. r \in Projects!Row /\ r # None /\ r.credentials = c
  BY SentTypes
<1>2. project' = [project EXCEPT ![p] = r]
  BY <1>0
<1> HIDE DEF r
<1>3. /\ project' \in Projects!Rows /\ project'[p] = r
      /\ \A q \in Projects!Project \ {p} : project'[q] = project[q]
  BY <1>1, <1>2 DEF ProjectInv, Projects!TypeOK, Projects!Rows
<1>4. /\ admin[k].at = "store" /\ UNCHANGED <<appCache, alone, settled>>
      /\ admin' = [admin EXCEPT ![k].at = "read"]
  BY DEF Projects!StoreUpdate
<1>5. /\ admin' \in [Call -> Projects!Job \cup {Projects!Idle}]
      /\ admin'[k].at = "read" /\ admin'[k].id = p
      /\ admin'[k].credentials = admin[k].credentials
      /\ \A j \in Call \ {k} : admin'[j] = admin[j]
  BY <1>0, <1>4, JobTypes DEF ProjectInv, Projects!TypeOK, Projects!Job
<1>6. \A q \in settled : q \in Projects!Project /\ (project[q] # None =>
        project'[q] # None /\ project'[q].credentials = project[q].credentials)
  <2>1. admin[k].credentials # None => p \notin settled
    BY <1>0, <1>4 DEF ProjectInv, JobsSound
  <2> QED
    BY <1>0, <1>1, <1>3, <2>1 DEF ProjectInv, Projects!TypeOK
<1>7. \A q \in Projects!Project : project[q] # None => project'[q] # None
  BY <1>1, <1>3
<1>8. Projects!TypeOK' /\ AppsOfRows'
  BY <1>3, <1>4, <1>5, <1>7 DEF ProjectInv, Projects!TypeOK, AppsOfRows
<1>9. JobsSound'
  <2> SUFFICES ASSUME NEW j \in Call
               PROVE  /\ admin'[j].at = "store" => project'[admin'[j].id] # None
                      /\ admin'[j].at = "load" =>
                           /\ admin'[j].rows \in Projects!Rows
                           /\ \A q \in Projects!Project : admin'[j].rows[q] # None =>
                                /\ project'[q] # None
                                /\ q \in settled =>
                                     admin'[j].rows[q].credentials = project'[q].credentials
                      /\ admin'[j].at # "idle" /\ admin'[j].credentials # None =>
                           admin'[j].id \notin settled
    BY <1>4 DEF JobsSound
  <2>1. CASE j = k
    BY <1>0, <1>4, <1>5, <2>1 DEF ProjectInv, JobsSound
  <2>2. CASE j # k
    BY <1>5, <1>6, <1>7, <2>2, JobTypes DEF ProjectInv, JobsSound
  <2> QED
    BY <2>1, <2>2
<1>10. AloneSound'
  BY <1>0, <1>4, <1>5 DEF ProjectInv, AloneSound
<1>11. SettledApps'
  BY <1>4, <1>6 DEF ProjectInv, SettledApps, AppsOfRows
<1> QED
  BY <1>8, <1>9, <1>10, <1>11 DEF ProjectInv

\* A request that ends, with what it made of the apps.
LEMMA OverKeeps ==
  ASSUME ProjectInv, NEW k \in Call, admin[k].at # "idle", UNCHANGED project,
         admin' = [admin EXCEPT ![k] = Projects!Idle], alone' = alone \ {k},
         \/ settled' = settled
         \/ /\ k \in alone /\ settled' = settled \cup {admin[k].id}
            /\ appCache'[admin[k].id] \in {None, project[admin[k].id].credentials},
         appCache' \in [Projects!Project -> Projects!Sent \cup {None}],
         \A p \in Projects!Project : project[p] = None => appCache'[p] = None,
         \A p \in settled : appCache'[p] # None => appCache'[p] = project[p].credentials
  PROVE  ProjectInv'
<1>1. /\ admin' \in [Call -> Projects!Job \cup {Projects!Idle}]
      /\ admin'[k].at = "idle" /\ \A j \in Call \ {k} : admin'[j] = admin[j]
  BY DEF ProjectInv, Projects!TypeOK, Projects!Idle
<1>2. Projects!TypeOK' /\ AppsOfRows'
  BY <1>1, JobTypes DEF ProjectInv, Projects!TypeOK, AppsOfRows
<1>3. k \in alone => \A j \in Call : admin'[j].at = "idle"
  BY <1>1 DEF ProjectInv, AloneSound
<1>4. JobsSound'
  BY <1>1, <1>3 DEF ProjectInv, JobsSound
<1>5. \A j \in alone : j # k => admin[k].at = "idle"
  BY DEF ProjectInv, AloneSound
<1>6. alone' = {}
  BY <1>5
<1>7. AloneSound' /\ SettledApps'
  BY <1>6 DEF ProjectInv, AloneSound, SettledApps
<1> QED
  BY <1>2, <1>4, <1>7 DEF ProjectInv

LEMMA ClearAfterKeeps ==
  ASSUME ProjectInv, NEW k \in Call, Projects!ClearAfter(k)
  PROVE  ProjectInv'
<1>0. PICK p \in Projects!Project : p = admin[k].id
  BY JobTypes DEF Projects!ClearAfter
<1>1. /\ admin[k].at = "clear" /\ appCache' = [appCache EXCEPT ![p] = None]
      /\ UNCHANGED project
  BY <1>0 DEF Projects!ClearAfter, Projects!ClearCache
<1>2. /\ appCache' \in [Projects!Project -> Projects!Sent \cup {None}] /\ appCache'[p] = None
      /\ \A q \in Projects!Project : appCache'[q] \in {None, appCache[q]}
      /\ \A q \in Projects!Project : project[q] = None => appCache'[q] = None
      /\ \A q \in settled : appCache'[q] # None => appCache'[q] = project[q].credentials
  BY <1>1 DEF ProjectInv, Projects!TypeOK, AppsOfRows, SettledApps
<1>3. CASE admin' = [admin EXCEPT ![k].at = "read"] /\ UNCHANGED <<alone, settled>>
  <2>1. /\ admin' \in [Call -> Projects!Job \cup {Projects!Idle}]
        /\ admin'[k].at = "read" /\ admin'[k].id = p
        /\ admin'[k].credentials = admin[k].credentials
        /\ \A j \in Call \ {k} : admin'[j] = admin[j]
    BY <1>0, <1>1, <1>3, JobTypes DEF ProjectInv, Projects!TypeOK, Projects!Job
  <2>2. Projects!TypeOK' /\ AppsOfRows'
    BY <1>1, <1>2, <1>3, <2>1 DEF ProjectInv, Projects!TypeOK, AppsOfRows
  <2>3. JobsSound'
    BY <1>0, <1>1, <1>3, <2>1 DEF ProjectInv, JobsSound
  <2>4. AloneSound' /\ SettledApps'
    BY <1>0, <1>1, <1>2, <1>3, <2>1 DEF ProjectInv, AloneSound, SettledApps
  <2> QED
    BY <2>2, <2>3, <2>4 DEF ProjectInv
<1>4. CASE Projects!Over(k)
  BY <1>0, <1>1, <1>2, <1>4, OverKeeps DEF Projects!Over
<1> QED
  BY <1>3, <1>4 DEF Projects!ClearAfter

LEMMA ReadProjectsKeeps ==
  ASSUME ProjectInv, NEW k \in Call, Projects!ReadProjects(k)
  PROVE  ProjectInv'
<1>1. /\ admin[k].at = "read" /\ UNCHANGED <<project, appCache, alone, settled>>
      /\ admin' = [admin EXCEPT ![k].at = "load", ![k].rows = project]
  BY DEF Projects!ReadProjects
<1>2. /\ admin' \in [Call -> Projects!Job \cup {Projects!Idle}]
      /\ admin'[k].at = "load" /\ admin'[k].id = admin[k].id /\ admin'[k].rows = project
      /\ admin'[k].credentials = admin[k].credentials
      /\ \A j \in Call \ {k} : admin'[j] = admin[j]
  BY <1>1, JobTypes DEF ProjectInv, Projects!TypeOK, Projects!Job
<1>3. Projects!TypeOK' /\ AppsOfRows' /\ SettledApps'
  BY <1>1, <1>2 DEF ProjectInv, Projects!TypeOK, AppsOfRows, SettledApps
<1>4. JobsSound'
  BY <1>1, <1>2 DEF ProjectInv, Projects!TypeOK, JobsSound
<1>5. AloneSound'
  BY <1>1, <1>2 DEF ProjectInv, AloneSound
<1> QED
  BY <1>3, <1>4, <1>5 DEF ProjectInv

LEMMA LoadProjectsKeeps ==
  ASSUME ProjectInv, NEW k \in Call, Projects!LoadProjects(k)
  PROVE  ProjectInv'
<1>0. PICK p \in Projects!Project, seen \in Projects!Rows :
        /\ p = admin[k].id /\ seen = admin[k].rows /\ admin[k].at = "load"
        /\ UNCHANGED project /\ appCache' = Projects!Loaded(seen) /\ Projects!Over(k)
  BY JobTypes DEF Projects!LoadProjects, ProjectInv, JobsSound
<1>1. \A q \in Projects!Project : seen[q] # None =>
        /\ project[q] # None /\ seen[q].credentials \in Projects!Sent
        /\ q \in settled => seen[q].credentials = project[q].credentials
  BY <1>0 DEF ProjectInv, JobsSound, Projects!Rows, Projects!Row
<1>2. \A q \in Projects!Project :
        appCache'[q] = appCache[q] \/ (seen[q] # None /\ appCache'[q] = seen[q].credentials)
  BY <1>0 DEF Projects!Loaded, Projects!Active
<1>3. appCache' \in [Projects!Project -> Projects!Sent \cup {None}]
  BY <1>0, <1>1, <1>2 DEF Projects!Loaded, ProjectInv, Projects!TypeOK
<1>4. \A q \in Projects!Project : project[q] = None => appCache'[q] = None
  BY <1>1, <1>2 DEF ProjectInv, AppsOfRows
<1>5. \A q \in settled : appCache'[q] # None => appCache'[q] = project[q].credentials
  BY <1>1, <1>2 DEF ProjectInv, SettledApps, Projects!TypeOK
<1>6. admin[k].credentials # None /\ k \in alone =>
        appCache'[p] \in {None, project[p].credentials}
  BY <1>0, <1>2 DEF ProjectInv, AloneSound
<1> QED
  BY <1>0, <1>3, <1>4, <1>5, <1>6, OverKeeps DEF Projects!Over

LEMMA ProjectInvStep ==
  ASSUME ProjectInv, [Projects!Next]_(Projects!projectVars)
  PROVE  ProjectInv'
<1>1. ASSUME NEW k \in Call, Projects!Fail(k) PROVE ProjectInv'
  BY <1>1, OverKeeps DEF Projects!Fail, ProjectInv, Projects!TypeOK, AppsOfRows, SettledApps
<1>2. CASE Projects!Restart
  <2>1. /\ admin' = [k \in Call |-> Projects!Idle] /\ UNCHANGED project
        /\ alone' = {} /\ settled' = Projects!Project
        /\ \A k \in Call : admin'[k].at = "idle"
    BY <1>2 DEF Projects!Restart, Projects!Idle
  <2>2. \A p \in Projects!Project : project[p] # None => project[p].credentials \in Projects!Sent
    BY DEF ProjectInv, Projects!TypeOK, Projects!Rows, Projects!Row
  <2>3. Projects!TypeOK'
    BY <1>2, <2>1, <2>2 DEF Projects!Restart, Projects!Active, ProjectInv, Projects!TypeOK
  <2>4. AppsOfRows' /\ SettledApps'
    BY <1>2, <2>1 DEF Projects!Restart, Projects!Active, AppsOfRows, SettledApps
  <2>5. JobsSound' /\ AloneSound'
    BY <2>1 DEF JobsSound, AloneSound
  <2> QED
    BY <2>3, <2>4, <2>5 DEF ProjectInv
<1>3. CASE UNCHANGED Projects!projectVars
  BY <1>3
     DEF Projects!projectVars, ProjectInv, Projects!TypeOK, AppsOfRows, JobsSound,
         AloneSound, SettledApps
<1> QED
  BY <1>1, <1>2, <1>3, ProjectBegins, StoreUpdateKeeps, ClearAfterKeeps, ReadProjectsKeeps,
     LoadProjectsKeeps
     DEF Projects!Next

\* A settled city is served with the credentials in its row.
LEMMA ProjectAgree == ProjectInv => Projects!CredentialsInForce
BY DEF ProjectInv, SettledApps, Projects!CredentialsInForce, Projects!GetFirebaseApp,
       Projects!Active, Projects!Project

-----------------------------------------------------------------------------
(* Notifications *)

USE DEF Delivery!At, Delivery!N, Delivery!Goto, Delivery!Finish

Serves(h, n) == handler[h].at # "idle" /\ handler[h].row = n

\* Copies of a message, those handled included.  A row that nobody has begun
\* to handle is as it was inserted.
Copies ==
  /\ \A n \in Note : handled[n] + queued[n] <= MaxCopies + 1
  /\ \A n \in Note : note[n] = None => handled[n] = 0 /\ queued[n] = 0
  /\ \A n \in Note : handled[n] = 0 =>
       /\ n \notin sent /\ n \notin failed /\ n \notin accepted
       /\ note[n] # None => note[n].status = "PENDING"

\* A handler is where the channel of its row leads it, and a mail is accepted
\* before it is noted.  Two have one row only when two copies were handled.
Places == \A h \in Handler : handler[h].at # "idle" =>
  /\ note[handler[h].row] # None /\ handled[handler[h].row] > 0
  /\ handler[h].at \in {"fetch", "mail"} => note[handler[h].row].channel = "EMAIL"
  /\ handler[h].at \in {"push", "read", "write"} => note[handler[h].row].channel = "PUSH"
  /\ handler[h].at = "note" =>
       \/ note[handler[h].row].channel = "PUSH"
       \/ handler[h].row \in accepted
  /\ \A j \in Handler \ {h} : Serves(j, handler[h].row) => handled[handler[h].row] > 1

\* Only mails are accepted; SENT says so; and PENDING, that one is at work.
Outcomes == \A n \in Note : note[n] # None =>
  /\ n \in accepted => note[n].channel = "EMAIL"
  /\ note[n].status = "SENT" /\ note[n].channel = "EMAIL" => n \in accepted
  /\ note[n].status = "PENDING" /\ n \in accepted =>
       n \in unsure \/ \E h \in Handler : Serves(h, n)

\* A row that was handled once: its failure has a reason and no mail, and its
\* handler has neither announced nor noted a failure.
HandledOnce == \A n \in Note : note[n] # None /\ handled[n] <= 1 =>
  /\ note[n].status = "FAILED" => note[n].reason /\ (n \notin accepted \/ n \in unsure)
  /\ n \notin sent \/ n \notin failed
  /\ \A h \in Handler : Serves(h, n) =>
       /\ note[n].status # "FAILED" /\ n \notin sent /\ n \notin failed
       /\ handler[h].at # "note" => n \notin accepted \/ n \in unsure

DeliveryInv == Delivery!TypeOK /\ Copies /\ Places /\ Outcomes /\ HandledOnce

LEMMA DeliveryInvInit == Delivery!Init => DeliveryInv
<1> SUFFICES ASSUME Delivery!Init PROVE DeliveryInv
  OBVIOUS
<1>1. MaxCopies \in Nat
  BY HostedAssumption DEF Delivery!RetriesAssumption
<1>2. Delivery!TypeOK
  BY <1>1 DEF Delivery!TypeOK, Delivery!Init
<1>3. Copies /\ Places /\ Outcomes /\ HandledOnce
  BY <1>1 DEF Copies, Places, Outcomes, HandledOnce, Delivery!Init, Delivery!Idle, Serves
<1> QED
  BY <1>2, <1>3 DEF DeliveryInv

LEMMA ServesTypes ==
  ASSUME DeliveryInv, NEW h \in Handler, handler[h].at # "idle"
  PROVE  /\ handler[h] \in Delivery!Work /\ handler[h].row \in Note
         /\ note[handler[h].row] \in Delivery!Notification
         /\ note[handler[h].row] # None
BY DEF DeliveryInv, Delivery!TypeOK, Delivery!Idle, Delivery!Work, Places

\* What a handler does to its row, going on or not.
LEMMA HandlerGoesKeep ==
  ASSUME DeliveryInv, NEW h \in Handler, NEW n \in Note, Serves(h, n),
         UNCHANGED <<queued, linkMail, handled>>,
         handler' \in [Handler -> Delivery!Work \cup {Delivery!Idle}],
         \A j \in Handler \ {h} : handler'[j] = handler[j],
         handler'[h].at = "idle" \/ handler'[h].row = n,
         note' \in [Note -> Delivery!Notification \cup {None}],
         \A m \in Note \ {n} : note'[m] = note[m],
         note'[n] # None, note'[n].channel = note[n].channel,
         accepted' \in {accepted, accepted \cup {n}}, sent' \in {sent, sent \cup {n}},
         failed' \in {failed, failed \cup {n}}, unsure' \in {unsure, unsure \cup {n}},
         n \in accepted' => note[n].channel = "EMAIL",
         note'[n].status = "SENT" /\ note[n].channel = "EMAIL" => n \in accepted',
         note'[n].status = "PENDING" /\ n \in accepted' =>
           n \in unsure' \/ handler'[h].at # "idle",
         handler'[h].at \in {"fetch", "mail"} => note[n].channel = "EMAIL",
         handler'[h].at \in {"push", "read", "write"} => note[n].channel = "PUSH",
         handler'[h].at = "note" => note[n].channel = "PUSH" \/ n \in accepted',
         handled[n] <= 1 =>
           /\ note'[n].status = "FAILED" =>
                note'[n].reason /\ (n \notin accepted' \/ n \in unsure')
           /\ n \notin sent' \/ n \notin failed'
           /\ handler'[h].at # "idle" =>
                /\ note'[n].status # "FAILED" /\ n \notin sent' /\ n \notin failed'
                /\ handler'[h].at # "note" => n \notin accepted' \/ n \in unsure'
  PROVE  DeliveryInv'
<1>1. Delivery!TypeOK'
  BY DEF DeliveryInv, Delivery!TypeOK
<1>2. note[n] # None /\ handled[n] > 0 /\ handled[n] \in Nat
  BY HostedAssumption
     DEF DeliveryInv, Delivery!TypeOK, Places, Serves, Delivery!RetriesAssumption
<1>3. Copies'
  BY <1>2 DEF DeliveryInv, Copies
<1>4. Places'
  <2> SUFFICES ASSUME NEW j \in Handler, handler'[j].at # "idle"
               PROVE  /\ note'[handler'[j].row] # None /\ handled[handler'[j].row] > 0
                      /\ handler'[j].at \in {"fetch", "mail"} =>
                           note'[handler'[j].row].channel = "EMAIL"
                      /\ handler'[j].at \in {"push", "read", "write"} =>
                           note'[handler'[j].row].channel = "PUSH"
                      /\ handler'[j].at = "note" =>
                           \/ note'[handler'[j].row].channel = "PUSH"
                           \/ handler'[j].row \in accepted'
                      /\ \A i \in Handler \ {j} :
                           handler'[i].at # "idle" /\ handler'[i].row = handler'[j].row
                             => handled[handler'[j].row] > 1
    BY DEF Places, Serves
  <2>1. CASE j = h
    BY <1>2, <2>1 DEF DeliveryInv, Places, Serves
  <2>2. CASE j # h
    BY <1>2, <2>2, ServesTypes DEF DeliveryInv, Places, Serves
  <2> QED
    BY <2>1, <2>2
<1>5. Outcomes'
  <2> SUFFICES ASSUME NEW m \in Note, note'[m] # None
               PROVE  /\ m \in accepted' => note'[m].channel = "EMAIL"
                      /\ note'[m].status = "SENT" /\ note'[m].channel = "EMAIL" =>
                           m \in accepted'
                      /\ note'[m].status = "PENDING" /\ m \in accepted' => m \in unsure' \/
                           \E j \in Handler : handler'[j].at # "idle" /\ handler'[j].row = m
    BY DEF Outcomes, Serves
  <2>1. CASE m = n
    BY <2>1
  <2>2. CASE m # n
    BY <2>2 DEF DeliveryInv, Outcomes, Serves
  <2> QED
    BY <2>1, <2>2
<1>6. HandledOnce'
  <2> SUFFICES ASSUME NEW m \in Note, note'[m] # None, handled[m] <= 1
               PROVE  /\ note'[m].status = "FAILED" =>
                           note'[m].reason /\ (m \notin accepted' \/ m \in unsure')
                      /\ m \notin sent' \/ m \notin failed'
                      /\ \A j \in Handler : handler'[j].at # "idle" /\ handler'[j].row = m =>
                           /\ note'[m].status # "FAILED" /\ m \notin sent' /\ m \notin failed'
                           /\ handler'[j].at # "note" => m \notin accepted' \/ m \in unsure'
    BY DEF HandledOnce, Serves
  <2>1. CASE m = n
    <3>1. \A j \in Handler \ {h} : ~(handler[j].at # "idle" /\ handler[j].row = n)
      BY <1>2, <2>1 DEF DeliveryInv, Places, Serves
    <3> QED
      BY <2>1, <3>1
  <2>2. CASE m # n
    BY <2>2 DEF DeliveryInv, HandledOnce, Serves
  <2> QED
    BY <2>1, <2>2
<1> QED
  BY <1>1, <1>3, <1>4, <1>5, <1>6 DEF DeliveryInv

\* A handler that goes from one place to another and does nothing else.
LEMMA GoKeeps ==
  ASSUME DeliveryInv, NEW h \in Handler, NEW place \in Delivery!Place,
         handler[h].at # "idle", handler[h].at # "note",
         UNCHANGED <<note, queued, linkMail, sent, failed, handled>>,
         handler' \in [Handler -> Delivery!Work \cup {Delivery!Idle}],
         \A j \in Handler \ {h} : handler'[j] = handler[j],
         handler'[h].row = handler[h].row, handler'[h].at = place,
         LET n == handler[h].row
         IN  /\ accepted' = accepted /\ unsure' = unsure
             \/ /\ note[n].channel = "EMAIL" /\ accepted' = accepted \cup {n}
                /\ unsure' = IF place = "note" THEN unsure ELSE unsure \cup {n},
         LET n == handler[h].row
         IN  /\ place \in {"fetch", "mail"} => note[n].channel = "EMAIL"
             /\ place \in {"push", "read", "write"} => note[n].channel = "PUSH"
             /\ place = "note" => note[n].channel = "PUSH" \/ n \in accepted'
  PROVE  DeliveryInv'
<1>0. PICK n \in Note : n = handler[h].row /\ Serves(h, n) /\ note[n] # None
  BY ServesTypes DEF Serves
<1>1. note[n].status = "SENT" /\ note[n].channel = "EMAIL" => n \in accepted'
  BY <1>0 DEF DeliveryInv, Outcomes
<1>2. /\ handled[n] <= 1 =>
           /\ note[n].status # "FAILED" /\ n \notin sent /\ n \notin failed
           /\ n \notin accepted \/ n \in unsure
      /\ n \in accepted => note[n].channel = "EMAIL"
  BY <1>0 DEF DeliveryInv, HandledOnce, Outcomes
<1>3. /\ accepted' \in {accepted, accepted \cup {n}}
      /\ unsure' \in {unsure, unsure \cup {n}}
      /\ n \in accepted' => note[n].channel = "EMAIL"
      /\ handled[n] <= 1 /\ place # "note" => n \notin accepted' \/ n \in unsure'
  BY <1>0, <1>2
<1>4. note' \in [Note -> Delivery!Notification \cup {None}] /\ place # "idle"
  BY DEF DeliveryInv, Delivery!TypeOK, Delivery!Place
<1> QED
  BY <1>0, <1>1, <1>2, <1>3, <1>4, HandlerGoesKeep

\* The effect of updates of where a handler is.
LEMMA HandlerEffects ==
  ASSUME DeliveryInv, NEW h \in Handler, handler[h].at # "idle",
         NEW new \in Delivery!Work \cup {Delivery!Idle}, handler' = [handler EXCEPT ![h] = new]
  PROVE  /\ handler' \in [Handler -> Delivery!Work \cup {Delivery!Idle}]
         /\ handler'[h] = new /\ \A j \in Handler \ {h} : handler'[j] = handler[j]
BY DEF DeliveryInv, Delivery!TypeOK

LEMMA Moved ==
  ASSUME DeliveryInv, NEW h \in Handler, handler[h].at # "idle", NEW place \in Delivery!Place
  PROVE  LET new == [handler[h] EXCEPT !.at = place]
         IN  new \in Delivery!Work /\ new.at = place /\ new.row = handler[h].row
BY ServesTypes DEF Delivery!Work

LEMMA GoesKeep ==
  ASSUME DeliveryInv, NEW h \in Handler
  PROVE  /\ Delivery!FetchAddress(h) => DeliveryInv'
         /\ Delivery!Push(h) => DeliveryInv'
<1>1. ASSUME NEW place \in {"mail", "note", "give up"}, handler[h].at \in {"fetch", "push"},
             Delivery!Goto(h, place),
             UNCHANGED <<note, queued, linkMail, sent, failed, handled, accepted, unsure>>,
             place = "mail" => handler[h].at = "fetch",
             place = "note" => handler[h].at = "push"
      PROVE  DeliveryInv'
  <2> DEFINE new == [handler[h] EXCEPT !.at = place]
  <2>1. new \in Delivery!Work /\ new.at = place /\ new.row = handler[h].row
    <3>1. place \in Delivery!Place /\ handler[h].at # "idle"
      BY <1>1 DEF Delivery!Place
    <3> QED
      BY <3>1, Moved
  <2>2. handler' = [handler EXCEPT ![h] = new]
    BY <1>1
  <2> HIDE DEF new
  <2>3. /\ handler' \in [Handler -> Delivery!Work \cup {Delivery!Idle}]
        /\ handler'[h] = new /\ \A j \in Handler \ {h} : handler'[j] = handler[j]
    BY <1>1, <2>1, <2>2, HandlerEffects
  <2>4. /\ handler[h].at = "fetch" => note[handler[h].row].channel = "EMAIL"
        /\ handler[h].at = "push" => note[handler[h].row].channel = "PUSH"
    BY <1>1 DEF DeliveryInv, Places
  <2> QED
    BY <1>1, <2>1, <2>3, <2>4, GoKeeps DEF Delivery!Place
<1> QED
  BY <1>1 DEF Delivery!FetchAddress, Delivery!Push

LEMMA TryMailKeeps ==
  ASSUME DeliveryInv, NEW h \in Handler, Delivery!TryMail(h)
  PROVE  DeliveryInv'
<1>0. PICK n \in Note : n = handler[h].row
  BY ServesTypes DEF Delivery!TryMail
<1>1. /\ handler[h].at = "mail" /\ note[n].channel = "EMAIL"
      /\ UNCHANGED <<note, queued, linkMail, sent, failed, handled>>
      /\ handler[h] \in Delivery!Work
  BY <1>0, ServesTypes DEF Delivery!TryMail, DeliveryInv, Places
<1>2. PICK new \in Delivery!Work :
        /\ handler' = [handler EXCEPT ![h] = new] /\ new.row = n
        /\ \/ new.at = "note" /\ accepted' = accepted \cup {n} /\ unsure' = unsure
           \/ /\ new.at \in {"mail", "give up"}
              /\ \/ accepted' = accepted \cup {n} /\ unsure' = unsure \cup {n}
                 \/ accepted' = accepted /\ unsure' = unsure
  <2>1. CASE Delivery!Goto(h, "note") /\ Delivery!Accepted(h, TRUE)
    BY <1>0, <1>1, <2>1, Moved DEF Delivery!Accepted, Delivery!Place
  <2>2. CASE /\ Delivery!Accepted(h, FALSE) \/ UNCHANGED <<accepted, unsure>>
             /\ IF handler[h].tries + 1 < MaxRetries
                THEN handler' = [handler EXCEPT ![h].tries = @ + 1]
                ELSE Delivery!Goto(h, "give up")
    <3>1. MaxRetries \in Nat
      BY HostedAssumption DEF Delivery!RetriesAssumption
    <3>2. handler[h].tries + 1 < MaxRetries =>
            LET new == [handler[h] EXCEPT !.tries = @ + 1]
            IN  new \in Delivery!Work /\ new.at = "mail" /\ new.row = n
      BY <1>0, <1>1, <3>1 DEF Delivery!Work
    <3>3. CASE handler[h].tries + 1 < MaxRetries
      BY <1>0, <2>2, <3>2, <3>3 DEF Delivery!Accepted
    <3>4. CASE ~(handler[h].tries + 1 < MaxRetries)
      BY <1>0, <1>1, <2>2, <3>4, Moved DEF Delivery!Accepted, Delivery!Place
    <3> QED
      BY <3>3, <3>4
  <2> QED
    BY <2>1, <2>2 DEF Delivery!TryMail
<1>3. /\ handler' \in [Handler -> Delivery!Work \cup {Delivery!Idle}]
      /\ handler'[h] = new /\ \A j \in Handler \ {h} : handler'[j] = handler[j]
  BY <1>1, <1>2, HandlerEffects
<1>4. new.at \in Delivery!Place
  BY DEF Delivery!Work
<1>5. /\ accepted' = accepted /\ unsure' = unsure
      \/ /\ note[n].channel = "EMAIL" /\ accepted' = accepted \cup {n}
         /\ unsure' = IF new.at = "note" THEN unsure ELSE unsure \cup {n}
  BY <1>1, <1>2
<1>6. new.at \notin {"push", "read", "write"} /\ (new.at = "note" => n \in accepted')
  BY <1>2
<1> QED
  BY <1>0, <1>1, <1>2, <1>3, <1>4, <1>5, <1>6, GoKeeps

\* A row that was written.
LEMMA RowWritten ==
  ASSUME DeliveryInv, NEW n \in Note, NEW r \in Delivery!Notification,
         note' = [note EXCEPT ![n] = r]
  PROVE  /\ note' \in [Note -> Delivery!Notification \cup {None}]
         /\ \A m \in Note \ {n} : note'[m] = note[m]
         /\ note'[n] = r /\ r # None
BY HostedAssumption DEF DeliveryInv, Delivery!TypeOK, Delivery!RowsAssumption

LEMMA NoteSentKeeps ==
  ASSUME DeliveryInv, NEW h \in Handler, Delivery!NoteSent(h)
  PROVE  DeliveryInv'
<1>0. PICK n \in Note : n = handler[h].row /\ Serves(h, n) /\ note[n] # None
  BY ServesTypes DEF Delivery!NoteSent, Serves
<1>1. /\ handler[h].at = "note" /\ UNCHANGED <<queued, linkMail, failed, handled, accepted>>
      /\ note[n].channel = "PUSH" \/ n \in accepted
      /\ n \in accepted => note[n].channel = "EMAIL"
      /\ note[n].status = "SENT" /\ note[n].channel = "EMAIL" => n \in accepted
      /\ handled[n] <= 1 => note[n].status # "FAILED" /\ n \notin sent /\ n \notin failed
  BY <1>0 DEF Delivery!NoteSent, DeliveryInv, Places, Outcomes, HandledOnce
<1>2. /\ note' \in [Note -> Delivery!Notification \cup {None}]
      /\ \A m \in Note \ {n} : note'[m] = note[m]
      /\ note'[n] # None /\ note'[n].channel = note[n].channel
      /\ \/ note'[n].status = "SENT" /\ unsure' = unsure
         \/ note'[n] = note[n] /\ unsure' = unsure \cup {n}
  <2>1. note[n] \in Delivery!Notification
    BY <1>0 DEF DeliveryInv, Delivery!TypeOK
  <2>2. CASE note' = [note EXCEPT ![n].status = "SENT"] /\ UNCHANGED unsure
    <3> DEFINE r == [note[n] EXCEPT !.status = "SENT"]
    <3>1. r \in Delivery!Notification /\ r.channel = note[n].channel /\ r.status = "SENT"
      BY <2>1 DEF Delivery!Notification
    <3>2. note' = [note EXCEPT ![n] = r]
      BY <2>2
    <3> HIDE DEF r
    <3> QED
      BY <2>2, <3>1, <3>2, RowWritten
  <2>3. CASE UNCHANGED note /\ unsure' = unsure \cup {n}
    BY <1>0, <2>3 DEF DeliveryInv, Delivery!TypeOK
  <2> QED
    BY <1>0, <2>2, <2>3 DEF Delivery!NoteSent
<1>3. PICK new \in Delivery!Work \cup {Delivery!Idle} :
        /\ handler' = [handler EXCEPT ![h] = new]
        /\ \/ note[n].channel = "PUSH" /\ new.row = n /\ new.at = "read" /\ UNCHANGED sent
           \/ note[n].channel # "PUSH" /\ new.at = "idle" /\ sent' = sent \cup {n}
  <2> DEFINE reads == [handler[h] EXCEPT !.at = "read"]
  <2>1. reads \in Delivery!Work /\ reads.row = n /\ reads.at = "read"
    BY <1>0, <1>1, ServesTypes DEF Delivery!Work, Delivery!Place
  <2>2. IF note[n].channel = "PUSH"
        THEN handler' = [handler EXCEPT ![h] = reads] /\ UNCHANGED sent
        ELSE Delivery!Finish(h) /\ sent' = sent \cup {n}
    BY <1>0 DEF Delivery!NoteSent
  <2>3. Delivery!Idle.at = "idle"
    BY DEF Delivery!Idle
  <2> HIDE DEF reads
  <2> QED
    BY <2>1, <2>2, <2>3
<1>4. /\ handler' \in [Handler -> Delivery!Work \cup {Delivery!Idle}]
      /\ handler'[h] = new /\ \A j \in Handler \ {h} : handler'[j] = handler[j]
  BY <1>1, <1>3, HandlerEffects
<1> QED
  BY <1>0, <1>1, <1>2, <1>3, <1>4, HandlerGoesKeep

LEMMA ReadMetadataKeeps ==
  ASSUME DeliveryInv, NEW h \in Handler, Delivery!ReadMetadata(h)
  PROVE  DeliveryInv'
<1>0. PICK n \in Note : n = handler[h].row /\ handler[h] \in Delivery!Work
                        /\ note[n] \in Delivery!Notification
  BY ServesTypes DEF Delivery!ReadMetadata
<1>1. /\ handler[h].at = "read" /\ note[n].channel = "PUSH"
      /\ UNCHANGED <<note, queued, linkMail, sent, failed, handled, accepted, unsure>>
  BY <1>0 DEF Delivery!ReadMetadata, DeliveryInv, Places
<1>2. PICK new \in Delivery!Work :
        /\ handler' = [handler EXCEPT ![h] = new]
        /\ new.row = n /\ new.at \in {"write", "give up"}
  <2> DEFINE first == [handler[h] EXCEPT !.at = "write"]
             second == [first EXCEPT !.reason = note[n].reason]
             other == [handler[h] EXCEPT !.at = "give up"]
  <2>1. first \in Delivery!Work /\ first.row = n /\ first.at = "write"
    BY <1>0 DEF Delivery!Work, Delivery!Place
  <2>2. second \in Delivery!Work /\ second.row = n /\ second.at = "write"
    <3> HIDE DEF first
    <3> QED
      BY <1>0, <2>1 DEF Delivery!Work, Delivery!Notification
  <2>3. other \in Delivery!Work /\ other.row = n /\ other.at = "give up"
    BY <1>0 DEF Delivery!Work, Delivery!Place
  <2>4. [handler EXCEPT ![h].at = "write", ![h].reason = note[n].reason] =
        [handler EXCEPT ![h] = second]
    BY DEF DeliveryInv, Delivery!TypeOK
  <2>5. \/ handler' = [handler EXCEPT ![h] = second]
        \/ handler' = [handler EXCEPT ![h] = other]
    BY <1>0, <2>4 DEF Delivery!ReadMetadata
  <2> HIDE DEF second, other
  <2> QED
    BY <2>2, <2>3, <2>5
<1>3. /\ handler' \in [Handler -> Delivery!Work \cup {Delivery!Idle}]
      /\ handler'[h] = new /\ \A j \in Handler \ {h} : handler'[j] = handler[j]
  BY <1>1, <1>2, HandlerEffects
<1>4. new.at \in Delivery!Place
  BY DEF Delivery!Work
<1> QED
  BY <1>0, <1>1, <1>2, <1>3, <1>4, GoKeeps

LEMMA WriteLanguageKeeps ==
  ASSUME DeliveryInv, NEW h \in Handler, Delivery!WriteLanguage(h)
  PROVE  DeliveryInv'
<1>0. PICK n \in Note : /\ n = handler[h].row /\ Serves(h, n) /\ note[n] # None
                        /\ handler[h] \in Delivery!Work
  BY ServesTypes DEF Delivery!WriteLanguage, Serves
<1>1. /\ handler[h].at = "write" /\ note[n].channel = "PUSH" /\ n \notin accepted
      /\ UNCHANGED <<queued, linkMail, failed, handled, accepted, unsure>>
      /\ handled[n] <= 1 => note[n].status # "FAILED" /\ n \notin sent /\ n \notin failed
  BY <1>0 DEF Delivery!WriteLanguage, DeliveryInv, Places, Outcomes, HandledOnce
<1>2. CASE /\ note' = [note EXCEPT ![n].reason = handler[h].reason, ![n].language = TRUE]
           /\ Delivery!Finish(h) /\ sent' = sent \cup {n}
  <2>1. /\ handler' \in [Handler -> Delivery!Work \cup {Delivery!Idle}]
        /\ handler'[h] = Delivery!Idle /\ \A j \in Handler \ {h} : handler'[j] = handler[j]
        /\ handler'[h].at = "idle"
    BY <1>1, <1>2, HandlerEffects DEF Delivery!Idle
  <2>2. /\ note[n] \in Delivery!Notification /\ handler[h].reason \in BOOLEAN
        /\ note \in [Note -> Delivery!Notification \cup {None}]
    BY <1>0 DEF Delivery!Work, DeliveryInv, Delivery!TypeOK
  <2> DEFINE r1 == [note[n] EXCEPT !.reason = handler[h].reason]
             r2 == [r1 EXCEPT !.language = TRUE]
  <2>3. /\ note'[n] # None /\ note'[n].channel = note[n].channel
        /\ note'[n].status = note[n].status
        /\ note' \in [Note -> Delivery!Notification \cup {None}]
        /\ \A m \in Note \ {n} : note'[m] = note[m]
    <3>1. /\ r1 \in Delivery!Notification /\ r1.channel = note[n].channel
          /\ r1.status = note[n].status
      BY <2>2 DEF Delivery!Notification
    <3>2. /\ r2 \in Delivery!Notification /\ r2.channel = note[n].channel
          /\ r2.status = note[n].status
      <4> HIDE DEF r1
      <4> QED
        BY <3>1 DEF Delivery!Notification
    <3>3. [note EXCEPT ![n].reason = handler[h].reason, ![n].language = TRUE] =
          [note EXCEPT ![n] = r2]
      BY <2>2
    <3> HIDE DEF r2
    <3>4. note' = [note EXCEPT ![n] = r2]
      BY <1>2, <3>3
    <3> QED
      BY <3>2, <3>4, RowWritten
  <2> HIDE DEF r2
  <2> QED
    BY <1>0, <1>1, <1>2, <2>1, <2>3, HandlerGoesKeep
<1>3. CASE Delivery!Goto(h, "give up") /\ UNCHANGED <<note, sent>>
  <2> DEFINE new == [handler[h] EXCEPT !.at = "give up"]
  <2>1. new \in Delivery!Work /\ new.row = n /\ new.at = "give up"
    BY <1>0 DEF Delivery!Work, Delivery!Place
  <2>2. handler' = [handler EXCEPT ![h] = new]
    BY <1>3
  <2> HIDE DEF new
  <2>3. /\ handler' \in [Handler -> Delivery!Work \cup {Delivery!Idle}]
        /\ handler'[h] = new /\ \A j \in Handler \ {h} : handler'[j] = handler[j]
    BY <1>1, <2>1, <2>2, HandlerEffects
  <2>4. "give up" \in Delivery!Place
    BY DEF Delivery!Place
  <2> QED
    BY <1>0, <1>1, <1>3, <2>1, <2>3, <2>4, GoKeeps
<1> QED
  BY <1>0, <1>2, <1>3 DEF Delivery!WriteLanguage

LEMMA GiveUpKeeps ==
  ASSUME DeliveryInv, NEW h \in Handler, Delivery!GiveUp(h)
  PROVE  DeliveryInv'
<1>0. PICK n \in Note : /\ n = handler[h].row /\ Serves(h, n) /\ note[n] # None
                        /\ handler[h] \in Delivery!Work /\ note[n] \in Delivery!Notification
  BY ServesTypes DEF Delivery!GiveUp, Serves
<1>1. /\ handler[h].at \in {"give up", "refuse"}
      /\ UNCHANGED <<note, queued, linkMail, sent, handled, accepted>>
      /\ n \in accepted => note[n].channel = "EMAIL"
      /\ note[n].status = "SENT" /\ note[n].channel = "EMAIL" => n \in accepted
      /\ handled[n] <= 1 => note[n].status # "FAILED" /\ n \notin sent /\ n \notin failed
  BY <1>0 DEF Delivery!GiveUp, DeliveryInv, Outcomes, HandledOnce
<1>2. CASE /\ handler' = [handler EXCEPT ![h].at = "fail", ![h].language = note[n].language]
           /\ UNCHANGED <<failed, unsure>>
  <2> DEFINE first == [handler[h] EXCEPT !.at = "fail"]
             second == [first EXCEPT !.language = note[n].language]
  <2>1. first \in Delivery!Work /\ first.row = n /\ first.at = "fail"
    BY <1>0 DEF Delivery!Work, Delivery!Place
  <2>2. second \in Delivery!Work /\ second.row = n /\ second.at = "fail"
    <3> HIDE DEF first
    <3> QED
      BY <1>0, <2>1 DEF Delivery!Work, Delivery!Notification
  <2>3. [handler EXCEPT ![h].at = "fail", ![h].language = note[n].language] =
        [handler EXCEPT ![h] = second]
    BY DEF DeliveryInv, Delivery!TypeOK
  <2>4. handler' = [handler EXCEPT ![h] = second]
    BY <1>2, <2>3
  <2> HIDE DEF second
  <2>5. /\ handler' \in [Handler -> Delivery!Work \cup {Delivery!Idle}]
        /\ handler'[h] = second /\ \A j \in Handler \ {h} : handler'[j] = handler[j]
    BY <1>1, <2>2, <2>4, HandlerEffects
  <2>6. "fail" \in Delivery!Place
    BY DEF Delivery!Place
  <2> QED
    BY <1>0, <1>1, <1>2, <2>2, <2>5, <2>6, GoKeeps
<1>3. CASE /\ Delivery!Finish(h)
           /\ failed' = failed \cup {n} /\ unsure' = unsure \cup {n}
  <2>1. /\ handler' \in [Handler -> Delivery!Work \cup {Delivery!Idle}]
        /\ handler'[h] = Delivery!Idle /\ \A j \in Handler \ {h} : handler'[j] = handler[j]
        /\ handler'[h].at = "idle"
    BY <1>1, <1>3, HandlerEffects DEF Delivery!Idle
  <2>2. note' \in [Note -> Delivery!Notification \cup {None}]
    BY <1>1 DEF DeliveryInv, Delivery!TypeOK
  <2> QED
    BY <1>0, <1>1, <1>3, <2>1, <2>2, HandlerGoesKeep
<1> QED
  BY <1>0, <1>2, <1>3 DEF Delivery!GiveUp

LEMMA NoteFailedKeeps ==
  ASSUME DeliveryInv, NEW h \in Handler, Delivery!NoteFailed(h)
  PROVE  DeliveryInv'
<1>0. PICK n \in Note : /\ n = handler[h].row /\ Serves(h, n) /\ note[n] # None
                        /\ handler[h] \in Delivery!Work
  BY ServesTypes DEF Delivery!NoteFailed, Serves
<1>1. /\ handler[h].at = "fail" /\ UNCHANGED <<queued, linkMail, sent, handled, accepted>>
      /\ Delivery!Finish(h) /\ failed' = failed \cup {n}
      /\ n \in accepted => note[n].channel = "EMAIL"
      /\ note[n].status = "SENT" /\ note[n].channel = "EMAIL" => n \in accepted
      /\ handled[n] <= 1 =>
           /\ note[n].status # "FAILED" /\ n \notin sent /\ n \notin failed
           /\ n \notin accepted \/ n \in unsure
  BY <1>0 DEF Delivery!NoteFailed, DeliveryInv, Outcomes, HandledOnce
<1>2. /\ handler' \in [Handler -> Delivery!Work \cup {Delivery!Idle}]
      /\ handler'[h] = Delivery!Idle /\ \A j \in Handler \ {h} : handler'[j] = handler[j]
      /\ handler'[h].at = "idle"
  BY <1>1, HandlerEffects DEF Delivery!Idle
<1>3. CASE /\ note' = [note EXCEPT ![n].status = "FAILED", ![n].reason = TRUE,
                                   ![n].language = handler[h].language]
           /\ UNCHANGED unsure
  <2>1. /\ note[n] \in Delivery!Notification /\ handler[h].language \in BOOLEAN
        /\ note \in [Note -> Delivery!Notification \cup {None}]
    BY <1>0 DEF Delivery!Work, DeliveryInv, Delivery!TypeOK
  <2> DEFINE r1 == [note[n] EXCEPT !.status = "FAILED"]
             r2 == [r1 EXCEPT !.reason = TRUE]
             r3 == [r2 EXCEPT !.language = handler[h].language]
  <2>2. r1 \in Delivery!Notification /\ r1.channel = note[n].channel /\ r1.status = "FAILED"
    BY <2>1 DEF Delivery!Notification
  <2>3. /\ r2 \in Delivery!Notification /\ r2.channel = note[n].channel
        /\ r2.status = "FAILED" /\ r2.reason
    <3> HIDE DEF r1
    <3> QED
      BY <2>2 DEF Delivery!Notification
  <2>4. /\ r3 \in Delivery!Notification /\ r3.channel = note[n].channel
        /\ r3.status = "FAILED" /\ r3.reason
    <3> HIDE DEF r2
    <3> QED
      BY <2>1, <2>3 DEF Delivery!Notification
  <2>5. [note EXCEPT ![n].status = "FAILED", ![n].reason = TRUE,
                     ![n].language = handler[h].language] = [note EXCEPT ![n] = r3]
    BY <2>1
  <2> HIDE DEF r3
  <2>6. note' = [note EXCEPT ![n] = r3]
    BY <1>3, <2>5
  <2>7. /\ note'[n] # None /\ note'[n].channel = note[n].channel
        /\ note' \in [Note -> Delivery!Notification \cup {None}]
        /\ \A m \in Note \ {n} : note'[m] = note[m]
        /\ note'[n].status = "FAILED" /\ note'[n].reason
    BY <2>4, <2>6, RowWritten
  <2>8. handled[n] <= 1 =>
          /\ note'[n].status = "FAILED" =>
               note'[n].reason /\ (n \notin accepted' \/ n \in unsure')
          /\ n \notin sent' \/ n \notin failed'
    BY <1>1, <1>3, <2>7
  <2>9. /\ accepted' = accepted /\ sent' = sent /\ failed' = failed \cup {n} /\ unsure' = unsure
        /\ UNCHANGED <<queued, linkMail, handled>>
    BY <1>1, <1>3
  <2>10. note'[n].status # "SENT" /\ note'[n].status # "PENDING"
    BY <2>7
  <2> QED
    BY <1>0, <1>1, <1>2, <2>7, <2>8, <2>9, <2>10, HandlerGoesKeep
<1>4. CASE UNCHANGED note /\ unsure' = unsure \cup {n}
  <2>1. note' \in [Note -> Delivery!Notification \cup {None}]
    BY <1>4 DEF DeliveryInv, Delivery!TypeOK
  <2> QED
    BY <1>0, <1>1, <1>2, <1>4, <2>1, HandlerGoesKeep
<1> QED
  BY <1>0, <1>3, <1>4 DEF Delivery!NoteFailed

\* A row that is inserted, or a message of a link that is not about one yet.
LEMMA SendKeeps ==
  ASSUME DeliveryInv, NEW n \in Note, Delivery!Send(n)
  PROVE  DeliveryInv'
<1>1. PICK channel \in Delivery!Channel, address \in BOOLEAN, copies \in 0 .. MaxCopies :
        /\ note' = [note EXCEPT ![n] = Delivery!Blank(channel, address)]
        /\ queued' = [queued EXCEPT ![n] = copies]
  BY DEF Delivery!Send
<1>2. /\ note[n] = None
      /\ UNCHANGED <<linkMail, handler, sent, failed, handled, accepted, unsure>>
  BY DEF Delivery!Send, Delivery!Unused
<1> DEFINE r == Delivery!Blank(channel, address)
<1>3. r \in Delivery!Notification /\ r.status = "PENDING"
  BY DEF Delivery!Blank, Delivery!Notification
<1> HIDE DEF r
<1>4. /\ note' \in [Note -> Delivery!Notification \cup {None}] /\ note'[n] = r /\ r # None
      /\ \A m \in Note \ {n} : note'[m] = note[m]
  BY <1>1, <1>3, RowWritten DEF r
<1>5. MaxCopies \in Nat /\ handled[n] = 0
  BY <1>2, HostedAssumption DEF Delivery!RetriesAssumption, DeliveryInv, Copies
<1>6. /\ n \notin sent /\ n \notin failed /\ n \notin accepted
      /\ \A h \in Handler : handler[h].at # "idle" => handler[h].row \in Note \ {n}
  BY <1>2, <1>5, ServesTypes DEF DeliveryInv, Copies, Places
<1>7. Delivery!TypeOK'
  BY <1>1, <1>2, <1>4 DEF DeliveryInv, Delivery!TypeOK
<1>8. Copies'
  <2>1. queued'[n] = copies /\ \A m \in Note \ {n} : queued'[m] = queued[m]
    BY <1>1 DEF DeliveryInv, Delivery!TypeOK
  <2> QED
    BY <1>2, <1>3, <1>4, <1>5, <1>6, <2>1 DEF DeliveryInv, Copies
<1>9. Places'
  BY <1>2, <1>4, <1>6 DEF DeliveryInv, Places, Serves
<1>10. Outcomes' /\ HandledOnce'
  BY <1>2, <1>3, <1>4, <1>6 DEF DeliveryInv, Outcomes, HandledOnce, Serves
<1> QED
  BY <1>7, <1>8, <1>9, <1>10 DEF DeliveryInv

\* A handler that begins with a row: one that was there, of which a copy of
\* the message was waiting, or one that it has inserted.
LEMMA StartKeeps ==
  ASSUME DeliveryInv, NEW h \in Handler, handler[h].at = "idle",
         NEW n \in Note, NEW r \in Delivery!Notification, r # None,
         UNCHANGED <<sent, failed, accepted, unsure>>,
         Delivery!Start(h, n, r),
         linkMail' \in 0 .. MaxCopies,
         queued' \in [Note -> 0 .. MaxCopies],
         \A m \in Note \ {n} : queued'[m] = queued[m],
         handled[n] + queued'[n] <= MaxCopies,
         note' \in [Note -> Delivery!Notification \cup {None}],
         \A m \in Note \ {n} : note'[m] = note[m], note'[n] = r,
         note[n] = r \/ (note[n] = None /\ r.status = "PENDING")
  PROVE  DeliveryInv'
<1> DEFINE work == [at |-> Delivery!First(n, r), row |-> n, tries |-> 0, reason |-> FALSE,
                    language |-> FALSE]
<1>1. /\ MaxCopies \in Nat /\ MaxRetries \in Nat /\ handled[n] \in Nat /\ queued'[n] \in Nat
  BY HostedAssumption DEF Delivery!RetriesAssumption, DeliveryInv, Delivery!TypeOK
<1>2. /\ Delivery!First(n, r) \in Delivery!Place /\ Delivery!First(n, r) # "idle"
      /\ Delivery!First(n, r) # "note"
      /\ Delivery!First(n, r) \in {"fetch", "mail"} => r.channel = "EMAIL"
      /\ Delivery!First(n, r) \in {"push", "read", "write"} => r.channel = "PUSH"
  BY DEF Delivery!First, Delivery!Place
<1>3. work \in Delivery!Work /\ work.at = Delivery!First(n, r) /\ work.row = n
  BY <1>1, <1>2 DEF Delivery!Work
<1>4. handler' = [handler EXCEPT ![h] = work] /\ handled' = [handled EXCEPT ![n] = @ + 1]
  BY DEF Delivery!Start
<1> HIDE DEF work
<1>5. /\ handler' \in [Handler -> Delivery!Work \cup {Delivery!Idle}]
      /\ handler'[h] = work /\ \A j \in Handler \ {h} : handler'[j] = handler[j]
      /\ handled' \in [Note -> 0 .. MaxCopies + 1] /\ handled'[n] = handled[n] + 1
      /\ \A m \in Note \ {n} : handled'[m] = handled[m]
  BY <1>1, <1>3, <1>4 DEF DeliveryInv, Delivery!TypeOK
<1>6. Delivery!TypeOK'
  BY <1>5 DEF DeliveryInv, Delivery!TypeOK
<1>7. Copies'
  BY <1>1, <1>5 DEF DeliveryInv, Copies
<1>8. handled[n] = 0 =>
        /\ r.status = "PENDING" /\ n \notin sent /\ n \notin failed /\ n \notin accepted
        /\ \A j \in Handler : ~Serves(j, n)
  BY DEF DeliveryInv, Copies, Places, Serves
<1>9. /\ n \in accepted => r.channel = "EMAIL"
      /\ r.status = "SENT" /\ r.channel = "EMAIL" => n \in accepted
      /\ note[n] = None => handled[n] = 0
  BY <1>8 DEF DeliveryInv, Outcomes, Copies
<1>10. Places'
  <2> SUFFICES ASSUME NEW j \in Handler, handler'[j].at # "idle"
               PROVE  /\ note'[handler'[j].row] # None /\ handled'[handler'[j].row] > 0
                      /\ handler'[j].at \in {"fetch", "mail"} =>
                           note'[handler'[j].row].channel = "EMAIL"
                      /\ handler'[j].at \in {"push", "read", "write"} =>
                           note'[handler'[j].row].channel = "PUSH"
                      /\ handler'[j].at = "note" =>
                           \/ note'[handler'[j].row].channel = "PUSH"
                           \/ handler'[j].row \in accepted
                      /\ \A i \in Handler \ {j} :
                           handler'[i].at # "idle" /\ handler'[i].row = handler'[j].row
                             => handled'[handler'[j].row] > 1
    BY DEF Places, Serves
  <2>1. CASE j = h
    BY <1>1, <1>2, <1>3, <1>5, <1>8, <2>1 DEF Serves
  <2>2. CASE j # h
    <3>1. handler'[j] = handler[j] /\ handler[j].row \in Note /\ handled[handler[j].row] \in Nat
      BY <1>5, <2>2, ServesTypes DEF DeliveryInv, Delivery!TypeOK
    <3>2. CASE handler[j].row = n
      BY <1>1, <1>3, <1>5, <1>8, <1>9, <2>2, <3>1, <3>2 DEF DeliveryInv, Places, Serves
    <3>3. CASE handler[j].row # n
      BY <1>3, <1>5, <2>2, <3>1, <3>3 DEF DeliveryInv, Places, Serves
    <3> QED
      BY <3>2, <3>3
  <2> QED
    BY <2>1, <2>2
<1>11. Outcomes'
  <2> SUFFICES ASSUME NEW m \in Note, note'[m] # None
               PROVE  /\ m \in accepted => note'[m].channel = "EMAIL"
                      /\ note'[m].status = "SENT" /\ note'[m].channel = "EMAIL" =>
                           m \in accepted
                      /\ note'[m].status = "PENDING" /\ m \in accepted => m \in unsure \/
                           \E j \in Handler : handler'[j].at # "idle" /\ handler'[j].row = m
    BY DEF Outcomes, Serves
  <2>1. CASE m = n
    BY <1>2, <1>3, <1>5, <1>9, <2>1
  <2>2. CASE m # n
    <3>1. \A j \in Handler : Serves(j, m) =>
            handler'[j].at # "idle" /\ handler'[j].row = m
      BY <1>5 DEF Serves
    <3> QED
      BY <1>5, <2>2, <3>1 DEF DeliveryInv, Outcomes
  <2> QED
    BY <2>1, <2>2
<1>12. HandledOnce'
  <2> SUFFICES ASSUME NEW m \in Note, note'[m] # None, handled'[m] <= 1
               PROVE  /\ note'[m].status = "FAILED" =>
                           note'[m].reason /\ (m \notin accepted \/ m \in unsure)
                      /\ m \notin sent \/ m \notin failed
                      /\ \A j \in Handler : handler'[j].at # "idle" /\ handler'[j].row = m =>
                           /\ note'[m].status # "FAILED" /\ m \notin sent /\ m \notin failed
                           /\ handler'[j].at # "note" => m \notin accepted \/ m \in unsure
    BY DEF HandledOnce, Serves
  <2>1. CASE m = n
    BY <1>1, <1>5, <1>8, <2>1
  <2>2. CASE m # n
    BY <1>3, <1>5, <2>2 DEF DeliveryInv, HandledOnce, Serves
  <2> QED
    BY <2>1, <2>2
<1> QED
  BY <1>6, <1>7, <1>10, <1>11, <1>12 DEF DeliveryInv

LEMMA TakeNamedKeeps ==
  ASSUME DeliveryInv, NEW h \in Handler, NEW n \in Note, Delivery!TakeNamed(h, n)
  PROVE  DeliveryInv'
<1>1. /\ handler[h].at = "idle" /\ queued[n] > 0 /\ queued' = [queued EXCEPT ![n] = @ - 1]
      /\ Delivery!Start(h, n, note[n])
      /\ UNCHANGED <<note, linkMail, sent, failed, accepted, unsure>>
  BY DEF Delivery!TakeNamed
<1>2. /\ MaxCopies \in Nat /\ handled[n] \in Nat /\ queued[n] \in 0 .. MaxCopies
      /\ note \in [Note -> Delivery!Notification \cup {None}] /\ linkMail \in 0 .. MaxCopies
  BY HostedAssumption DEF Delivery!RetriesAssumption, DeliveryInv, Delivery!TypeOK
<1>3. note[n] # None /\ note[n] \in Delivery!Notification
  BY <1>1, <1>2 DEF DeliveryInv, Copies
<1>4. /\ queued' \in [Note -> 0 .. MaxCopies] /\ queued'[n] = queued[n] - 1
      /\ \A m \in Note \ {n} : queued'[m] = queued[m]
  BY <1>1, <1>2 DEF DeliveryInv, Delivery!TypeOK
<1>5. handled[n] + queued'[n] <= MaxCopies
  BY <1>1, <1>2, <1>4 DEF DeliveryInv, Copies
<1> QED
  BY <1>1, <1>2, <1>3, <1>4, <1>5, StartKeeps

LEMMA TakeLinkKeeps ==
  ASSUME DeliveryInv, NEW h \in Handler, Delivery!TakeLink(h)
  PROVE  DeliveryInv'
<1>1. /\ handler[h].at = "idle" /\ linkMail > 0 /\ linkMail' = linkMail - 1
      /\ UNCHANGED <<queued, sent, failed, accepted, unsure>>
  BY DEF Delivery!TakeLink
<1>2. /\ MaxCopies \in Nat /\ linkMail' \in 0 .. MaxCopies /\ queued \in [Note -> 0 .. MaxCopies]
      /\ note \in [Note -> Delivery!Notification \cup {None}]
  BY <1>1, HostedAssumption DEF Delivery!RetriesAssumption, DeliveryInv, Delivery!TypeOK
<1>3. ASSUME NEW n \in Delivery!Unused, NEW channel \in {"EMAIL", "SMS"},
             note' = [note EXCEPT ![n] = Delivery!Blank(channel, TRUE)],
             Delivery!Start(h, n, Delivery!Blank(channel, TRUE))
      PROVE  DeliveryInv'
  <2> DEFINE r == Delivery!Blank(channel, TRUE)
  <2>1. r \in Delivery!Notification /\ r.status = "PENDING"
    BY DEF Delivery!Blank, Delivery!Notification, Delivery!Channel
  <2>2. note' = [note EXCEPT ![n] = r] /\ Delivery!Start(h, n, r)
    BY <1>3
  <2> HIDE DEF r
  <2>3. n \in Note /\ note[n] = None /\ handled[n] = 0 /\ queued[n] = 0
    BY DEF Delivery!Unused, DeliveryInv, Copies
  <2>4. /\ note' \in [Note -> Delivery!Notification \cup {None}] /\ note'[n] = r /\ r # None
        /\ \A m \in Note \ {n} : note'[m] = note[m]
    BY <2>1, <2>2, <2>3, RowWritten
  <2>5. handled[n] + queued'[n] <= MaxCopies
    BY <1>1, <1>2, <2>3
  <2> QED
    BY <1>1, <1>2, <2>1, <2>2, <2>3, <2>4, <2>5, StartKeeps
<1>4. CASE UNCHANGED <<note, handler, handled>>
  BY <1>1, <1>2, <1>4
     DEF DeliveryInv, Delivery!TypeOK, Copies, Places, Outcomes, HandledOnce, Serves
<1> QED
  BY <1>3, <1>4 DEF Delivery!TakeLink

LEMMA DeliveryInvStep ==
  ASSUME DeliveryInv, [Delivery!Next]_(Delivery!noteVars)
  PROVE  DeliveryInv'
<1>1. CASE Delivery!SendLink
  <2>1. MaxCopies \in Nat
    BY HostedAssumption DEF Delivery!RetriesAssumption
  <2> QED
    BY <1>1, <2>1
       DEF Delivery!SendLink, DeliveryInv, Delivery!TypeOK, Copies, Places, Outcomes,
           HandledOnce, Serves
<1>2. CASE Delivery!Crash
  <2>1. /\ handler' = [h \in Handler |-> Delivery!Idle]
        /\ unsure' = unsure \cup {handler[h].row :
                                  h \in {k \in Handler : handler[k].at # "idle"}}
        /\ UNCHANGED <<note, queued, linkMail, sent, failed, handled, accepted>>
    BY <1>2 DEF Delivery!Crash
  <2>2. /\ \A h \in Handler : handler'[h] = Delivery!Idle /\ handler'[h].at = "idle"
        /\ handler' \in [Handler -> Delivery!Work \cup {Delivery!Idle}]
    BY <2>1 DEF Delivery!Idle
  <2>3. /\ unsure \subseteq unsure' /\ unsure' \subseteq Note
        /\ \A h \in Handler, n \in Note : Serves(h, n) => n \in unsure'
    BY <2>1, ServesTypes DEF Serves, DeliveryInv, Delivery!TypeOK
  <2>4. Delivery!TypeOK'
    BY <2>1, <2>2, <2>3 DEF DeliveryInv, Delivery!TypeOK
  <2>5. Copies' /\ Places'
    BY <2>1, <2>2 DEF DeliveryInv, Copies, Places
  <2>6. Outcomes'
    BY <2>1, <2>3 DEF DeliveryInv, Outcomes
  <2>7. HandledOnce'
    BY <2>1, <2>2, <2>3 DEF DeliveryInv, HandledOnce, Serves
  <2> QED
    BY <2>4, <2>5, <2>6, <2>7 DEF DeliveryInv
<1>3. CASE UNCHANGED Delivery!noteVars
  BY <1>3
     DEF Delivery!noteVars, DeliveryInv, Delivery!TypeOK, Copies, Places, Outcomes,
         HandledOnce, Serves
<1> QED
  BY <1>1, <1>2, <1>3, SendKeeps, TakeNamedKeeps, TakeLinkKeeps, GoesKeep, TryMailKeeps,
     NoteSentKeeps, ReadMetadataKeeps, WriteLanguageKeeps, GiveUpKeeps, NoteFailedKeeps
     DEF Delivery!Next

\* The status of a row tells what became of it.
LEMMA DeliveryTells == DeliveryInv => Delivery!StatusTells
<1> SUFFICES ASSUME DeliveryInv, NEW n \in Note, note[n] # None
             PROVE  /\ note[n].status = "SENT" /\ note[n].channel = "EMAIL" => n \in accepted
                    /\ note[n].status = "FAILED" /\ n \in accepted =>
                         handled[n] > 1 \/ n \in unsure
                    /\ note[n].status = "PENDING" /\ n \in accepted =>
                         Delivery!InHand(n) \/ n \in unsure
                    /\ note[n].status = "FAILED" /\ ~note[n].reason => handled[n] > 1
                    /\ n \in sent \cap failed => handled[n] > 1
  BY DEF Delivery!StatusTells
<1>1. handled[n] \in Nat
  BY HostedAssumption DEF Delivery!RetriesAssumption, DeliveryInv, Delivery!TypeOK
<1>2. handled[n] > 1 \/ handled[n] <= 1
  BY <1>1
<1>3. note[n].status = "PENDING" /\ n \in accepted => Delivery!InHand(n) \/ n \in unsure
  BY DEF DeliveryInv, Outcomes, Delivery!InHand, Serves
<1> QED
  BY <1>2, <1>3 DEF DeliveryInv, Outcomes, HandledOnce

-----------------------------------------------------------------------------
(* Monitoring *)

USE DEF Alerts!Lasted

Well == [database |-> "healthy", redis |-> "healthy"]

\* A rule about the metrics, whose condition these meet whatever the health is.
MeterHolds(r, m) == Alerts!EvaluateAlertCondition(r, m, Well)

\* The alerts are the triggers, and a condition that holds has ended just now.
AlertsCounted ==
  /\ triggered \in [Alerts!Rule -> Nat] /\ alerted = triggered
  /\ \A r \in Alerts!Rule : Alerts!Holds(r) => ended[r] = 0

\* What a check found, or will make of its metrics, held since it began.
FoundSince ==
  \A c \in checks : \A r \in Alerts!Rule :
    (IF c.next = 0 THEN MeterHolds(r, c.metrics) ELSE r \in c.seen) => ended[r] <= c.begun

\* A check has waited for its health and for the alerts it has sent, no longer.
BegunSince ==
  \A c \in checks :
    c.begun <= c.waited + (IF c.next = 0 THEN 0 ELSE Alerts!Lasted(c.next - 1))

AlertsInv ==
  /\ Alerts!TypeOK
  /\ AlertsCounted
  /\ FoundSince
  /\ BegunSince
  /\ ~wrong

LEMMA AlertConstants ==
  /\ Rules \in Seq({Alerts!DefaultRules[p] : p \in DOMAIN Alerts!DefaultRules})
  /\ Len(Rules) \in Nat /\ DOMAIN Rules = 1 .. Len(Rules)
  /\ \A i \in 1 .. Len(Rules) : Rules[i] \in Alerts!Rule
  /\ Cooldown \in [Alerts!Rule -> Nat \ {0}] /\ Slow \in Nat
<1>1. /\ Rules \in Seq({Alerts!DefaultRules[p] : p \in DOMAIN Alerts!DefaultRules})
      /\ Cooldown \in [Alerts!Rule -> Nat \ {0}] /\ Slow \in Nat
  BY HostedAssumption DEF Alerts!MonitoringAssumption
<1>2. Len(Rules) \in Nat /\ DOMAIN Rules = 1 .. Len(Rules)
  BY <1>1
<1> QED
  BY <1>1, <1>2 DEF Alerts!Rule

LEMMA RuleNames ==
  ASSUME NEW r \in Alerts!Rule
  PROVE  r \in {"high_failure_rate", "queue_stalled", "high_memory_usage",
                "database_connection_issues", "redis_connection_issues", "high_error_rate"}
<1>1. PICK i \in 1 .. Len(Rules) : r = Rules[i]
  BY AlertConstants DEF Alerts!Rule
<1>2. Rules[i] \in {Alerts!DefaultRules[p] : p \in DOMAIN Alerts!DefaultRules}
  BY <1>1, AlertConstants
<1>3. PICK p \in DOMAIN Alerts!DefaultRules : r = Alerts!DefaultRules[p]
  BY <1>1, <1>2
<1>4. p \in 1 .. 6
  BY <1>3 DEF Alerts!DefaultRules
<1> QED
  BY <1>3, <1>4 DEF Alerts!DefaultRules

\* A condition is about the metrics or about the health.
LEMMA MetricsOrHealth ==
  ASSUME NEW r \in Alerts!Rule, NEW m, NEW w,
         Alerts!EvaluateAlertCondition(r, m, Alerts!GetHealthStatus(w))
  PROVE  MeterHolds(r, m) \/ Alerts!HoldsIn(r, w)
<1> USE DEF Alerts!EvaluateAlertCondition, MeterHolds, Alerts!HoldsIn
<1>1. CASE r = "high_failure_rate"
  BY <1>1
<1>2. CASE r = "queue_stalled"
  BY <1>2
<1>3. CASE r = "high_memory_usage"
  BY <1>3
<1>4. CASE r = "database_connection_issues"
  BY <1>4
<1>5. CASE r = "redis_connection_issues"
  BY <1>5
<1>6. CASE r = "high_error_rate"
  BY <1>6
<1> QED
  BY <1>1, <1>2, <1>3, <1>4, <1>5, <1>6, RuleNames

LEMMA MetersHold ==
  ASSUME NEW r \in Alerts!Rule, NEW w, MeterHolds(r, Alerts!MetricsOf(w))
  PROVE  Alerts!HoldsIn(r, w)
<1> USE DEF Alerts!EvaluateAlertCondition, MeterHolds, Alerts!HoldsIn, Well
<1>1. CASE r = "high_failure_rate"
  BY <1>1
<1>2. CASE r = "queue_stalled"
  BY <1>2
<1>3. CASE r = "high_memory_usage"
  BY <1>3
<1>4. CASE r = "database_connection_issues"
  BY <1>4
<1>5. CASE r = "redis_connection_issues"
  BY <1>5
<1>6. CASE r = "high_error_rate"
  BY <1>6
<1> QED
  BY <1>1, <1>2, <1>3, <1>4, <1>5, <1>6, RuleNames

LEMMA Longer ==
  ASSUME NEW i \in Nat, NEW j \in Nat, i <= j
  PROVE  /\ i * Slow \in Nat /\ i * Slow <= j * Slow
         /\ (i + 1) * Slow = i * Slow + Slow
<1>1. Slow \in Nat
  BY AlertConstants
<1>2. PICK d \in Nat : j = i + d
  <2>1. j - i \in Nat /\ j = i + (j - i)
    OBVIOUS
  <2> QED
    BY <2>1
<1>3. i * Slow \in Nat /\ d * Slow \in Nat
  BY <1>1
<1>4. (i + d) * Slow = i * Slow + d * Slow
  BY <1>1
<1>5. (i + 1) * Slow = i * Slow + Slow
  BY <1>1
<1> QED
  BY <1>2, <1>3, <1>4, <1>5

LEMMA OldEnough == Alerts!TooOld \in Nat
<1>1. Len(Rules) * Slow \in Nat
  BY AlertConstants, Longer
<1> QED
  BY <1>1 DEF Alerts!TooOld

LEMMA ChecksTyped ==
  ASSUME Alerts!TypeOK, NEW c \in checks
  PROVE  /\ c.next \in 0 .. Len(Rules) + 1 /\ c.begun \in Nat /\ c.waited \in 0 .. Slow
         /\ c.metrics \in {Alerts!MetricsOf(w) : w \in World}
         /\ c.seen \subseteq Alerts!Rule
         /\ c = [next |-> c.next, metrics |-> c.metrics, seen |-> c.seen,
                 waited |-> c.waited, begun |-> c.begun]
BY DEF Alerts!TypeOK, Alerts!Check

LEMMA AlertsInvInit == Alerts!Init => AlertsInv
<1> SUFFICES ASSUME Alerts!Init PROVE AlertsInv
  OBVIOUS
<1>1. \A r \in Alerts!Rule : triggered[r] \in Alerts!Ages(r) /\ alerted[r] \in Alerts!Ages(r)
  BY AlertConstants DEF Alerts!Init, Alerts!Ages
<1>4. ended \in [Alerts!Rule -> 0 .. Alerts!TooOld]
  BY OldEnough DEF Alerts!Init
<1>2. Alerts!TypeOK
  BY <1>1, <1>4 DEF Alerts!Init, Alerts!TypeOK
<1>3. AlertsCounted
  BY AlertConstants DEF Alerts!Init, AlertsCounted
<1> QED
  BY <1>2, <1>3 DEF Alerts!Init, AlertsInv, FoundSince, BegunSince

\* What is watched turns.
LEMMA TurnKeeps ==
  ASSUME AlertsInv, NEW w \in World, Alerts!Turn(w)
  PROVE  AlertsInv'
<1> USE DEF AlertsInv
<1>1. /\ world' = w
      /\ \A r \in Alerts!Rule : ended'[r] = 0 \/ ended'[r] = ended[r]
      /\ \A r \in Alerts!Rule : Alerts!HoldsIn(r, w) => ended'[r] = 0
      /\ DOMAIN ended' = Alerts!Rule /\ ended' = [r \in Alerts!Rule |-> ended'[r]]
      /\ UNCHANGED <<enabled, triggered, checks, alerted, wrong>>
  BY DEF Alerts!Turn
<1>2. Alerts!TooOld \in Nat /\ ended \in [Alerts!Rule -> 0 .. Alerts!TooOld]
  BY OldEnough DEF Alerts!TypeOK
<1>3. \A r \in Alerts!Rule : ended'[r] \in 0 .. Alerts!TooOld /\ ended'[r] <= ended[r]
  BY <1>1, <1>2
<1>4. ended' \in [Alerts!Rule -> 0 .. Alerts!TooOld]
  BY <1>1, <1>3
<1>5. Alerts!TypeOK'
  BY <1>1, <1>4 DEF Alerts!TypeOK
<1>6. AlertsCounted'
  BY <1>1 DEF AlertsCounted, Alerts!Holds
<1>7. FoundSince'
  <2> SUFFICES ASSUME NEW c \in checks, NEW r \in Alerts!Rule,
                      IF c.next = 0 THEN MeterHolds(r, c.metrics) ELSE r \in c.seen
               PROVE  ended'[r] <= c.begun
    BY <1>1 DEF FoundSince
  <2>1. ended[r] <= c.begun
    BY DEF FoundSince
  <2>2. c.begun \in Int /\ ended[r] \in Int
    BY <1>2, ChecksTyped DEF Alerts!TypeOK
  <2> QED
    BY <1>3, <2>1, <2>2
<1> QED
  BY <1>1, <1>5, <1>6, <1>7 DEF BegunSince

LEMMA UpdateKeeps ==
  ASSUME AlertsInv, NEW r \in Alerts!Rule, Alerts!UpdateAlertRule(r)
  PROVE  AlertsInv'
BY DEF Alerts!UpdateAlertRule, AlertsInv, Alerts!TypeOK, AlertsCounted, Alerts!Holds,
       FoundSince, BegunSince

\* What is left to wait for, counted with the alerts a check has sent.
LEMMA Waits ==
  ASSUME AlertsInv, NEW c \in checks, c.waited < Slow
  PROVE  c.begun + 1 \in 0 .. Alerts!Lasted(Len(Rules) + 1)
<1>1. /\ c.next \in 0 .. Len(Rules) + 1 /\ c.begun \in Nat /\ c.waited \in 0 .. Slow
      /\ Slow \in Nat /\ Len(Rules) \in Nat
  BY ChecksTyped, AlertConstants DEF AlertsInv
<1>2. CASE c.next = 0
  <2>1. /\ 1 * Slow \in Nat /\ 1 * Slow <= (Len(Rules) + 1) * Slow /\ 1 * Slow = Slow
        /\ (Len(Rules) + 1) * Slow \in Nat
    BY <1>1, Longer
  <2> QED
    BY <1>1, <1>2, <2>1 DEF AlertsInv, BegunSince
<1>3. CASE c.next # 0
  <2> DEFINE before == c.next - 1
  <2>1. before \in Nat /\ before <= Len(Rules) /\ c.begun <= c.waited + before * Slow
    BY <1>1, <1>3 DEF AlertsInv, BegunSince
  <2>2. before * Slow \in Nat /\ before * Slow <= Len(Rules) * Slow
    BY <1>1, <2>1, Longer
  <2>3. /\ Len(Rules) * Slow \in Nat
        /\ (Len(Rules) + 1) * Slow = Len(Rules) * Slow + Slow
    BY <1>1, Longer
  <2> HIDE DEF before
  <2> QED
    BY <1>1, <2>1, <2>2, <2>3
<1> QED
  BY <1>2, <1>3

LEMMA OlderBounds ==
  ASSUME NEW most \in Nat, NEW age \in 0 .. most
  PROVE  Alerts!Older(age, most) \in 0 .. most /\ Alerts!Older(age, most) <= age + 1
BY DEF Alerts!Older

LEMMA MinuteKeeps ==
  ASSUME AlertsInv, Alerts!EveryMinute
  PROVE  AlertsInv'
<1> USE DEF AlertsInv
<1> DEFINE new == [next |-> 0, metrics |-> Alerts!MetricsOf(world), seen |-> {},
                   waited |-> 0, begun |-> 0]
           later(c) == [c EXCEPT !.waited = @ + 1, !.begun = @ + 1]
<1>1. /\ \A c \in checks : c.waited < Slow
      /\ checks' = {later(c) : c \in checks} \cup {new}
      /\ \A r \in Alerts!Rule : triggered'[r] = Alerts!Older(triggered[r], Cooldown[r])
      /\ triggered' = [r \in Alerts!Rule |-> Alerts!Older(triggered[r], Cooldown[r])]
      /\ alerted' = [r \in Alerts!Rule |-> Alerts!Older(alerted[r], Cooldown[r])]
      /\ ended' = [r \in Alerts!Rule |->
                    IF Alerts!Holds(r) THEN 0 ELSE Alerts!Older(ended[r], Alerts!TooOld)]
      /\ UNCHANGED <<world, enabled, wrong>>
  BY DEF Alerts!EveryMinute, Alerts!CollectMetrics
<1>2. \A r \in Alerts!Rule : Alerts!Holds(r) => ended'[r] = 0
  BY <1>1
<1>3. /\ ended' \in [Alerts!Rule -> 0 .. Alerts!TooOld]
      /\ \A r \in Alerts!Rule : ended'[r] <= ended[r] + 1
  <2> SUFFICES ASSUME NEW r \in Alerts!Rule
               PROVE  ended'[r] \in 0 .. Alerts!TooOld /\ ended'[r] <= ended[r] + 1
    BY <1>1
  <2>1. ended[r] \in 0 .. Alerts!TooOld /\ Alerts!TooOld \in Nat
    BY OldEnough DEF Alerts!TypeOK
  <2>2. /\ Alerts!Holds(r) => ended'[r] = 0
        /\ ~Alerts!Holds(r) => ended'[r] = Alerts!Older(ended[r], Alerts!TooOld)
    BY <1>1
  <2>3. /\ Alerts!Older(ended[r], Alerts!TooOld) \in 0 .. Alerts!TooOld
        /\ Alerts!Older(ended[r], Alerts!TooOld) <= ended[r] + 1
    BY <2>1, OlderBounds
  <2> HIDE DEF Alerts!Older
  <2> QED
    BY <2>1, <2>2, <2>3
<1>4. \A r \in Alerts!Rule : triggered'[r] \in Alerts!Ages(r) /\ triggered'[r] \in Nat
  <2> SUFFICES ASSUME NEW r \in Alerts!Rule
               PROVE  triggered'[r] \in Alerts!Ages(r) /\ triggered'[r] \in Nat
    OBVIOUS
  <2>1. Cooldown[r] \in Nat /\ triggered[r] \in 0 .. Cooldown[r]
    BY AlertConstants DEF Alerts!TypeOK, Alerts!Ages
  <2>2. triggered'[r] = Alerts!Older(triggered[r], Cooldown[r])
    BY <1>1
  <2> QED
    BY <2>1, <2>2, OlderBounds DEF Alerts!Ages
<1>5. alerted' = triggered' /\ triggered' \in [Alerts!Rule -> Nat]
  BY <1>1, <1>4 DEF AlertsCounted
<1>6. new \in Alerts!Check
  <2>1. (Len(Rules) + 1) * Slow \in Nat /\ Len(Rules) \in Nat /\ Slow \in Nat
    BY AlertConstants, Longer
  <2>2. Alerts!MetricsOf(world) \in {Alerts!MetricsOf(w) : w \in World}
    BY DEF Alerts!TypeOK
  <2> QED
    BY <2>1, <2>2 DEF Alerts!Check
<1>7. ASSUME NEW c \in checks
      PROVE  /\ later(c) \in Alerts!Check /\ later(c).next = c.next
             /\ later(c).seen = c.seen /\ later(c).metrics = c.metrics
             /\ later(c).waited = c.waited + 1 /\ later(c).begun = c.begun + 1
  <2>1. c \in Alerts!Check /\ c.waited + 1 \in 0 .. Slow
    <3>1. c.waited \in 0 .. Slow /\ c.waited < Slow /\ Slow \in Nat
      BY <1>1, ChecksTyped, AlertConstants
    <3>2. checks \subseteq Alerts!Check
      BY DEF Alerts!TypeOK
    <3> QED
      BY <3>1, <3>2
  <2>2. c.begun + 1 \in 0 .. Alerts!Lasted(Len(Rules) + 1)
    BY <1>1, Waits
  <2> HIDE DEF Alerts!Lasted
  <2> QED
    BY <2>1, <2>2 DEF Alerts!Check
<1> HIDE DEF later, new
<1>8. Alerts!TypeOK'
  <2>1. checks' \subseteq Alerts!Check
    BY <1>1, <1>6, <1>7
  <2> QED
    BY <1>1, <1>3, <1>4, <1>5, <2>1 DEF Alerts!TypeOK
<1>9. AlertsCounted'
  BY <1>1, <1>2, <1>5 DEF AlertsCounted, Alerts!Holds
<1>10. FoundSince' /\ BegunSince'
  <2> SUFFICES ASSUME NEW d \in checks'
               PROVE  /\ d.begun <= d.waited + (IF d.next = 0 THEN 0 ELSE Alerts!Lasted(d.next - 1))
                      /\ \A r \in Alerts!Rule :
                           (IF d.next = 0 THEN MeterHolds(r, d.metrics) ELSE r \in d.seen)
                             => ended'[r] <= d.begun
    BY DEF FoundSince, BegunSince
  <2>1. CASE d = new
    <3>1. d.next = 0 /\ d.metrics = Alerts!MetricsOf(world) /\ d.begun = 0 /\ d.waited = 0
      BY <2>1 DEF new
    <3>2. \A r \in Alerts!Rule : MeterHolds(r, d.metrics) => ended'[r] = 0
      BY <1>2, <3>1, MetersHold DEF Alerts!Holds
    <3> QED
      BY <3>1, <3>2
  <2>2. ASSUME NEW c \in checks, d = later(c)
        PROVE  /\ d.begun <= d.waited + (IF d.next = 0 THEN 0 ELSE Alerts!Lasted(d.next - 1))
               /\ \A r \in Alerts!Rule :
                    (IF d.next = 0 THEN MeterHolds(r, d.metrics) ELSE r \in d.seen)
                      => ended'[r] <= d.begun
    <3>1. /\ d.next = c.next /\ d.seen = c.seen /\ d.metrics = c.metrics
          /\ d.waited = c.waited + 1 /\ d.begun = c.begun + 1
      BY <1>7, <2>2
    <3>2. /\ c.next \in 0 .. Len(Rules) + 1 /\ c.begun \in Nat /\ c.waited \in Nat
          /\ Len(Rules) \in Nat
      BY ChecksTyped, AlertConstants
    <3>3. c.begun <= c.waited + (IF c.next = 0 THEN 0 ELSE Alerts!Lasted(c.next - 1))
      BY DEF BegunSince
    <3>4. ASSUME c.next # 0 PROVE (c.next - 1) * Slow \in Nat
      <4>1. c.next - 1 \in Nat /\ c.next - 1 <= c.next - 1
        BY <3>2, <3>4
      <4> QED
        BY <4>1, Longer
    <3>5. d.begun <= d.waited + (IF d.next = 0 THEN 0 ELSE Alerts!Lasted(d.next - 1))
      BY <3>1, <3>2, <3>3, <3>4
    <3>6. ASSUME NEW r \in Alerts!Rule,
                 IF d.next = 0 THEN MeterHolds(r, d.metrics) ELSE r \in d.seen
          PROVE  ended'[r] <= d.begun
      <4>1. ended[r] <= c.begun
        BY <3>1, <3>6 DEF FoundSince
      <4>2. ended[r] \in Int /\ ended'[r] \in Int
        BY <1>3, OldEnough DEF Alerts!TypeOK
      <4> QED
        BY <1>3, <3>1, <3>2, <4>1, <4>2
    <3> QED
      BY <3>5, <3>6
  <2> QED
    BY <1>1, <2>1, <2>2
<1> QED
  BY <1>1, <1>8, <1>9, <1>10

\* A check judges the rule at i, and waits for its alert, or ends.
LEMMA JudgeKeeps ==
  ASSUME AlertsInv, NEW c \in checks, NEW from \in 1 .. Len(Rules) + 1,
         NEW seen \in SUBSET Alerts!Rule, Alerts!Judge(c, from, seen),
         \A r \in seen : ended[r] <= c.begun,
         c.begun <= from * Slow,
         UNCHANGED <<world, enabled, ended>>
  PROVE  AlertsInv'
<1> USE DEF AlertsInv
<1>1. CASE Alerts!Due(from, seen) = {}
  <2>1. checks' = checks \ {c} /\ UNCHANGED <<triggered, alerted, wrong>>
    BY <1>1 DEF Alerts!Judge
  <2>2. Alerts!TypeOK'
    BY <2>1 DEF Alerts!TypeOK
  <2> QED
    BY <2>1, <2>2 DEF AlertsCounted, Alerts!Holds, FoundSince, BegunSince
<1>2. CASE Alerts!Due(from, seen) # {}
  <2>1. PICK i \in Alerts!Due(from, seen) :
          /\ checks' = (checks \ {c}) \cup
               {[c EXCEPT !.next = i + 1, !.seen = seen, !.waited = 0]}
          /\ triggered' = [triggered EXCEPT ![Rules[i]] = 0]
          /\ Alerts!Alert(i)
    BY <1>2 DEF Alerts!Judge
  <2> DEFINE d == [c EXCEPT !.next = i + 1, !.seen = seen, !.waited = 0]
             q == Rules[i]
  <2>2. /\ i \in Nat /\ i >= from /\ i <= Len(Rules) /\ i >= 1 /\ Len(Rules) \in Nat
        /\ q \in Alerts!Rule /\ q \in seen /\ ~Alerts!Resting(q)
    BY AlertConstants DEF Alerts!Due
  <2>3. c.begun <= i * Slow /\ i * Slow \in Nat
    <3>1. /\ from * Slow \in Nat /\ from * Slow <= i * Slow /\ i * Slow \in Nat
      BY <2>2, Longer
    <3> QED
      BY <3>1, ChecksTyped
  <2>4. alerted' = [alerted EXCEPT ![q] = 0] /\ triggered' = [triggered EXCEPT ![q] = 0]
    BY <2>1 DEF Alerts!Alert
  <2>5. ~wrong'
    <3>1. Cooldown[q] \in Nat /\ triggered[q] \in Nat /\ alerted[q] = triggered[q]
      BY <2>2, AlertConstants DEF AlertsCounted
    <3>2. ~(alerted[q] < Cooldown[q])
      BY <2>2, <3>1 DEF Alerts!Resting
    <3>3. ended[q] <= c.begun /\ ended[q] \in Int /\ c.begun \in Int
      BY <2>2, ChecksTyped, OldEnough DEF Alerts!TypeOK
    <3>4. ~(ended[q] > i * Slow)
      BY <2>3, <3>3
    <3> QED
      BY <2>1, <3>2, <3>4 DEF Alerts!Alert
  <2>6. /\ d \in Alerts!Check /\ d.next = i + 1 /\ d.seen = seen /\ d.waited = 0
        /\ d.begun = c.begun
    <3>1. c \in Alerts!Check
      BY DEF Alerts!TypeOK
    <3>2. i + 1 \in 0 .. Len(Rules) + 1 /\ 0 \in 0 .. Slow
      BY <2>2, AlertConstants
    <3> HIDE DEF Alerts!Lasted
    <3> QED
      BY <3>1, <3>2 DEF Alerts!Check
  <2> HIDE DEF d, q
  <2>7. checks' = (checks \ {c}) \cup {d}
    BY <2>1 DEF d
  <2>8. \A r \in Alerts!Rule :
          /\ triggered'[r] \in Alerts!Ages(r) /\ triggered'[r] \in Nat
          /\ alerted'[r] = triggered'[r]
    <3> SUFFICES ASSUME NEW r \in Alerts!Rule
                 PROVE  /\ triggered'[r] \in Alerts!Ages(r) /\ triggered'[r] \in Nat
                        /\ alerted'[r] = triggered'[r]
      OBVIOUS
    <3>1. /\ triggered[r] \in Alerts!Ages(r) /\ triggered[r] \in Nat
          /\ triggered \in [Alerts!Rule -> Nat] /\ alerted = triggered
          /\ Cooldown[r] \in Nat
      BY AlertConstants DEF Alerts!TypeOK, AlertsCounted
    <3>2. 0 \in Alerts!Ages(r)
      BY <3>1 DEF Alerts!Ages
    <3> QED
      BY <2>4, <3>1, <3>2
  <2>9. triggered' \in [Alerts!Rule -> Nat] /\ alerted' = triggered'
    BY <2>2, <2>4 DEF AlertsCounted
  <2>10. Alerts!TypeOK'
    <3>1. checks' \subseteq Alerts!Check
      BY <2>6, <2>7 DEF Alerts!TypeOK
    <3>2. wrong' \in BOOLEAN
      BY <2>1 DEF Alerts!Alert, Alerts!TypeOK
    <3> QED
      BY <2>8, <2>9, <3>1, <3>2 DEF Alerts!TypeOK
  <2>11. AlertsCounted'
    BY <2>9 DEF AlertsCounted, Alerts!Holds
  <2>12. FoundSince' /\ BegunSince'
    <3>1. i + 1 # 0 /\ (i + 1) - 1 = i
      BY <2>2
    <3>2. \A r \in Alerts!Rule : r \in d.seen => ended'[r] <= d.begun
      BY <2>6
    <3>3. d.begun <= d.waited + Alerts!Lasted(d.next - 1)
      BY <2>3, <2>6, <3>1
    <3>4. d.next # 0
      BY <2>6, <3>1
    <3> HIDE DEF Alerts!Lasted
    <3> QED
      BY <2>7, <3>2, <3>3, <3>4 DEF FoundSince, BegunSince
  <2> QED
    BY <2>5, <2>10, <2>11, <2>12
<1> QED
  BY <1>1, <1>2

LEMMA AlertsInvStep ==
  ASSUME AlertsInv, [Alerts!Next]_(Alerts!monitoringVars)
  PROVE  AlertsInv'
<1>1. ASSUME NEW c \in checks, Alerts!HealthKnown(c) PROVE AlertsInv'
  <2> DEFINE seen == {r \in Alerts!Rule :
                 Alerts!EvaluateAlertCondition(r, c.metrics, Alerts!GetHealthStatus(world))}
  <2>1. /\ c.next = 0 /\ Alerts!Judge(c, 1, seen) /\ UNCHANGED <<world, enabled, ended>>
        /\ seen \in SUBSET Alerts!Rule
    BY <1>1 DEF Alerts!HealthKnown
  <2>2. /\ c.begun \in Nat /\ c.waited \in 0 .. Slow /\ Slow \in Nat /\ Len(Rules) \in Nat
    BY ChecksTyped, AlertConstants DEF AlertsInv
  <2>3. \A r \in seen : ended[r] <= c.begun
    <3> SUFFICES ASSUME NEW r \in seen PROVE ended[r] <= c.begun
      OBVIOUS
    <3>1. r \in Alerts!Rule /\ (MeterHolds(r, c.metrics) \/ Alerts!Holds(r))
      BY MetricsOrHealth DEF Alerts!Holds
    <3>2. CASE MeterHolds(r, c.metrics)
      BY <2>1, <3>1, <3>2 DEF AlertsInv, FoundSince
    <3>3. CASE Alerts!Holds(r)
      BY <2>2, <3>1, <3>3 DEF AlertsInv, AlertsCounted
    <3> QED
      BY <3>1, <3>2, <3>3
  <2>4. c.begun <= 1 * Slow
    BY <2>1, <2>2 DEF AlertsInv, BegunSince
  <2>5. 1 \in 1 .. Len(Rules) + 1
    BY <2>2
  <2> HIDE DEF seen
  <2> QED
    BY <2>1, <2>3, <2>4, <2>5, JudgeKeeps
<1>2. ASSUME NEW c \in checks, Alerts!AlertSent(c) PROVE AlertsInv'
  <2>1. /\ c.next > 0 /\ Alerts!Judge(c, c.next, c.seen) /\ UNCHANGED <<world, enabled, ended>>
    BY <1>2 DEF Alerts!AlertSent
  <2>2. /\ c.next \in 0 .. Len(Rules) + 1 /\ c.begun \in Nat /\ c.waited \in 0 .. Slow
        /\ Slow \in Nat /\ Len(Rules) \in Nat /\ c.seen \in SUBSET Alerts!Rule
    BY ChecksTyped, AlertConstants DEF AlertsInv
  <2>3. \A r \in c.seen : ended[r] <= c.begun
    BY <2>1, <2>2 DEF AlertsInv, FoundSince
  <2> DEFINE before == c.next - 1
  <2>4. /\ before \in Nat /\ before + 1 = c.next /\ c.begun <= c.waited + before * Slow
    <3>1. c.begun <= c.waited + (IF c.next = 0 THEN 0 ELSE before * Slow)
      BY DEF AlertsInv, BegunSince
    <3> QED
      BY <2>1, <2>2, <3>1
  <2>5. before * Slow \in Nat /\ (before + 1) * Slow = before * Slow + Slow
    BY <2>4, Longer
  <2>6. c.begun <= (before + 1) * Slow
    <3> HIDE DEF before
    <3> QED
      BY <2>2, <2>4, <2>5
  <2>7. c.begun <= c.next * Slow /\ c.next \in 1 .. Len(Rules) + 1
    BY <2>1, <2>2, <2>4, <2>6
  <2> QED
    BY <2>1, <2>2, <2>3, <2>7, JudgeKeeps
<1>3. CASE Alerts!Going
  BY <1>1, <1>2, <1>3 DEF Alerts!Going, Alerts!HealthKnown, Alerts!AlertSent
<1>4. CASE UNCHANGED Alerts!monitoringVars
  BY <1>4
     DEF Alerts!monitoringVars, AlertsInv, Alerts!TypeOK, AlertsCounted, Alerts!Holds,
         FoundSince, BegunSince
<1> QED
  BY <1>3, <1>4, TurnKeeps, UpdateKeeps, MinuteKeeps DEF Alerts!Next

-----------------------------------------------------------------------------
(* The errors of the last day, in a history that keeps only so many *)

\* The least of some numbers: what stands for an induction in what follows.
LEMMA LeastNumber ==
  ASSUME NEW T \in SUBSET Nat, T # {}
  PROVE  \E n \in T : \A m \in T : n <= m
<1> DEFINE R == OpToRel(<, Nat)
<1>1. IsWellFoundedOn(R, Nat)
  BY NatLessThanWellFounded
<1>2. ASSUME NEW m \in Nat, NEW n \in Nat, m < n PROVE <<m, n>> \in R
  BY <1>2 DEF OpToRel
<1> HIDE DEF R
<1>3. PICK n \in T : \A m \in T : ~(<<m, n>> \in R)
  BY <1>1, WFMin
<1>4. ASSUME NEW m \in T PROVE n <= m
  <2>1. m \in Nat /\ n \in Nat
    OBVIOUS
  <2>2. ~(m < n)
    BY <2>1, <1>2, <1>3
  <2> QED
    BY <2>1, <2>2
<1> QED
  BY <1>4


\* Counted from the newest, the history and what happened are the same, as far
\* as both go.
EndsAgree ==
  \A j \in Nat : j < Len(errorHistory) /\ j < Len(happened) =>
    errorHistory[Len(errorHistory) - j] = happened[Len(happened) - j]

\* Only a full history has forgotten something of the window, and what it has
\* kept beyond is past the window.
Forgotten == Len(errorHistory) < Len(happened) => Len(errorHistory) = maxHistorySize
PastWindow ==
  \A i \in 1 .. Len(errorHistory) - Len(happened) : errorHistory[i].age = Window

\* Everything that happened is in the window, and the oldest comes first.
InWindow == \A i \in 1 .. Len(happened) : happened[i].age < Window
OldFirst ==
  \A i, k \in 1 .. Len(happened) : i <= k => happened[k].age <= happened[i].age

ErrorInv ==
  /\ Errors!TypeOK
  /\ EndsAgree /\ Forgotten /\ PastWindow /\ InWindow /\ OldFirst

\* The history holds more than it takes for an alert.
LEMMA ErrorNumbers ==
  /\ Window \in Nat \ {0} /\ Threshold \in Nat \ {0} /\ Recent \in Nat \ {0}
  /\ maxHistorySize \in Nat /\ MaxErrors \in Nat
  /\ Threshold < maxHistorySize /\ Recent <= maxHistorySize
BY HostedAssumption DEF Errors!ErrorReportsAssumption

LEMMA ErrorCounts == \A S : Errors!Cardinality(S) = Cardinality(S)
BY DEF Errors!Cardinality, Cardinality

LEMMA ReportTypes ==
  ASSUME NEW e \in Error
  PROVE  /\ Errors!CreateErrorReport(e) \in Errors!Report
         /\ Errors!CreateErrorReport(e).age = 0
<1>1. /\ e.code \in {"DATABASE_CONNECTION_ERROR", "INTERNAL_SERVER_ERROR",
                     "DATABASE_QUERY_ERROR", "JOB_NOT_FOUND", "NOT_FOUND"}
      /\ Window \in Nat \ {0}
  BY HostedAssumption DEF Errors!ErrorReportsAssumption
<1>2. Errors!SeverityOf(e.code) \in Errors!Severity
  BY <1>1 DEF Errors!SeverityOf, Errors!Severity
<1> QED
  BY <1>1, <1>2 DEF Errors!CreateErrorReport, Errors!Report, Errors!Severity

\* The newest n of a sequence, or all of it.
LEMMA NewestOf ==
  ASSUME NEW s \in Seq(Errors!Report), NEW n \in Nat
  PROVE  /\ Errors!Newest(s, n) \in Seq(Errors!Report)
         /\ Len(s) < n => Len(Errors!Newest(s, n)) = Len(s)
         /\ n <= Len(s) => Len(Errors!Newest(s, n)) = n
         /\ \A i \in 1 .. Len(Errors!Newest(s, n)) :
              Errors!Newest(s, n)[i] = s[Len(s) - Len(Errors!Newest(s, n)) + i]
<1>1. PICK l \in Nat : l = Len(s)
  <2>1. Len(s) \in Nat
    OBVIOUS
  <2> QED
    BY <2>1, Zenon
<1>2. PICK k \in Nat : k = IF Len(s) < n THEN Len(s) ELSE n
  BY <1>1
<1>3. PICK m \in Int : m = l - k + 1
  OBVIOUS
<1>4. k <= l /\ m >= 1 /\ l - m + 1 = k /\ m = Len(s) - k + 1
  BY <1>1, <1>2, <1>3
<1>5. \A i \in m .. l : s[i] \in Errors!Report
  BY <1>1, <1>4, ElementOfSeq
<1>6. Errors!Newest(s, n) = SubSeq(s, m, l)
  BY <1>1, <1>2, <1>4, Zenon DEF Errors!Newest
<1>7. /\ SubSeq(s, m, l) \in Seq(Errors!Report)
      /\ Len(SubSeq(s, m, l)) = IF m <= l THEN l - m + 1 ELSE 0
      /\ \A i \in 1 .. l - m + 1 : SubSeq(s, m, l)[i] = s[m + i - 1]
  BY <1>5, SubSeqProperties
<1>8. Len(SubSeq(s, m, l)) = k
  BY <1>4, <1>7
<1>9. ASSUME NEW i \in 1 .. k PROVE SubSeq(s, m, l)[i] = s[l - k + i]
  <2>1. m + i - 1 = l - k + i
    BY <1>3
  <2> QED
    BY <1>4, <1>7, <2>1
<1>10. (Len(s) < n => k = Len(s)) /\ (n <= Len(s) => k = n)
  BY <1>1, <1>2
<1>11. /\ Errors!Newest(s, n) \in Seq(Errors!Report) /\ Len(Errors!Newest(s, n)) = k
  BY <1>6, <1>7, <1>8
<1>12. \A i \in 1 .. k : Errors!Newest(s, n)[i] = s[Len(s) - k + i]
  BY <1>1, <1>6, <1>9, Zenon
<1> QED
  BY <1>10, <1>11, <1>12, Zenon

\* When the last n of a sequence are those in the window, they are what the
\* filter answers.
LEMMA RelevantEnd ==
  ASSUME NEW s \in Seq(Errors!Report), NEW n \in 0 .. Len(s),
         \A i \in 1 .. Len(s) : s[i].age < Window <=> i > Len(s) - n
  PROVE  Errors!Relevant(s) = [m \in 1 .. n |-> s[Len(s) - n + m]]
<1> DEFINE before == Len(s) - n
           W == Errors!Within(s)
<1>1. Len(s) \in Nat /\ before \in Nat /\ n \in Nat /\ DOMAIN s = 1 .. Len(s)
  OBVIOUS
<1>2. W = before + 1 .. before + n
  BY <1>1 DEF Errors!Within
<1> HIDE DEF W, before
<1>3. Cardinality(W) = n
  BY <1>1, <1>2, FS_Interval
<1>4. ASSUME NEW m \in 1 .. n
      PROVE  (CHOOSE i \in W : Cardinality({j \in W : j <= i}) = m) = before + m
  <2>1. ASSUME NEW i \in W
        PROVE  Cardinality({j \in W : j <= i}) = i - before
    <3>1. {j \in W : j <= i} = before + 1 .. i
      BY <1>1, <1>2
    <3>2. i \in Int /\ before + 1 \in Int /\ before + 1 <= i /\ i - (before + 1) + 1 = i - before
      BY <1>1, <1>2
    <3>3. Cardinality(before + 1 .. i) = IF before + 1 > i THEN 0 ELSE i - (before + 1) + 1
      BY <3>2, FS_Interval
    <3>4. (IF before + 1 > i THEN 0 ELSE i - (before + 1) + 1) = i - before
      BY <1>1, <3>2
    <3> QED
      BY <3>1, <3>3, <3>4, Zenon
  <2>2. before + m \in W
    BY <1>1, <1>2
  <2>3. \A i \in W : i - before = m <=> i = before + m
    BY <1>1, <1>2
  <2> QED
    BY <2>1, <2>2, <2>3
<1>5. Errors!Relevant(s) =
        [m \in 1 .. Cardinality(W) |-> s[CHOOSE i \in W : Cardinality({j \in W : j <= i}) = m]]
  BY Zenon DEF Errors!Relevant, W, Errors!Cardinality, Cardinality
<1>6. Errors!Relevant(s) = [m \in 1 .. n |-> s[before + m]]
  BY <1>3, <1>4, <1>5, Zenon
<1> QED
  BY <1>6 DEF before

\* In a history with the oldest first the window is an end of it.
LEMMA WindowEnd ==
  ASSUME NEW s \in Seq(Errors!Report),
         \A i, k \in 1 .. Len(s) : i <= k => s[k].age <= s[i].age
  PROVE  \E n \in 0 .. Len(s) :
           \A i \in 1 .. Len(s) : s[i].age < Window <=> i > Len(s) - n
<1> DEFINE T == {i \in 1 .. Len(s) : s[i].age < Window}
<1>1. Len(s) \in Nat /\ Window \in Nat
  BY ErrorNumbers
<1>2. \A i \in 1 .. Len(s) : s[i].age \in Nat
  <2>1. \A i \in 1 .. Len(s) : s[i] \in Errors!Report
    BY ElementOfSeq
  <2> QED
    BY <2>1, ErrorNumbers DEF Errors!Report
<1>3. CASE T = {}
  <2>1. 0 \in 0 .. Len(s) /\ \A i \in 1 .. Len(s) : ~(s[i].age < Window) /\ ~(i > Len(s) - 0)
    BY <1>1, <1>3
  <2> QED
    BY <2>1, Zenon
<1>4. CASE T # {}
  <2>1. T \in SUBSET Nat
    BY <1>1
  <2>2. PICK least \in T : \A m \in T : least <= m
    BY <2>1, <1>4, LeastNumber
  <2>3. least \in 1 .. Len(s) /\ s[least].age < Window
    BY <2>2
  <2>4. ASSUME NEW i \in 1 .. Len(s) PROVE s[i].age < Window <=> i >= least
    <3>1. s[i].age < Window => i >= least
      BY <2>2
    <3>2. i >= least => s[i].age <= s[least].age
      BY <2>3
    <3> QED
      BY <1>1, <1>2, <2>3, <3>1, <3>2
  <2>5. Len(s) - least + 1 \in 0 .. Len(s)
    BY <1>1, <2>3
  <2>6. \A i \in 1 .. Len(s) : i >= least <=> i > Len(s) - (Len(s) - least + 1)
    BY <1>1, <2>3
  <2> QED
    BY <2>4, <2>5, <2>6
<1> QED
  BY <1>3, <1>4

LEMMA ErrorInit == Errors!Init => ErrorInv
<1> SUFFICES ASSUME Errors!Init PROVE ErrorInv
  OBVIOUS
<1>1. errorHistory = <<>> /\ happened = <<>>
  BY DEF Errors!Init
<1> QED
  BY <1>1, ErrorNumbers
     DEF ErrorInv, Errors!TypeOK, EndsAgree, Forgotten, PastWindow, InWindow, OldFirst

\* What the history and the window are as sequences.
LEMMA ErrorLengths ==
  ASSUME ErrorInv
  PROVE  /\ errorHistory \in Seq(Errors!Report) /\ happened \in Seq(Errors!Report)
         /\ Len(errorHistory) \in Nat /\ Len(happened) \in Nat
         /\ Len(errorHistory) <= maxHistorySize /\ Len(happened) <= MaxErrors
         /\ DOMAIN errorHistory = 1 .. Len(errorHistory)
         /\ DOMAIN happened = 1 .. Len(happened)
         /\ \A i \in 1 .. Len(errorHistory) : errorHistory[i] \in Errors!Report
         /\ \A i \in 1 .. Len(happened) : happened[i] \in Errors!Report
<1>1. /\ errorHistory \in Seq(Errors!Report) /\ happened \in Seq(Errors!Report)
      /\ Len(errorHistory) <= maxHistorySize /\ Len(happened) <= MaxErrors
  BY DEF ErrorInv, Errors!TypeOK
<1>2. /\ Len(errorHistory) \in Nat /\ Len(happened) \in Nat
      /\ DOMAIN errorHistory = 1 .. Len(errorHistory)
      /\ DOMAIN happened = 1 .. Len(happened)
  BY <1>1
<1>3. /\ \A i \in 1 .. Len(errorHistory) : errorHistory[i] \in Errors!Report
      /\ \A i \in 1 .. Len(happened) : happened[i] \in Errors!Report
  BY <1>1, ElementOfSeq
<1> QED
  BY <1>1, <1>2, <1>3

\* An error more: a full history forgets its oldest, at the other end.
LEMMA ErrorReportKeeps ==
  ASSUME ErrorInv, NEW e \in Error, Errors!ReportError(e)
  PROVE  ErrorInv'
<1> DEFINE r == Errors!CreateErrorReport(e)
<1>1. PICK m \in Nat, n \in Nat : m = Len(errorHistory) /\ n = Len(happened)
  BY ErrorLengths, Zenon
<1>2. PICK k \in Nat : k = IF m + 1 < maxHistorySize THEN m + 1 ELSE maxHistorySize
  BY <1>1, ErrorNumbers
<1>3. r \in Errors!Report /\ r.age = 0
  BY ReportTypes
<1> HIDE DEF r
<1>0. PICK h : h = Append(errorHistory, r)
  OBVIOUS
<1>4. /\ h \in Seq(Errors!Report) /\ Len(h) = m + 1
      /\ \A i \in 1 .. m : h[i] = errorHistory[i]
      /\ h[m + 1] = r
  BY <1>0, <1>1, <1>3, ErrorLengths, AppendProperties
<1>5. errorHistory' = Errors!Newest(h, maxHistorySize) /\ happened' = Append(happened, r)
      /\ n < MaxErrors
  BY <1>0, <1>1 DEF Errors!ReportError, Errors!StoreError, r
<1>6. /\ happened' \in Seq(Errors!Report) /\ Len(happened') = n + 1
      /\ \A i \in 1 .. n : happened'[i] = happened[i]
      /\ happened'[n + 1] = r
  BY <1>1, <1>3, <1>5, ErrorLengths, AppendProperties
<1>7. /\ errorHistory' \in Seq(Errors!Report) /\ Len(errorHistory') = k
  BY <1>2, <1>4, <1>5, ErrorNumbers, NewestOf
<1>8. \A i \in 1 .. k : errorHistory'[i] = h[m + 1 - k + i]
  <2>1. \A i \in 1 .. Len(errorHistory') : errorHistory'[i] = h[Len(h) - Len(errorHistory') + i]
    BY <1>4, <1>5, ErrorNumbers, NewestOf
  <2>2. \A i \in 1 .. k : i \in 1 .. Len(errorHistory') /\ Len(h) - Len(errorHistory') + i = m + 1 - k + i
    BY <1>4, <1>7
  <2> QED
    BY <2>1, <2>2, Zenon
<1>9. /\ k <= maxHistorySize /\ k <= m + 1 /\ k >= 1 /\ m <= maxHistorySize
      /\ k < m + 1 => k = maxHistorySize
  BY <1>1, <1>2, ErrorNumbers, ErrorLengths
<1>10. \A i \in 1 .. k :
         /\ i < k => errorHistory'[i] = errorHistory[m + 1 - k + i] /\ m + 1 - k + i \in 1 .. m
         /\ i = k => errorHistory'[i] = r
  <2> TAKE i \in 1 .. k
  <2>1. errorHistory'[i] = h[m + 1 - k + i]
    BY <1>8
  <2>2. i < k => m + 1 - k + i \in 1 .. m
    BY <1>1, <1>9
  <2>3. i = k => m + 1 - k + i = m + 1
    BY <1>1, <1>9
  <2> QED
    BY <1>4, <2>1, <2>2, <2>3
<1>11. Errors!TypeOK'
  BY <1>1, <1>5, <1>6, <1>7, <1>9, ErrorNumbers DEF Errors!TypeOK
<1>12. EndsAgree'
  <2> SUFFICES ASSUME NEW j \in Nat, j < k, j < n + 1
               PROVE  errorHistory'[k - j] = happened'[n + 1 - j]
    BY <1>6, <1>7 DEF EndsAgree
  <2>1. CASE j = 0
    <3>1. k - j = k /\ n + 1 - j = n + 1 /\ k \in 1 .. k
      BY <1>9, <2>1
    <3> QED
      BY <1>6, <1>10, <3>1
  <2>2. CASE j > 0
    <3>1. /\ k - j \in 1 .. k /\ k - j < k /\ m + 1 - k + (k - j) = m - (j - 1)
          /\ n + 1 - j \in 1 .. n /\ n + 1 - j = n - (j - 1)
          /\ j - 1 \in Nat /\ j - 1 < m /\ j - 1 < n
      BY <1>1, <1>9, <2>2
    <3>2. errorHistory'[k - j] = errorHistory[m - (j - 1)]
      BY <1>10, <3>1
    <3>3. happened'[n + 1 - j] = happened[n - (j - 1)]
      BY <1>6, <3>1
    <3>4. errorHistory[m - (j - 1)] = happened[n - (j - 1)]
      BY <1>1, <3>1 DEF ErrorInv, EndsAgree
    <3> QED
      BY <3>2, <3>3, <3>4
  <2> QED
    BY <2>1, <2>2
<1>13. Forgotten'
  BY <1>1, <1>6, <1>7, <1>9 DEF ErrorInv, Forgotten
<1>14. PastWindow'
  <2> SUFFICES ASSUME NEW i \in 1 .. k - (n + 1)
               PROVE  errorHistory'[i].age = Window
    BY <1>6, <1>7 DEF PastWindow
  <2>1. i \in 1 .. k /\ i < k /\ m + 1 - k + i \in 1 .. m - n
    BY <1>1, <1>9
  <2>2. errorHistory[m + 1 - k + i].age = Window
    BY <1>1, <2>1 DEF ErrorInv, PastWindow
  <2> QED
    BY <1>10, <2>1, <2>2
<1>15. InWindow'
  <2> SUFFICES ASSUME NEW i \in 1 .. n + 1 PROVE happened'[i].age < Window
    BY <1>6 DEF InWindow
  <2>1. CASE i \in 1 .. n
    BY <1>1, <1>6, <2>1 DEF ErrorInv, InWindow
  <2>2. CASE i = n + 1
    BY <1>3, <1>6, <2>2, ErrorNumbers
  <2> QED
    BY <2>1, <2>2
<1>16. OldFirst'
  <2> SUFFICES ASSUME NEW i \in 1 .. n + 1, NEW j \in 1 .. n + 1, i <= j
               PROVE  happened'[j].age <= happened'[i].age
    BY <1>6 DEF OldFirst
  <2>1. CASE j \in 1 .. n
    <3>1. i \in 1 .. n
      BY <2>1
    <3> QED
      BY <1>1, <1>6, <2>1, <3>1 DEF ErrorInv, OldFirst
  <2>2. CASE j = n + 1
    <3>1. happened'[j].age = 0
      BY <1>3, <1>6, <2>2
    <3>2. happened'[i] \in Errors!Report
      BY <1>6, ElementOfSeq
    <3> QED
      BY <3>1, <3>2, ErrorNumbers DEF Errors!Report
  <2> QED
    BY <2>1, <2>2
<1> QED
  BY <1>11, <1>12, <1>13, <1>14, <1>15, <1>16 DEF ErrorInv

LEMMA HistoryClearKeeps == ErrorInv /\ Errors!ClearErrorHistory => ErrorInv'
<1> SUFFICES ASSUME Errors!ClearErrorHistory PROVE ErrorInv'
  OBVIOUS
<1>1. errorHistory' = <<>> /\ happened' = <<>>
  BY DEF Errors!ClearErrorHistory
<1> QED
  BY <1>1, ErrorNumbers
     DEF ErrorInv, Errors!TypeOK, EndsAgree, Forgotten, PastWindow, InWindow, OldFirst

Old(q) == [q EXCEPT !.age = IF @ = Window THEN @ ELSE @ + 1]

LEMMA OldReport ==
  ASSUME NEW q \in Errors!Report
  PROVE  /\ Old(q) \in Errors!Report
         /\ q.age = Window => Old(q).age = Window
         /\ q.age < Window => Old(q).age = q.age + 1
         /\ q.age \in 0 .. Window /\ Old(q).age \in 0 .. Window
BY ErrorNumbers DEF Old, Errors!Report

\* All grow older alike, and who leaves the window leaves it at the old end.
LEMMA HistoryTickKeeps ==
  ASSUME ErrorInv, Errors!Tick
  PROVE  ErrorInv'
<1>1. PICK m \in Nat, n \in Nat : m = Len(errorHistory) /\ n = Len(happened)
  BY ErrorLengths, Zenon
<1>2. PICK a : a = [i \in 1 .. n |-> Old(happened[i])]
  OBVIOUS
<1>3. errorHistory' = [i \in 1 .. m |-> Old(errorHistory[i])] /\ happened' = Errors!Relevant(a)
  BY <1>1, <1>2, ErrorLengths DEF Errors!Tick, Old
<1>4. /\ \A i \in 1 .. m : errorHistory[i] \in Errors!Report
      /\ \A i \in 1 .. n : happened[i] \in Errors!Report
  BY <1>1, ErrorLengths
<1>5. /\ \A i \in 1 .. m : errorHistory'[i] = Old(errorHistory[i]) /\ errorHistory'[i] \in Errors!Report
      /\ errorHistory' \in Seq(Errors!Report) /\ Len(errorHistory') = m
  BY <1>1, <1>3, <1>4, OldReport
<1>6. /\ \A i \in 1 .. n : a[i] = Old(happened[i]) /\ a[i] \in Errors!Report
      /\ a \in Seq(Errors!Report) /\ Len(a) = n
  BY <1>1, <1>2, <1>4, OldReport
<1>7. \A i \in 1 .. n : happened[i].age < Window /\ a[i].age = happened[i].age + 1
  BY <1>1, <1>4, <1>6, OldReport DEF ErrorInv, InWindow
<1>8. \A i, k \in 1 .. n : i <= k => a[k].age <= a[i].age
  <2> SUFFICES ASSUME NEW i \in 1 .. n, NEW k \in 1 .. n, i <= k
               PROVE  a[k].age <= a[i].age
    OBVIOUS
  <2>1. happened[k].age <= happened[i].age
    BY <1>1 DEF ErrorInv, OldFirst
  <2>2. happened[k].age \in Int /\ happened[i].age \in Int
    BY <1>4, ErrorNumbers, OldReport
  <2> QED
    BY <1>7, <2>1, <2>2
<1>9. PICK c \in 0 .. n : \A i \in 1 .. n : a[i].age < Window <=> i > n - c
  BY <1>6, <1>8, WindowEnd
<1>10. happened' = [i \in 1 .. c |-> a[n - c + i]]
  <2>1. c \in 0 .. Len(a) /\ \A i \in 1 .. Len(a) : a[i].age < Window <=> i > Len(a) - c
    BY <1>6, <1>9
  <2>2. Errors!Relevant(a) = [i \in 1 .. c |-> a[Len(a) - c + i]]
    BY <1>6, <2>1, RelevantEnd
  <2> QED
    BY <1>3, <1>6, <2>2
<1>11. \A i \in 1 .. c : n - c + i \in 1 .. n /\ n - c + i > n - c
  BY <1>1
<1>12. /\ \A i \in 1 .. c : happened'[i] = a[n - c + i] /\ happened'[i] \in Errors!Report
       /\ happened' \in Seq(Errors!Report) /\ Len(happened') = c
  BY <1>6, <1>10, <1>11
<1>13. Errors!TypeOK'
  BY <1>1, <1>5, <1>12, ErrorLengths, ErrorNumbers DEF Errors!TypeOK
<1>14. EndsAgree'
  <2> SUFFICES ASSUME NEW j \in Nat, j < m, j < c
               PROVE  errorHistory'[m - j] = happened'[c - j]
    BY <1>5, <1>12 DEF EndsAgree
  <2>1. m - j \in 1 .. m /\ c - j \in 1 .. c /\ n - c + (c - j) = n - j /\ n - j \in 1 .. n /\ j < n
    BY <1>1
  <2>2. errorHistory[m - j] = happened[n - j]
    BY <1>1, <2>1 DEF ErrorInv, EndsAgree
  <2>3. errorHistory'[m - j] = Old(errorHistory[m - j])
    BY <1>5, <2>1
  <2>4. happened'[c - j] = Old(happened[n - j])
    BY <1>6, <1>12, <2>1
  <2> QED
    BY <2>2, <2>3, <2>4
<1>15. Forgotten'
  BY <1>1, <1>5, <1>12 DEF ErrorInv, Forgotten
<1>16. PastWindow'
  <2> SUFFICES ASSUME NEW i \in 1 .. m - c PROVE errorHistory'[i].age = Window
    BY <1>5, <1>12 DEF PastWindow
  <2>1. i \in 1 .. m
    BY <1>1
  <2>2. CASE i <= m - n
    <3>1. errorHistory[i].age = Window
      BY <1>1, <2>2 DEF ErrorInv, PastWindow
    <3> QED
      BY <1>4, <1>5, <2>1, <3>1, OldReport
  <2>3. CASE i > m - n
    <3>1. PICK j \in Nat : j = m - i
      <4>1. m - i \in Nat
        BY <1>1, <2>1
      <4> QED
        BY <4>1, Zenon
    <3>2. i = m - j /\ j < m /\ j < n /\ j >= c /\ n - j \in 1 .. n
      BY <1>1, <2>3, <3>1
    <3>3. errorHistory[i] = happened[n - j]
      BY <1>1, <3>2 DEF ErrorInv, EndsAgree
    <3>4. errorHistory'[i] = a[n - j]
      BY <1>5, <1>6, <2>1, <3>2, <3>3
    <3>5. ~(a[n - j].age < Window) /\ a[n - j] \in Errors!Report
      <4>1. ~(n - j > n - c)
        BY <3>2
      <4> QED
        BY <1>6, <1>9, <3>2, <4>1
    <3> QED
      BY <3>4, <3>5, ErrorNumbers, OldReport
  <2> QED
    BY <1>1, <2>2, <2>3
<1>17. InWindow'
  BY <1>9, <1>11, <1>12 DEF InWindow
<1>18. OldFirst'
  <2> SUFFICES ASSUME NEW i \in 1 .. c, NEW k \in 1 .. c, i <= k
               PROVE  happened'[k].age <= happened'[i].age
    BY <1>12 DEF OldFirst
  <2>1. n - c + i <= n - c + k
    BY <1>1
  <2> QED
    BY <1>8, <1>11, <1>12, <2>1
<1> QED
  BY <1>13, <1>14, <1>15, <1>16, <1>17, <1>18 DEF ErrorInv

LEMMA ErrorStep ==
  ASSUME ErrorInv, [Errors!Next]_(Errors!errorVars)
  PROVE  ErrorInv'
<1>1. CASE UNCHANGED Errors!errorVars
  BY <1>1
     DEF Errors!errorVars, ErrorInv, Errors!TypeOK, EndsAgree, Forgotten, PastWindow,
         InWindow, OldFirst
<1> QED
  BY <1>1, ErrorReportKeeps, HistoryClearKeeps, HistoryTickKeeps DEF Errors!Next

\* Of a history that holds all of the window, the window is what is told.
LEMMA ToldWhole ==
  ASSUME ErrorInv, Len(happened) <= Len(errorHistory)
  PROVE  Errors!Relevant(errorHistory) = happened
<1>1. PICK m \in Nat, n \in Nat : m = Len(errorHistory) /\ n = Len(happened)
  BY ErrorLengths, Zenon
<1>2. \A i \in 1 .. n : m - n + i \in 1 .. m /\ errorHistory[m - n + i] = happened[i]
  <2> TAKE i \in 1 .. n
  <2>1. PICK j \in Nat : j = n - i
    <3>1. n - i \in Nat
      BY <1>1
    <3> QED
      BY <3>1, Zenon
  <2>2. j < m /\ j < n /\ m - j = m - n + i /\ n - j = i /\ m - j \in 1 .. m
    BY <1>1, <2>1
  <2>3. errorHistory[m - j] = happened[n - j]
    BY <1>1, <2>2 DEF ErrorInv, EndsAgree
  <2> QED
    BY <2>2, <2>3
<1>3. ASSUME NEW i \in 1 .. m PROVE errorHistory[i].age < Window <=> i > m - n
  <2>1. CASE i <= m - n
    <3>1. errorHistory[i].age = Window
      BY <1>1, <2>1 DEF ErrorInv, PastWindow
    <3> QED
      BY <1>1, <2>1, <3>1, ErrorNumbers
  <2>2. CASE i > m - n
    <3>1. PICK k \in 1 .. n : i = m - n + k
      <4>1. i - (m - n) \in 1 .. n /\ i = m - n + (i - (m - n))
        BY <1>1, <2>2
      <4> QED
        BY <4>1, Zenon
    <3>2. errorHistory[i].age < Window
      BY <1>1, <1>2, <3>1 DEF ErrorInv, InWindow
    <3> QED
      BY <2>2, <3>2
  <2> QED
    BY <1>1, <2>1, <2>2
<1>4. Errors!Relevant(errorHistory) = [i \in 1 .. n |-> errorHistory[m - n + i]]
  <2>1. /\ n \in 0 .. Len(errorHistory)
        /\ \A i \in 1 .. Len(errorHistory) :
             errorHistory[i].age < Window <=> i > Len(errorHistory) - n
    BY <1>1, <1>3
  <2>2. Errors!Relevant(errorHistory) =
          [i \in 1 .. n |-> errorHistory[Len(errorHistory) - n + i]]
    BY <2>1, ErrorLengths, RelevantEnd
  <2> QED
    BY <1>1, <2>2
<1>5. happened = [i \in 1 .. n |-> happened[i]]
  BY <1>1, ErrorLengths
<1> QED
  BY <1>2, <1>4, <1>5

\* What is in the window altogether is told as it is.
LEMMA ToldAll ==
  ASSUME NEW s \in Seq(Errors!Report), \A i \in 1 .. Len(s) : s[i].age < Window
  PROVE  Errors!Relevant(s) = s
<1>1. PICK n \in Nat : n = Len(s)
  <2>1. Len(s) \in Nat
    OBVIOUS
  <2> QED
    BY <2>1, Zenon
<1>2. n \in 0 .. Len(s) /\ \A i \in 1 .. Len(s) : s[i].age < Window <=> i > Len(s) - n
  BY <1>1
<1>3. Errors!Relevant(s) = [i \in 1 .. n |-> s[Len(s) - n + i]]
  BY <1>2, RelevantEnd
<1>4. \A i \in 1 .. n : Len(s) - n + i = i
  BY <1>1
<1>5. s = [i \in 1 .. n |-> s[i]]
  BY <1>1
<1> QED
  BY <1>3, <1>4, <1>5

\* A full history that has forgotten some of the window: too many errors
\* either way, and the newest are the same.
LEMMA ToldFull ==
  ASSUME ErrorInv, Len(errorHistory) < Len(happened)
  PROVE  /\ Errors!Relevant(errorHistory) = errorHistory
         /\ Len(errorHistory) = maxHistorySize
         /\ Errors!Newest(errorHistory, Recent) = Errors!Newest(happened, Recent)
<1>1. PICK m \in Nat, n \in Nat : m = Len(errorHistory) /\ n = Len(happened)
  BY ErrorLengths, Zenon
<1>2. m < n /\ m = maxHistorySize /\ Recent <= m /\ Recent <= n /\ Recent \in Nat
  BY <1>1, ErrorNumbers DEF ErrorInv, Forgotten
<1>3. ASSUME NEW i \in 1 .. m
      PROVE  n - m + i \in 1 .. n /\ errorHistory[i] = happened[n - m + i]
  <2>1. PICK j \in Nat : j = m - i
    BY <1>1
  <2>2. j < m /\ j < n /\ m - j = i /\ n - j = n - m + i /\ n - j \in 1 .. n
    BY <1>2, <2>1
  <2>3. errorHistory[m - j] = happened[n - j]
    BY <1>1, <2>2 DEF ErrorInv, EndsAgree
  <2> QED
    BY <2>2, <2>3
<1>4. \A i \in 1 .. m : errorHistory[i].age < Window
  BY <1>1, <1>3 DEF ErrorInv, InWindow
<1>5. Errors!Relevant(errorHistory) = errorHistory
  BY <1>1, <1>4, ErrorLengths, ToldAll
<1>6. PICK x, y : x = Errors!Newest(errorHistory, Recent) /\ y = Errors!Newest(happened, Recent)
  OBVIOUS
<1>7. /\ x \in Seq(Errors!Report) /\ y \in Seq(Errors!Report)
      /\ Len(x) = Recent /\ Len(y) = Recent
      /\ \A i \in 1 .. Len(x) : x[i] = errorHistory[Len(errorHistory) - Len(x) + i]
      /\ \A i \in 1 .. Len(y) : y[i] = happened[Len(happened) - Len(y) + i]
  BY <1>1, <1>2, <1>6, ErrorLengths, NewestOf
<1>8. ASSUME NEW i \in 1 .. Recent PROVE x[i] = y[i]
  <2>1. m - Recent + i \in 1 .. m /\ n - m + (m - Recent + i) = n - Recent + i
    BY <1>2
  <2>2. x[i] = errorHistory[m - Recent + i] /\ y[i] = happened[n - Recent + i]
    BY <1>1, <1>7
  <2> QED
    BY <1>3, <2>1, <2>2
<1>9. x = y
  BY <1>2, <1>7, <1>8
<1> QED
  BY <1>1, <1>2, <1>5, <1>6, <1>9

LEMMA ErrorsTold == ErrorInv => Errors!ToldAsIfAllKept
<1> SUFFICES ASSUME ErrorInv PROVE Errors!ToldAsIfAllKept
  OBVIOUS
<1>1. Errors!Relevant(happened) = happened
  BY ErrorLengths, ToldAll DEF ErrorInv, InWindow
<1>2. CASE Len(happened) <= Len(errorHistory)
  <2>1. Errors!GetErrorMetrics(errorHistory) = Errors!GetErrorMetrics(happened)
    BY <1>1, <1>2, ToldWhole, Zenon DEF Errors!GetErrorMetrics
  <2> QED
    BY <2>1, Zenon DEF Errors!ToldAsIfAllKept
<1>3. CASE Len(errorHistory) < Len(happened)
  <2>1. /\ Errors!GetErrorMetrics(errorHistory).total = Len(errorHistory)
        /\ Errors!GetErrorMetrics(happened).total = Len(happened)
        /\ Errors!GetErrorMetrics(errorHistory).recent =
             Errors!Reverse(Errors!Newest(errorHistory, Recent))
        /\ Errors!GetErrorMetrics(happened).recent =
             Errors!Reverse(Errors!Newest(happened, Recent))
    BY <1>1, <1>3, ToldFull DEF Errors!GetErrorMetrics
  <2>2. /\ Len(errorHistory) > Threshold /\ Len(happened) > Threshold
        /\ ~(Len(errorHistory) < maxHistorySize)
    BY <1>3, ToldFull, ErrorLengths, ErrorNumbers
  <2> QED
    BY <1>3, <2>1, <2>2, ToldFull DEF Errors!ToldAsIfAllKept, Errors!HighErrorRate
<1> QED
  BY <1>2, <1>3, ErrorLengths

-----------------------------------------------------------------------------
(* Notifications to many users, read page by page *)

\* Finitely many users, and pages that are not empty.
LEMMA BulkNumbers ==
  /\ Limit \in Nat \ {0} /\ IsFiniteSet(Member)
  /\ Cardinality(Member) \in Nat /\ Bulks!MaxPage = Cardinality(Member) + 1
<1>1. Limit \in Nat \ {0} /\ IsFiniteSet(Member)
  BY HostedAssumption DEF Bulks!LimitAssumption, Bulks!IsFiniteSet, IsFiniteSet
<1>2. Bulks!MaxPage = Cardinality(Member) + 1
  BY DEF Bulks!MaxPage, Bulks!Cardinality, Cardinality
<1> QED
  BY <1>1, <1>2, FS_CardinalityType

\* The place of a user in a list without repetitions, and how many of a set of
\* users are before it.
PlaceIn(s, u)   == CHOOSE i \in DOMAIN s : s[i] = u
RankIn(s, A, u) == Cardinality({v \in A : PlaceIn(s, v) < PlaceIn(s, u)})
WindowIn(s, A, k) == {u \in A : k <= RankIn(s, A, u) /\ RankIn(s, A, u) < k + Limit}
BelowIn(s, A, k)  == {u \in A : RankIn(s, A, u) < k}

Ranked(s, A) ==
  /\ s \in Seq(Member) /\ \A i, j \in 1 .. Len(s) : s[i] = s[j] => i = j
  /\ A \in SUBSET Member /\ \A u \in A : \E i \in 1 .. Len(s) : s[i] = u

LEMMA PlaceOf ==
  ASSUME NEW s \in Seq(Member), \A i, j \in 1 .. Len(s) : s[i] = s[j] => i = j,
         NEW i \in 1 .. Len(s)
  PROVE  PlaceIn(s, s[i]) = i
BY DEF PlaceIn

LEMMA PlaceType ==
  ASSUME NEW s, NEW A, Ranked(s, A), NEW u \in A
  PROVE  PlaceIn(s, u) \in 1 .. Len(s) /\ s[PlaceIn(s, u)] = u
<1>1. PICK i \in 1 .. Len(s) : s[i] = u
  BY DEF Ranked
<1>2. PlaceIn(s, s[i]) = i
  BY PlaceOf DEF Ranked
<1> QED
  BY <1>1, <1>2

LEMMA SomeMembers ==
  ASSUME NEW A \in SUBSET Member
  PROVE  /\ IsFiniteSet(A) /\ Cardinality(A) \in Nat
         /\ Cardinality(A) <= Cardinality(Member)
BY BulkNumbers, FS_Subset, FS_CardinalityType

\* Fewer than all are before one of them,
LEMMA RankType ==
  ASSUME NEW s, NEW A, Ranked(s, A), NEW u \in A
  PROVE  RankIn(s, A, u) \in 0 .. Cardinality(A) - 1
<1> DEFINE B == {v \in A : PlaceIn(s, v) < PlaceIn(s, u)}
<1>1. A \in SUBSET Member /\ B \in SUBSET A /\ PlaceIn(s, u) \in Int
  BY PlaceType DEF Ranked
<1>2. u \notin B
  BY <1>1
<1> HIDE DEF B
<1>3. IsFiniteSet(A) /\ IsFiniteSet(B) /\ Cardinality(A) \in Nat /\ Cardinality(B) \in Nat
  BY <1>1, SomeMembers
<1>4. Cardinality(B) <= Cardinality(A) /\ Cardinality(B) # Cardinality(A)
  BY <1>1, <1>2, <1>3, FS_Subset
<1>5. RankIn(s, A, u) = Cardinality(B)
  BY DEF RankIn, B
<1> QED
  BY <1>3, <1>4, <1>5

\* and fewer before an earlier one than before a later one;
LEMMA RankOrder ==
  ASSUME NEW s, NEW A, Ranked(s, A), NEW u \in A, NEW v \in A,
         PlaceIn(s, u) < PlaceIn(s, v)
  PROVE  RankIn(s, A, u) < RankIn(s, A, v)
<1> DEFINE B == {w \in A : PlaceIn(s, w) < PlaceIn(s, u)}
           C == {w \in A : PlaceIn(s, w) < PlaceIn(s, v)}
<1>1. A \in SUBSET Member /\ \A w \in A : PlaceIn(s, w) \in Int
  BY PlaceType DEF Ranked
<1>2. B \in SUBSET C /\ C \in SUBSET Member /\ B \in SUBSET Member
  BY <1>1
<1>3. u \in C /\ u \notin B
  BY <1>1
<1> HIDE DEF B, C
<1>4. IsFiniteSet(C) /\ Cardinality(C) \in Nat /\ Cardinality(B) \in Nat
  BY <1>2, SomeMembers
<1>5. Cardinality(B) <= Cardinality(C) /\ Cardinality(B) # Cardinality(C)
  BY <1>2, <1>3, <1>4, FS_Subset
<1>6. RankIn(s, A, u) = Cardinality(B) /\ RankIn(s, A, v) = Cardinality(C)
  BY DEF RankIn, B, C
<1> QED
  BY <1>4, <1>5, <1>6

\* so every number below that of the users is the rank of one.
LEMMA RankReached ==
  ASSUME NEW s, NEW A, Ranked(s, A), NEW k \in 0 .. Cardinality(A) - 1
  PROVE  \E u \in A : RankIn(s, A, u) = k
<1> DEFINE n == Cardinality(A)
           f == [u \in A |-> RankIn(s, A, u)]
           T == 0 .. n - 1
<1>1. IsFiniteSet(A) /\ n \in Nat
  BY SomeMembers DEF Ranked
<1>2. ASSUME NEW u \in A, NEW v \in A, f[u] = f[v] PROVE u = v
  <2>1. PlaceIn(s, u) \in Int /\ PlaceIn(s, v) \in Int /\ RankIn(s, A, u) = RankIn(s, A, v)
        /\ RankIn(s, A, u) \in Int
    BY <1>2, PlaceType, RankType
  <2>2. ~(PlaceIn(s, u) < PlaceIn(s, v)) /\ ~(PlaceIn(s, v) < PlaceIn(s, u))
    BY <2>1, RankOrder
  <2>3. PlaceIn(s, u) = PlaceIn(s, v)
    BY <2>1, <2>2
  <2> QED
    BY <2>3, PlaceType
<1>3. f \in [A -> T]
  BY RankType
<1> HIDE DEF f
<1>4. f \in Injection(A, T)
  BY <1>2, <1>3 DEF Injection, IsInjective
<1>5. IsFiniteSet(T) /\ Cardinality(T) = n
  BY <1>1, FS_Interval
<1> HIDE DEF T
<1>6. f \in Surjection(A, T)
  BY <1>4, <1>5, FS_Injection
<1>7. k \in T
  BY DEF T
<1>8. PICK u \in A : f[u] = k
  BY <1>6, <1>7 DEF Surjection
<1> QED
  BY <1>8 DEF f

\* An empty window is past the end,
LEMMA WindowEmpty ==
  ASSUME NEW s, NEW A, Ranked(s, A), NEW k \in Nat, WindowIn(s, A, k) = {}
  PROVE  \A u \in A : RankIn(s, A, u) < k
<1> SUFFICES ASSUME NEW u \in A, ~(RankIn(s, A, u) < k) PROVE FALSE
  OBVIOUS
<1>1. RankIn(s, A, u) \in 0 .. Cardinality(A) - 1 /\ Cardinality(A) \in Nat
  BY RankType, SomeMembers DEF Ranked
<1>2. k \in 0 .. Cardinality(A) - 1
  BY <1>1
<1>3. PICK v \in A : RankIn(s, A, v) = k
  BY <1>2, RankReached
<1>4. v \in WindowIn(s, A, k)
  BY <1>3, BulkNumbers DEF WindowIn
<1> QED
  BY <1>4

\* and a window adds its users to those before it.
LEMMA WindowAdds ==
  ASSUME NEW s, NEW A, Ranked(s, A), NEW k \in Nat
  PROVE  /\ BelowIn(s, A, k + Limit) = BelowIn(s, A, k) \cup WindowIn(s, A, k)
         /\ BelowIn(s, A, k) \cap WindowIn(s, A, k) = {}
         /\ Cardinality(BelowIn(s, A, k + Limit)) =
              Cardinality(BelowIn(s, A, k)) + Cardinality(WindowIn(s, A, k))
<1>1. \A u \in A : RankIn(s, A, u) \in Nat
  <2>1. \A u \in A : RankIn(s, A, u) \in 0 .. Cardinality(A) - 1
    BY RankType
  <2>2. Cardinality(A) \in Nat
    BY SomeMembers DEF Ranked
  <2> QED
    BY <2>1, <2>2
<1>2. /\ BelowIn(s, A, k + Limit) = BelowIn(s, A, k) \cup WindowIn(s, A, k)
      /\ BelowIn(s, A, k) \cap WindowIn(s, A, k) = {}
  BY <1>1, BulkNumbers DEF BelowIn, WindowIn
<1>3. BelowIn(s, A, k) \in SUBSET Member /\ WindowIn(s, A, k) \in SUBSET Member
  BY DEF BelowIn, WindowIn, Ranked
<1>4. /\ IsFiniteSet(BelowIn(s, A, k)) /\ IsFiniteSet(WindowIn(s, A, k))
      /\ Cardinality(BelowIn(s, A, k)) \in Nat /\ Cardinality(WindowIn(s, A, k)) \in Nat
  BY <1>3, SomeMembers
<1>5. Cardinality({}) = 0
  BY FS_EmptySet
<1>6. Cardinality(BelowIn(s, A, k) \cup WindowIn(s, A, k)) =
        Cardinality(BelowIn(s, A, k)) + Cardinality(WindowIn(s, A, k))
          - Cardinality(BelowIn(s, A, k) \cap WindowIn(s, A, k))
  BY <1>4, FS_Union
<1>7. Cardinality(BelowIn(s, A, k) \cap WindowIn(s, A, k)) = 0
  BY <1>2, <1>5, Zenon
<1>8. Cardinality(BelowIn(s, A, k) \cup WindowIn(s, A, k)) =
        Cardinality(BelowIn(s, A, k)) + Cardinality(WindowIn(s, A, k))
  BY <1>4, <1>6, <1>7
<1> QED
  BY <1>2, <1>8, Zenon

\* When users come, nobody moves forward.
LEMMA RankGrows ==
  ASSUME NEW s, NEW A, Ranked(s, A), NEW t, NEW B, Ranked(t, B), A \subseteq B,
         NEW d \in Nat, \A u \in A : PlaceIn(t, u) = PlaceIn(s, u) + d,
         NEW u \in A
  PROVE  RankIn(s, A, u) <= RankIn(t, B, u)
<1> DEFINE C == {v \in A : PlaceIn(s, v) < PlaceIn(s, u)}
           D == {v \in B : PlaceIn(t, v) < PlaceIn(t, u)}
<1>1. \A v \in A : PlaceIn(s, v) \in Int
  BY PlaceType
<1>2. C \in SUBSET D
  BY <1>1
<1>3. D \in SUBSET Member
  BY DEF Ranked
<1> HIDE DEF C, D
<1>4. IsFiniteSet(D)
  BY <1>3, SomeMembers
<1>5. Cardinality(C) <= Cardinality(D)
  BY <1>2, <1>4, FS_Subset
<1> QED
  BY <1>5 DEF RankIn, C, D

\* The number of pages: the last one reaches the end.
LEMMA PagesReach ==
  ASSUME NEW n \in Nat, NEW p \in Nat, p = (n + Limit - 1) \div Limit
  PROVE  p <= n /\ n <= p * Limit
<1> DEFINE L == Limit
<1>1. L \in Nat /\ L >= 1
  BY BulkNumbers
<1>2. p * L <= n + L - 1 /\ n + L - 1 < (p + 1) * L
  BY <1>1
<1> QED
  BY <1>1, <1>2

LEMMA Steps ==
  ASSUME NEW p \in Nat, NEW q \in Nat
  PROVE  /\ p * Limit \in Nat /\ (p + 1) * Limit = p * Limit + Limit
         /\ p <= p * Limit
         /\ p <= q => p * Limit <= q * Limit
<1> DEFINE L == Limit
<1>1. L \in Nat /\ L >= 1
  BY BulkNumbers
<1> HIDE DEF L
<1>2. p * L \in Nat /\ (p + 1) * L = p * L + L /\ p <= p * L
  BY <1>1
<1>3. p <= q => p * L <= q * L
  BY <1>1
<1> QED
  BY <1>2, <1>3 DEF L

-----------------------------------------------------------------------------

\* The calls of send that a count of them for each user stands for.
SendsOf(f)   == {c \in Member \X (1 .. Cardinality(Member) + 1) : c[2] <= f[c[1]]}
Counts       == [Member -> 0 .. Cardinality(Member) + 1]

LEMMA SendsFinite ==
  ASSUME NEW f
  PROVE  IsFiniteSet(SendsOf(f)) /\ Cardinality(SendsOf(f)) \in Nat
<1> DEFINE T == Member \X (1 .. Cardinality(Member) + 1)
<1>1. IsFiniteSet(1 .. Cardinality(Member) + 1)
  BY BulkNumbers, FS_Interval
<1>2. IsFiniteSet(T)
  BY <1>1, BulkNumbers, FS_Product
<1>3. SendsOf(f) \in SUBSET T
  BY DEF SendsOf
<1> HIDE DEF T
<1> QED
  BY <1>2, <1>3, FS_Subset, FS_CardinalityType

LEMMA SendsNone ==
  ASSUME NEW f, \A u \in Member : f[u] = 0
  PROVE  Cardinality(SendsOf(f)) = 0
<1>1. SendsOf(f) = {}
  BY BulkNumbers DEF SendsOf
<1> QED
  BY <1>1, FS_EmptySet

\* One more for some of the users are as many calls more.
LEMMA SendsMore ==
  ASSUME NEW f \in Counts, NEW g \in Counts, NEW us \in SUBSET Member,
         \A u \in Member : g[u] = IF u \in us THEN f[u] + 1 ELSE f[u]
  PROVE  Cardinality(SendsOf(g)) = Cardinality(SendsOf(f)) + Cardinality(us)
<1> DEFINE new == {<<u, f[u] + 1>> : u \in us}
           h   == [u \in us |-> <<u, f[u] + 1>>]
<1>1. \A u \in Member : f[u] \in 0 .. Cardinality(Member) + 1 /\ g[u] \in 0 .. Cardinality(Member) + 1
  BY DEF Counts
<1>2. ASSUME NEW c \in SendsOf(g), c \notin SendsOf(f) PROVE c \in new
  <2>1. /\ c \in Member \X (1 .. Cardinality(Member) + 1) /\ c[2] <= g[c[1]] /\ ~(c[2] <= f[c[1]])
    BY <1>2 DEF SendsOf
  <2>2. PICK u \in Member, i \in 1 .. Cardinality(Member) + 1 : c = <<u, i>>
    BY <2>1
  <2>3. u \in us /\ i = f[u] + 1
    BY <1>1, <2>1, <2>2, BulkNumbers
  <2> QED
    BY <2>2, <2>3
<1>3. ASSUME NEW c \in new PROVE c \in SendsOf(g) /\ c \notin SendsOf(f)
  <2>1. PICK u \in us : c = <<u, f[u] + 1>>
    OBVIOUS
  <2>2. f[u] + 1 = g[u] /\ f[u] + 1 \in 1 .. Cardinality(Member) + 1 /\ ~(f[u] + 1 <= f[u])
    BY <1>1, BulkNumbers
  <2> QED
    BY <2>1, <2>2 DEF SendsOf
<1>4. ASSUME NEW c \in SendsOf(f) PROVE c \in SendsOf(g)
  <2>1. PICK u \in Member, i \in 1 .. Cardinality(Member) + 1 : c = <<u, i>> /\ i <= f[u]
    BY DEF SendsOf
  <2>2. i <= g[u]
    BY <1>1, <2>1, BulkNumbers
  <2> QED
    BY <2>1, <2>2 DEF SendsOf
<1>5. SendsOf(g) = SendsOf(f) \cup new /\ SendsOf(f) \cap new = {}
  BY <1>2, <1>3, <1>4
<1>6. IsFiniteSet(us) /\ Cardinality(us) \in Nat
  BY SomeMembers
<1>7. h \in [us -> new] /\ \A c \in new : \E u \in us : h[u] = c
  OBVIOUS
<1>8. \A u, v \in us : h[u] = h[v] => u = v
  OBVIOUS
<1> HIDE DEF h, new
<1>9. h \in Bijection(us, new)
  BY <1>7, <1>8 DEF Bijection, Injection, Surjection, IsInjective
<1>10. IsFiniteSet(new) /\ Cardinality(new) = Cardinality(us)
  BY <1>6, <1>9, FS_Bijection DEF ExistsBijection
<1>11. Cardinality(SendsOf(f) \cup new) =
         Cardinality(SendsOf(f)) + Cardinality(new) - Cardinality(SendsOf(f) \cap new)
  BY <1>10, SendsFinite, FS_Union
<1>12. Cardinality(SendsOf(f) \cap new) = 0
  BY <1>5, FS_EmptySet, Zenon
<1>13. Cardinality(SendsOf(f)) \in Nat
  BY SendsFinite
<1>14. Cardinality(SendsOf(f) \cup new) = Cardinality(SendsOf(f)) + Cardinality(us)
  BY <1>6, <1>10, <1>11, <1>12, <1>13
<1> QED
  BY <1>5, <1>14, Zenon

-----------------------------------------------------------------------------

\* The operators of BulkNotifications in those of the lemmas.
BulkRow ==
  [at : {"page", "send", "done", "error"}, scope : {"city", "all"},
   page : 1 .. Cardinality(Member) + 1, asks : SUBSET {"users", "count"},
   found : SUBSET Member, pages : 0 .. Cardinality(Member) + 1, due : Counts]
PagesFor(n) == (n + Limit - 1) \div Limit
Onset(p)    == (p - 1) * Limit
Seen        == BelowIn(born, active, Onset(bulk.page))
OnPage      == WindowIn(born, active, Onset(bulk.page))
Rank(u)     == RankIn(born, active, u)
Asked(what) == what \in bulk.asks

BulkTypes ==
  /\ Ranked(born, active)
  /\ bulk \in BulkRow \cup {Bulks!Idle}
  /\ tried \in Counts
  /\ steady \subseteq active
  /\ shaken \subseteq {"came", "left", "torn"}

\* A user is due, or notified, at most once per page read, a page past the
\* number of users is empty, and what is sent to all is sent in the end.
BulkOnce ==
  /\ bulk = Bulks!Idle => \A u \in Member : tried[u] = 0
  /\ bulk.at = "page" =>
       /\ bulk.found # {} => bulk.page <= Cardinality(Member)
       /\ Asked("users") => bulk.found = {}
       /\ \A u \in Member : bulk.due[u] <= bulk.page - 1
       /\ bulk.scope = "city" => \A u \in Member : tried[u] <= bulk.page - 1
  /\ bulk.at \in {"page", "send", "error"} /\ bulk.scope = "all" =>
       \A u \in Member : tried[u] = 0
  /\ bulk.at = "send" => bulk.scope = "all"

\* While the users are the same, the pages read so far have found exactly those
\* before the present page, and its two statements agree with each other.
BulkSame == shaken = {} =>
  /\ bulk.at = "page" =>
       /\ bulk.scope = "all" =>
            \A u \in Member : bulk.due[u] = IF u \in Seen THEN 1 ELSE 0
       /\ bulk.scope = "city" => Cardinality(SendsOf(tried)) = Cardinality(Seen)
       /\ ~Asked("users") =>
            /\ Cardinality(bulk.found) = Cardinality(OnPage)
            /\ bulk.scope = "all" => bulk.found = OnPage
       /\ ~Asked("count") => bulk.pages = PagesFor(Cardinality(active))
  /\ bulk.at = "send" => \A u \in Member : bulk.due[u] = IF u \in active THEN 1 ELSE 0
  /\ bulk.at = "done" =>
       /\ Cardinality(SendsOf(tried)) = Cardinality(active)
       /\ bulk.scope = "all" => \A u \in active : tried[u] = 1

\* While users only come, and none inside a page, those who were there are
\* found already, or on this page, or are still to come.
BulkGrown == shaken \subseteq {"came"} /\ bulk \in BulkRow /\ bulk.scope = "all" =>
  /\ bulk.at = "page" /\ bulk.asks # {} =>
       /\ \A u \in steady : bulk.due[u] > 0 \/ Rank(u) >= Onset(bulk.page)
       /\ ~Asked("users") => bulk.found = OnPage
       /\ ~Asked("count") => bulk.pages = PagesFor(Cardinality(active))
  /\ bulk.at = "page" /\ bulk.asks = {} =>
       \A u \in steady :
         \/ bulk.due[u] > 0 \/ u \in bulk.found
         \/ Rank(u) >= Onset(bulk.page) + Limit /\ ~Bulks!LastPage
  /\ bulk.at = "send" => \A u \in steady : bulk.due[u] > 0
  /\ bulk.at = "done" => \A u \in steady : tried[u] > 0

BulkInv == BulkTypes /\ BulkOnce /\ BulkSame /\ BulkGrown

\* What BulkNotifications calls them.
LEMMA BulkWords ==
  /\ Bulks!Skip = Onset(bulk.page)
  /\ Bulks!PageWindow = OnPage
  /\ Bulks!PageCount = PagesFor(Cardinality(active))
  /\ Bulks!Total = Cardinality(SendsOf(tried))
  /\ Bulks!Bulk = BulkRow
  /\ \A S : Bulks!Cardinality(S) = Cardinality(S)
<1>1. \A S : Bulks!Cardinality(S) = Cardinality(S)
  BY DEF Bulks!Cardinality, Cardinality
<1>2. Bulks!Skip = Onset(bulk.page)
  BY DEF Bulks!Skip, Onset
<1>3. \A u : Bulks!Before(u) = RankIn(born, active, u)
  BY <1>1, Zenon DEF Bulks!Before, Bulks!Place, RankIn, PlaceIn
<1>4. Bulks!PageWindow = OnPage
  BY <1>2, <1>3 DEF Bulks!PageWindow, OnPage, WindowIn
<1>5. Bulks!PageCount = PagesFor(Cardinality(active))
  BY <1>1 DEF Bulks!PageCount, PagesFor
<1>6. Bulks!Sends = SendsOf(tried)
  BY BulkNumbers DEF Bulks!Sends, SendsOf
<1>7. Bulks!Total = Cardinality(SendsOf(tried))
  BY <1>1, <1>6 DEF Bulks!Total
<1>8. Bulks!Bulk = BulkRow
  BY BulkNumbers DEF Bulks!Bulk, BulkRow, Bulks!Scope, Counts
<1> QED
  BY <1>1, <1>2, <1>4, <1>5, <1>7, <1>8

\* A page begins where the one before it ends; and a page that is empty, or
\* that the number of pages makes the last, ends behind everybody.
LEMMA PageStarts ==
  ASSUME NEW p \in 1 .. Cardinality(Member) + 1
  PROVE  /\ Onset(p) \in Nat /\ Onset(p + 1) = Onset(p) + Limit /\ p + 1 - 1 = p
         /\ p - 1 <= Onset(p) /\ Onset(1) = 0
<1>1. p \in Nat /\ p >= 1 /\ p - 1 \in Nat /\ (p - 1) + 1 = p /\ (p + 1) - 1 = p
  BY BulkNumbers
<1>2. (p - 1) * Limit \in Nat /\ p - 1 <= (p - 1) * Limit
      /\ ((p - 1) + 1) * Limit = (p - 1) * Limit + Limit
  BY <1>1, Steps
<1>3. 0 * Limit = 0
  BY BulkNumbers
<1> QED
  BY <1>1, <1>2, <1>3 DEF Onset

LEMMA LastCovers ==
  ASSUME NEW s, NEW A, Ranked(s, A), NEW p \in 1 .. Cardinality(Member) + 1,
         \/ WindowIn(s, A, Onset(p)) = {}
         \/ p >= PagesFor(Cardinality(A))
  PROVE  \A u \in A : RankIn(s, A, u) < Onset(p) + Limit
<1> DEFINE n == Cardinality(A)
           q == PagesFor(n)
<1>1. n \in Nat /\ n <= Cardinality(Member) /\ Onset(p) \in Nat /\ Limit \in Nat
      /\ Onset(p + 1) = Onset(p) + Limit
  BY SomeMembers, PageStarts, BulkNumbers DEF Ranked
<1>2. \A u \in A : RankIn(s, A, u) \in 0 .. n - 1
  BY RankType
<1>3. CASE WindowIn(s, A, Onset(p)) = {}
  <2>1. \A u \in A : RankIn(s, A, u) < Onset(p)
    BY <1>1, <1>3, WindowEmpty
  <2> QED
    BY <1>1, <1>2, <2>1
<1>4. CASE p >= q
  <2>1. q \in Nat /\ p \in Nat /\ q <= p
    BY <1>1, <1>4, BulkNumbers DEF PagesFor
  <2>2. n <= q * Limit /\ q * Limit <= p * Limit
    BY <1>1, <2>1, PagesReach, Steps DEF PagesFor
  <2>3. p * Limit = Onset(p + 1)
    BY PageStarts DEF Onset
  <2>4. q * Limit \in Nat
    BY <2>1, Steps
  <2> QED
    BY <1>1, <1>2, <2>2, <2>3, <2>4
<1> QED
  BY <1>3, <1>4

LEMMA RankNumbers ==
  ASSUME NEW s, NEW A, Ranked(s, A), NEW u \in A
  PROVE  RankIn(s, A, u) \in Nat /\ u \in Member
<1>1. RankIn(s, A, u) \in 0 .. Cardinality(A) - 1 /\ Cardinality(A) \in Nat
  BY RankType, SomeMembers DEF Ranked
<1> QED
  BY <1>1 DEF Ranked

LEMMA BulkInit == Bulks!Init => BulkInv
<1> SUFFICES ASSUME Bulks!Init PROVE BulkInv
  OBVIOUS
<1>1. /\ born \in Seq(Member) /\ \A i, j \in 1 .. Len(born) : born[i] = born[j] => i = j
  BY DEF Bulks!Init, Bulks!SeqOf, Bulks!IsInjective
<1>2. active \in SUBSET Member /\ \A u \in active : \E i \in 1 .. Len(born) : born[i] = u
  BY <1>1 DEF Bulks!Init, Bulks!Range
<1>3. bulk = Bulks!Idle /\ bulk.at = "idle" /\ steady = {} /\ shaken = {}
      /\ tried = [u \in Member |-> 0]
  BY DEF Bulks!Init, Bulks!Idle
<1>4. BulkTypes
  BY <1>1, <1>2, <1>3, BulkNumbers DEF BulkTypes, Ranked, Counts
<1>5. BulkOnce
  BY <1>3 DEF BulkOnce
<1>6. BulkSame /\ BulkGrown
  BY <1>3 DEF BulkSame, BulkGrown
<1> QED
  BY <1>4, <1>5, <1>6 DEF BulkInv

\* Somebody comes, at the head of the list or at a place in it: nobody who was
\* there moves forward.
LEMMA ComeRanks ==
  ASSUME BulkTypes, NEW u \in Member, Bulks!Come(u)
  PROVE  /\ Ranked(born, active)'
         /\ \A v \in active : Rank(v) <= Rank(v)'
<1>0. /\ born \in Seq(Member) /\ Len(born) \in Nat /\ active \in SUBSET Member
      /\ active' = active \cup {u} /\ Ranked(born, active)
      /\ \A v \in active : \E i \in 1 .. Len(born) : born[i] = v
      /\ \A i, j \in 1 .. Len(born) : born[i] = born[j] => i = j
  BY DEF Bulks!Come, BulkTypes, Ranked
<1>1. \A v \in active : PlaceIn(born, v) \in 1 .. Len(born) /\ born[PlaceIn(born, v)] = v
  BY <1>0, PlaceType
<1>2. CASE u \in Bulks!Range(born)
  <2>1. born' = born /\ \E i \in 1 .. Len(born) : born[i] = u
    BY <1>0, <1>2 DEF Bulks!Come, Bulks!Range
  <2>2. Ranked(born', active')
    BY <1>0, <2>1 DEF Ranked
  <2>3. \A v \in active : PlaceIn(born', v) = PlaceIn(born, v) + 0
    BY <1>0, <1>1, <2>1
  <2>4. \A v \in active : RankIn(born, active, v) <= RankIn(born', active', v)
    BY <1>0, <2>2, <2>3, RankGrows
  <2> QED
    BY <2>2, <2>4 DEF Rank
<1>3. CASE u \notin Bulks!Range(born)
  <2>1. born' = <<u>> \o born /\ \A i \in 1 .. Len(born) : born[i] # u
    BY <1>0, <1>3 DEF Bulks!Come, Bulks!Range
  <2>2. /\ born' \in Seq(Member) /\ Len(born') = Len(born) + 1 /\ born'[1] = u
        /\ \A i \in 1 .. Len(born) : born'[i + 1] = born[i]
    BY <1>0, <2>1
  <2>3. \A i, j \in 1 .. Len(born') : born'[i] = born'[j] => i = j
    <3> SUFFICES ASSUME NEW i \in 1 .. Len(born'), NEW j \in 1 .. Len(born'),
                        born'[i] = born'[j]
                 PROVE  i = j
      OBVIOUS
    <3>1. \A k \in 1 .. Len(born') :
            k = 1 \/ (k - 1 \in 1 .. Len(born) /\ born'[k] = born[k - 1])
      <4> TAKE k \in 1 .. Len(born')
      <4>1. k = 1 \/ (k - 1 \in 1 .. Len(born) /\ (k - 1) + 1 = k)
        BY <1>0, <2>2
      <4> QED
        BY <2>2, <4>1
    <3>2. /\ i = 1 \/ (i - 1 \in 1 .. Len(born) /\ born'[i] = born[i - 1])
          /\ j = 1 \/ (j - 1 \in 1 .. Len(born) /\ born'[j] = born[j - 1])
      BY <3>1
    <3>3. \/ i = j
          \/ /\ i - 1 \in 1 .. Len(born) /\ j - 1 \in 1 .. Len(born)
             /\ born[i - 1] = born[j - 1]
      BY <2>1, <2>2, <3>2
    <3>4. i = j \/ i - 1 = j - 1
      BY <1>0, <3>3
    <3> QED
      BY <1>0, <2>2, <3>4
  <2>4. Ranked(born', active')
    <3>1. 1 \in 1 .. Len(born') /\ \A i \in 1 .. Len(born) : i + 1 \in 1 .. Len(born')
      BY <1>0, <2>2
    <3>2. \A v \in active' : \E i \in 1 .. Len(born') : born'[i] = v
      BY <1>0, <2>2, <3>1
    <3> QED
      BY <1>0, <2>2, <2>3, <3>2 DEF Ranked
  <2>5. ASSUME NEW v \in active PROVE PlaceIn(born', v) = PlaceIn(born, v) + 1
    <3> DEFINE k == PlaceIn(born, v)
    <3>1. k \in 1 .. Len(born) /\ born[k] = v
      BY <1>1
    <3> HIDE DEF k
    <3>2. k + 1 \in 1 .. Len(born') /\ born'[k + 1] = v
      BY <1>0, <2>2, <3>1
    <3>3. PlaceIn(born', born'[k + 1]) = k + 1
      BY <2>2, <2>3, <3>2, PlaceOf
    <3> QED
      BY <3>2, <3>3 DEF k
  <2>6. \A v \in active : RankIn(born, active, v) <= RankIn(born', active', v)
    BY <1>0, <2>4, <2>5, RankGrows
  <2> QED
    BY <2>4, <2>6 DEF Rank
<1> QED
  BY <1>2, <1>3

LEMMA ComeKeeps ==
  ASSUME BulkInv, NEW u \in Member, Bulks!Come(u)
  PROVE  BulkInv'
<1>1. /\ BulkTypes /\ BulkOnce /\ BulkGrown
      /\ bulk' = bulk /\ tried' = tried /\ steady' = steady /\ active' = active \cup {u}
      /\ "came" \in shaken' /\ shaken \subseteq shaken'
      /\ shaken' \subseteq shaken \cup {"came", "torn"}
      /\ (Bulks!Torn => "torn" \in shaken')
  BY DEF BulkInv, Bulks!Come, Bulks!Shake
<1>2. BulkTypes'
  BY <1>1, ComeRanks DEF BulkTypes, Bulks!Idle
<1>3. BulkOnce'
  BY <1>1 DEF BulkOnce, Bulks!Idle, Asked
<1>4. BulkSame'
  BY <1>1 DEF BulkSame
<1>5. BulkGrown'
  <2> SUFFICES ASSUME shaken' \subseteq {"came"}, bulk \in BulkRow, bulk.scope = "all"
               PROVE  BulkGrown'
    BY <1>1 DEF BulkGrown
  <2>1. shaken \subseteq {"came"} /\ "torn" \notin shaken' /\ ~Bulks!Torn
    BY <1>1
  <2>2. bulk.at = "page" /\ bulk.asks # {} => Asked("users") /\ Asked("count")
    BY <2>1 DEF Bulks!Torn, Bulks!At, BulkRow, Asked
  <2>3. \A v \in steady : Rank(v) <= Rank(v)' /\ Rank(v) \in Nat /\ Rank(v)' \in Nat
    <3> TAKE v \in steady
    <3>1. v \in active /\ v \in active'
      BY <1>1 DEF BulkTypes
    <3>2. Rank(v) \in Nat /\ Rank(v)' \in Nat
      BY <1>1, <1>2, <3>1, RankNumbers DEF Rank, BulkTypes
    <3> QED
      BY <1>1, <3>1, <3>2, ComeRanks
  <2>4. bulk.at = "page" => Onset(bulk.page) \in Nat /\ Limit \in Nat
    BY PageStarts, BulkNumbers DEF BulkRow
  <2>5. Bulks!LastPage' = Bulks!LastPage
    BY <1>1 DEF Bulks!LastPage
  <2>6. bulk.at = "page" /\ bulk.asks # {} =>
           \A v \in steady : bulk.due[v] > 0 \/ Rank(v)' >= Onset(bulk.page)
    BY <1>1, <2>1, <2>3, <2>4 DEF BulkGrown
  <2>7. bulk.at = "page" /\ bulk.asks = {} =>
           \A v \in steady :
             \/ bulk.due[v] > 0 \/ v \in bulk.found
             \/ Rank(v)' >= Onset(bulk.page) + Limit /\ ~Bulks!LastPage
    BY <1>1, <2>1, <2>3, <2>4 DEF BulkGrown
  <2>8. /\ bulk.at = "send" => \A v \in steady : bulk.due[v] > 0
        /\ bulk.at = "done" => \A v \in steady : tried[v] > 0
    BY <1>1, <2>1 DEF BulkGrown
  <2> HIDE DEF Onset
  <2> QED
    BY <1>1, <2>2, <2>5, <2>6, <2>7, <2>8 DEF BulkGrown, Asked
<1> QED
  BY <1>2, <1>3, <1>4, <1>5 DEF BulkInv

\* After somebody left nothing is promised of a bulk that succeeds.
LEMMA LeaveKeeps ==
  ASSUME BulkInv, NEW u \in Member, Bulks!Leave(u)
  PROVE  BulkInv'
<1>1. /\ BulkTypes /\ BulkOnce
      /\ bulk' = bulk /\ tried' = tried /\ steady' = steady \ {u}
      /\ active' = active \ {u} /\ born' = born
      /\ "left" \in shaken' /\ shaken' \subseteq shaken \cup {"left", "torn"}
  BY DEF BulkInv, Bulks!Leave, Bulks!Shake
<1>2. BulkTypes'
  BY <1>1 DEF BulkTypes, Ranked, Bulks!Idle
<1>3. BulkOnce'
  BY <1>1 DEF BulkOnce, Bulks!Idle, Asked
<1>4. BulkSame' /\ BulkGrown'
  BY <1>1 DEF BulkSame, BulkGrown
<1> QED
  BY <1>2, <1>3, <1>4 DEF BulkInv

LEMMA BulkStartKeeps ==
  ASSUME BulkInv, NEW scope \in {"city", "all"}, Bulks!Start(scope)
  PROVE  BulkInv'
<1>1. /\ BulkTypes /\ BulkOnce
      /\ born' = born /\ active' = active /\ tried' = tried
      /\ steady' = active /\ shaken' = {} /\ bulk.at = "idle"
  BY DEF BulkInv, Bulks!Start, Bulks!At
<1>2. /\ bulk'.at = "page" /\ bulk'.scope = scope /\ bulk'.page = 1
      /\ bulk'.asks = {"users", "count"} /\ bulk'.found = {} /\ bulk'.pages = 0
      /\ \A u \in Member : bulk'.due[u] = 0
      /\ bulk' \in BulkRow
  BY BulkNumbers DEF Bulks!Start, BulkRow, Counts
<1>3. bulk = Bulks!Idle /\ \A u \in Member : tried[u] = 0
  BY <1>1 DEF BulkTypes, BulkRow, BulkOnce
<1>4. BulkTypes'
  BY <1>1, <1>2 DEF BulkTypes
<1>5. BulkOnce'
  BY <1>1, <1>2, <1>3 DEF BulkOnce, Bulks!Idle, Asked
<1>6. Onset(1) = 0 /\ \A u \in active : Rank(u) \in Nat
  BY <1>1, PageStarts, BulkNumbers, RankNumbers DEF BulkTypes, Rank
<1>7. BulkSame'
  <2>1. BelowIn(born, active, 0) = {}
    BY <1>6 DEF BelowIn, Rank
  <2>2. Seen' = {}
    BY <1>1, <1>2, <1>6, <2>1, Zenon DEF Seen
  <2>3. Cardinality({}) = 0 /\ Cardinality(SendsOf(tried)) = 0
    BY <1>3, SendsNone, FS_EmptySet
  <2>4. Cardinality(SendsOf(tried')) = Cardinality(Seen')
    BY <1>1, <2>2, <2>3, Zenon
  <2> QED
    BY <1>2, <2>2, <2>4 DEF BulkSame, Asked
<1>8. BulkGrown'
  <2>1. \A u \in steady' : Rank(u)' >= Onset(bulk'.page)
    BY <1>1, <1>2, <1>6 DEF Rank
  <2> QED
    BY <1>2, <2>1 DEF BulkGrown, Asked
<1> QED
  BY <1>4, <1>5, <1>7, <1>8 DEF BulkInv

\* A user who is not found before a page is on it, or behind it and it is not
\* the last.
LEMMA PageFinds ==
  ASSUME BulkTypes, bulk \in BulkRow, NEW u \in steady,
         bulk.due[u] > 0 \/ Rank(u) >= Onset(bulk.page)
  PROVE  \/ bulk.due[u] > 0 \/ u \in OnPage
         \/ /\ Rank(u) >= Onset(bulk.page) + Limit
            /\ ~(OnPage = {} \/ bulk.page >= PagesFor(Cardinality(active)))
<1>1. /\ u \in active /\ Ranked(born, active)
      /\ bulk.page \in 1 .. Cardinality(Member) + 1
  BY DEF BulkTypes, BulkRow
<1>2. /\ Rank(u) \in Nat /\ Onset(bulk.page) \in Nat /\ Limit \in Nat
  BY <1>1, RankNumbers, PageStarts, BulkNumbers DEF Rank
<1>3. Rank(u) < Onset(bulk.page) + Limit /\ Rank(u) >= Onset(bulk.page) => u \in OnPage
  BY <1>1 DEF OnPage, WindowIn, Rank
<1>4. OnPage = {} \/ bulk.page >= PagesFor(Cardinality(active)) =>
        Rank(u) < Onset(bulk.page) + Limit
  BY <1>1, LastCovers DEF OnPage, Rank
<1> QED
  BY <1>2, <1>3, <1>4

\* The users of a page are read, before the count or after it.
LEMMA ReadKeeps ==
  ASSUME BulkInv, Bulks!ReadUsers
  PROVE  BulkInv'
<1>1. /\ BulkTypes /\ BulkOnce /\ BulkSame /\ BulkGrown
      /\ born' = born /\ active' = active /\ tried' = tried /\ steady' = steady
      /\ shaken' = shaken /\ bulk.at = "page" /\ Asked("users") /\ bulk.asks # {}
      /\ Ranked(born, active)
  BY DEF BulkInv, BulkTypes, Bulks!ReadUsers, Bulks!At, Asked
<1>2. bulk \in BulkRow
  BY <1>1 DEF BulkTypes, Bulks!Idle
<1>3. PICK us \in Bulks!Pages(bulk.scope) :
        bulk' = [bulk EXCEPT !.asks = @ \ {"users"}, !.found = us]
  BY DEF Bulks!ReadUsers
<1>4. /\ us \in SUBSET active /\ Cardinality(us) = Cardinality(OnPage)
      /\ bulk.scope = "all" => us = OnPage
  <2>1. OnPage \in SUBSET active
    BY DEF OnPage, WindowIn
  <2>2. CASE bulk.scope = "all"
    BY <1>3, <2>1, <2>2, BulkWords DEF Bulks!Pages
  <2>3. CASE bulk.scope # "all"
    BY <1>3, <2>3, BulkWords DEF Bulks!Pages
  <2> QED
    BY <2>2, <2>3
<1>5. us \in SUBSET Member
  BY <1>1, <1>4 DEF Ranked
<1>6. /\ bulk'.at = "page" /\ bulk'.scope = bulk.scope /\ bulk'.page = bulk.page
      /\ bulk'.asks = bulk.asks \ {"users"} /\ bulk'.found = us
      /\ bulk'.pages = bulk.pages /\ bulk'.due = bulk.due /\ bulk' \in BulkRow
  BY <1>1, <1>2, <1>3, <1>5 DEF BulkRow
<1>7. BulkTypes'
  BY <1>1, <1>6 DEF BulkTypes
<1>8. us # {} => bulk.page <= Cardinality(Member)
  <2> SUFFICES ASSUME us # {} PROVE bulk.page <= Cardinality(Member)
    OBVIOUS
  <2>1. IsFiniteSet(us) /\ IsFiniteSet(OnPage) /\ Cardinality({}) = 0
    BY <1>1, <1>5, SomeMembers, FS_EmptySet DEF OnPage, WindowIn, Ranked
  <2>2. OnPage # {}
    BY <1>4, <2>1, FS_EmptySet
  <2>3. PICK u \in active : Rank(u) >= Onset(bulk.page)
    BY <2>2 DEF OnPage, WindowIn, Rank
  <2>4. Rank(u) \in 0 .. Cardinality(active) - 1 /\ Cardinality(active) \in Nat
        /\ Cardinality(active) <= Cardinality(Member)
    BY <1>1, RankType, SomeMembers DEF Rank, Ranked
  <2>5. bulk.page \in 1 .. Cardinality(Member) + 1 /\ bulk.page - 1 <= Onset(bulk.page)
        /\ Onset(bulk.page) \in Nat
    BY <1>2, PageStarts DEF BulkRow
  <2> QED
    BY <2>3, <2>4, <2>5, BulkNumbers
<1>9. BulkOnce'
  BY <1>1, <1>2, <1>6, <1>8 DEF BulkOnce, Bulks!Idle, Asked
<1>10. Seen' = Seen /\ OnPage' = OnPage /\ (\A u : Rank(u)' = Rank(u))
  BY <1>1, <1>6 DEF Seen, OnPage, Rank
<1>11. BulkSame'
  BY <1>1, <1>4, <1>6, <1>10 DEF BulkSame, Asked
<1>12. BulkGrown'
  <2> SUFFICES ASSUME shaken \subseteq {"came"}, bulk.scope = "all" PROVE BulkGrown'
    BY <1>1, <1>6 DEF BulkGrown
  <2>1. /\ \A u \in steady : bulk.due[u] > 0 \/ Rank(u) >= Onset(bulk.page)
        /\ ~Asked("count") => bulk.pages = PagesFor(Cardinality(active))
    BY <1>1, <1>2 DEF BulkGrown
  <2>2. ASSUME bulk'.asks = {}, NEW u \in steady
        PROVE  \/ bulk.due[u] > 0 \/ u \in us
               \/ Rank(u) >= Onset(bulk.page) + Limit /\ ~Bulks!LastPage'
    <3>1. bulk.pages = PagesFor(Cardinality(active))
      BY <1>2, <1>6, <2>1, <2>2 DEF Asked, BulkRow
    <3>2. us = OnPage
      BY <1>4
    <3>3. \/ bulk.due[u] > 0 \/ u \in OnPage
          \/ /\ Rank(u) >= Onset(bulk.page) + Limit
             /\ ~(OnPage = {} \/ bulk.page >= PagesFor(Cardinality(active)))
      BY <1>1, <1>2, <2>1, <2>2, PageFinds
    <3> QED
      BY <1>6, <3>1, <3>2, <3>3 DEF Bulks!LastPage
  <2>3. ~Asked("count")' <=> ~Asked("count")
    BY <1>6 DEF Asked
  <2> HIDE DEF Onset
  <2> QED
    BY <1>1, <1>4, <1>6, <1>10, <2>1, <2>2, <2>3 DEF BulkGrown
<1> QED
  BY <1>7, <1>9, <1>11, <1>12 DEF BulkInv

LEMMA CountKeeps ==
  ASSUME BulkInv, Bulks!CountUsers
  PROVE  BulkInv'
<1> DEFINE n == PagesFor(Cardinality(active))
<1>1. /\ BulkTypes /\ BulkOnce /\ BulkSame /\ BulkGrown
      /\ born' = born /\ active' = active /\ tried' = tried /\ steady' = steady
      /\ shaken' = shaken /\ bulk.at = "page" /\ Asked("count") /\ bulk.asks # {}
      /\ Ranked(born, active)
      /\ bulk' = [bulk EXCEPT !.asks = @ \ {"count"}, !.pages = n]
  BY BulkWords DEF BulkInv, BulkTypes, Bulks!CountUsers, Bulks!At, Asked
<1>2. bulk \in BulkRow
  BY <1>1 DEF BulkTypes, Bulks!Idle
<1>3. n \in 0 .. Cardinality(Member) + 1
  <2>1. Cardinality(active) \in Nat /\ Cardinality(active) <= Cardinality(Member)
    BY <1>1, SomeMembers DEF Ranked
  <2>2. n \in Nat
    BY <2>1, BulkNumbers DEF PagesFor
  <2>3. n <= Cardinality(active)
    BY <2>1, <2>2, PagesReach DEF PagesFor
  <2> QED
    BY <2>1, <2>2, <2>3, BulkNumbers
<1> HIDE DEF n
<1>4. /\ bulk'.at = "page" /\ bulk'.scope = bulk.scope /\ bulk'.page = bulk.page
      /\ bulk'.asks = bulk.asks \ {"count"} /\ bulk'.found = bulk.found
      /\ bulk'.pages = n /\ bulk'.due = bulk.due /\ bulk' \in BulkRow
  BY <1>1, <1>2, <1>3 DEF BulkRow
<1>5. BulkTypes'
  BY <1>1, <1>4 DEF BulkTypes
<1>6. BulkOnce'
  BY <1>1, <1>2, <1>4 DEF BulkOnce, Bulks!Idle, Asked
<1>7. /\ Seen' = Seen /\ OnPage' = OnPage /\ (\A u : Rank(u)' = Rank(u))
      /\ PagesFor(Cardinality(active))' = n
  BY <1>1, <1>4 DEF Seen, OnPage, Rank, n
<1>8. BulkSame'
  BY <1>1, <1>4, <1>7 DEF BulkSame, Asked
<1>9. BulkGrown'
  <2> SUFFICES ASSUME shaken \subseteq {"came"}, bulk.scope = "all" PROVE BulkGrown'
    BY <1>1, <1>4 DEF BulkGrown
  <2>1. /\ \A u \in steady : bulk.due[u] > 0 \/ Rank(u) >= Onset(bulk.page)
        /\ ~Asked("users") => bulk.found = OnPage
    BY <1>1, <1>2 DEF BulkGrown
  <2>2. ASSUME bulk'.asks = {}, NEW u \in steady
        PROVE  \/ bulk.due[u] > 0 \/ u \in bulk.found
               \/ Rank(u) >= Onset(bulk.page) + Limit /\ ~Bulks!LastPage'
    <3>1. bulk.found = OnPage
      BY <1>2, <1>4, <2>1, <2>2 DEF Asked, BulkRow
    <3>2. \/ bulk.due[u] > 0 \/ u \in OnPage
          \/ Rank(u) >= Onset(bulk.page) + Limit /\ ~(OnPage = {} \/ bulk.page >= n)
      BY <1>1, <1>2, <2>1, <2>2, PageFinds DEF n
    <3> QED
      BY <1>4, <3>1, <3>2 DEF Bulks!LastPage
  <2>3. ~Asked("users")' <=> ~Asked("users")
    BY <1>4 DEF Asked
  <2> HIDE DEF Onset
  <2> QED
    BY <1>1, <1>4, <1>7, <2>1, <2>2, <2>3 DEF BulkGrown
<1> QED
  BY <1>5, <1>6, <1>8, <1>9 DEF BulkInv

\* What a page adds for each of its users.
LEMMA MoreOnce ==
  ASSUME NEW f \in Counts, NEW us \in SUBSET Member,
         \A u \in us : f[u] <= Cardinality(Member)
  PROVE  /\ Bulks!Plus(f, Bulks!Once(us)) \in Counts
         /\ \A u \in Member : Bulks!Plus(f, Bulks!Once(us))[u] =
                                IF u \in us THEN f[u] + 1 ELSE f[u]
<1>1. \A u \in Member : f[u] \in 0 .. Cardinality(Member) + 1
  BY DEF Counts
<1>2. \A u \in Member : Bulks!Plus(f, Bulks!Once(us))[u] = IF u \in us THEN f[u] + 1 ELSE f[u]
  BY <1>1, BulkNumbers DEF Bulks!Plus, Bulks!Once
<1>3. Bulks!Plus(f, Bulks!Once(us)) = [u \in Member |-> IF u \in us THEN f[u] + 1 ELSE f[u]]
  BY <1>1, BulkNumbers DEF Bulks!Plus, Bulks!Once
<1>4. \A u \in Member : (IF u \in us THEN f[u] + 1 ELSE f[u]) \in 0 .. Cardinality(Member) + 1
  BY <1>1, BulkNumbers
<1> QED
  BY <1>2, <1>3, <1>4 DEF Counts

\* The row of the next page.
LEMMA NextRow ==
  ASSUME bulk \in BulkRow, bulk.page <= Cardinality(Member), NEW owed \in Counts
  PROVE  LET row == [Bulks!NextPage EXCEPT !.due = owed]
         IN  /\ row \in BulkRow /\ row.at = bulk.at /\ row.scope = bulk.scope
             /\ row.page = bulk.page + 1 /\ row.asks = {"users", "count"}
             /\ row.found = {} /\ row.pages = 0 /\ row.due = owed
<1>1. bulk.page + 1 \in 1 .. Cardinality(Member) + 1 /\ 0 \in 0 .. Cardinality(Member) + 1
  BY BulkNumbers DEF BulkRow
<1> QED
  BY <1>1 DEF Bulks!NextPage, BulkRow

\* The pages up to the last have found as many users as there are.
LEMMA PageSame ==
  ASSUME BulkTypes, bulk \in BulkRow
  PROVE  LET next == BelowIn(born, active, Onset(bulk.page + 1))
         IN  /\ next = Seen \cup OnPage /\ Seen \cap OnPage = {}
             /\ Cardinality(next) = Cardinality(Seen) + Cardinality(OnPage)
             /\ OnPage = {} \/ bulk.page >= PagesFor(Cardinality(active)) => next = active
<1> DEFINE next == BelowIn(born, active, Onset(bulk.page + 1))
<1>1. Ranked(born, active) /\ bulk.page \in 1 .. Cardinality(Member) + 1
  BY DEF BulkTypes, BulkRow
<1>2. Onset(bulk.page) \in Nat /\ Onset(bulk.page + 1) = Onset(bulk.page) + Limit
  BY <1>1, PageStarts
<1>3. /\ next = Seen \cup OnPage /\ Seen \cap OnPage = {}
      /\ Cardinality(next) = Cardinality(Seen) + Cardinality(OnPage)
  BY <1>1, <1>2, WindowAdds DEF Seen, OnPage
<1>4. OnPage = {} \/ bulk.page >= PagesFor(Cardinality(active)) =>
        \A u \in active : RankIn(born, active, u) < Onset(bulk.page) + Limit
  BY <1>1, LastCovers DEF OnPage
<1>5. OnPage = {} \/ bulk.page >= PagesFor(Cardinality(active)) => next = active
  BY <1>2, <1>4 DEF BelowIn
<1> QED
  BY <1>3, <1>5

\* The users of a page are notified: as many more as the page holds.
LEMMA SendPageKeeps ==
  ASSUME BulkInv, Bulks!SendPage
  PROVE  BulkInv'
<1>1. /\ BulkTypes /\ BulkOnce /\ BulkSame /\ BulkGrown
      /\ born' = born /\ active' = active /\ steady' = steady
      /\ shaken' = shaken /\ bulk.at = "page" /\ bulk.asks = {} /\ bulk.scope = "city"
      /\ Ranked(born, active) /\ tried \in Counts
      /\ tried' = Bulks!Plus(tried, Bulks!Once(bulk.found))
  BY DEF BulkInv, BulkTypes, Bulks!SendPage, Bulks!At
<1>2. bulk \in BulkRow
  BY <1>1 DEF BulkTypes, Bulks!Idle
<1>3. /\ bulk.found \in SUBSET Member /\ bulk.page \in 1 .. Cardinality(Member) + 1
      /\ bulk.found # {} => bulk.page <= Cardinality(Member)
      /\ \A u \in Member : tried[u] <= bulk.page - 1 /\ bulk.due[u] <= bulk.page - 1
      /\ \A u \in Member : tried[u] \in Nat /\ bulk.due[u] \in Nat
      /\ bulk.due \in Counts
  BY <1>1, <1>2, BulkNumbers DEF BulkOnce, BulkRow, Counts
<1>4. \A u \in bulk.found : tried[u] <= Cardinality(Member)
  BY <1>3, BulkNumbers
<1>5. /\ tried' \in Counts
      /\ \A u \in Member : tried'[u] = IF u \in bulk.found THEN tried[u] + 1 ELSE tried[u]
  BY <1>1, <1>3, <1>4, MoreOnce
<1>6. \A u \in Member : tried'[u] <= bulk.page
  BY <1>3, <1>5, BulkNumbers
<1>7. shaken = {} =>
        /\ Cardinality(SendsOf(tried')) = Cardinality(Seen) + Cardinality(OnPage)
        /\ bulk.pages = PagesFor(Cardinality(active))
        /\ bulk.found = {} => OnPage = {}
  <2> SUFFICES ASSUME shaken = {} PROVE
        /\ Cardinality(SendsOf(tried')) = Cardinality(Seen) + Cardinality(OnPage)
        /\ bulk.pages = PagesFor(Cardinality(active))
        /\ bulk.found = {} => OnPage = {}
    OBVIOUS
  <2>1. /\ Cardinality(SendsOf(tried)) = Cardinality(Seen)
        /\ Cardinality(bulk.found) = Cardinality(OnPage)
        /\ bulk.pages = PagesFor(Cardinality(active))
    BY <1>1 DEF BulkSame, Asked
  <2>2. Cardinality(SendsOf(tried')) = Cardinality(SendsOf(tried)) + Cardinality(bulk.found)
    BY <1>1, <1>3, <1>5, SendsMore
  <2>3. IsFiniteSet(OnPage) /\ Cardinality({}) = 0
    BY <1>1, SomeMembers, FS_EmptySet DEF OnPage, WindowIn, Ranked
  <2>4. bulk.found = {} => OnPage = {}
    BY <2>1, <2>3, FS_EmptySet
  <2> QED
    BY <2>1, <2>2, <2>4
<1>8. CASE Bulks!LastPage
  <2>1. bulk' = [bulk EXCEPT !.at = "done"]
    BY <1>8 DEF Bulks!SendPage
  <2>2. bulk' \in BulkRow /\ bulk'.at = "done" /\ bulk'.scope = "city"
    BY <1>1, <1>2, <2>1 DEF BulkRow
  <2>3. BulkTypes' /\ BulkOnce' /\ BulkGrown'
    BY <1>1, <1>5, <2>2 DEF BulkTypes, BulkOnce, BulkGrown, Bulks!Idle
  <2>4. BulkSame'
    <3> SUFFICES ASSUME shaken = {}
                 PROVE  Cardinality(SendsOf(tried')) = Cardinality(active)
      BY <1>1, <2>2 DEF BulkSame
    <3>1. OnPage = {} \/ bulk.page >= PagesFor(Cardinality(active))
      BY <1>7, <1>8 DEF Bulks!LastPage
    <3> QED
      BY <1>1, <1>2, <1>7, <3>1, PageSame
  <2> QED
    BY <2>3, <2>4 DEF BulkInv
<1>9. CASE ~Bulks!LastPage
  <2> DEFINE row == [Bulks!NextPage EXCEPT !.due = bulk.due]
  <2>1. bulk' = Bulks!NextPage /\ bulk.found # {}
    BY <1>9 DEF Bulks!SendPage, Bulks!LastPage
  <2>2. row = Bulks!NextPage
    BY <1>2 DEF Bulks!NextPage, BulkRow
  <2>3. /\ row \in BulkRow /\ row.at = "page" /\ row.scope = "city"
        /\ row.page = bulk.page + 1 /\ row.asks = {"users", "count"}
        /\ row.found = {} /\ row.pages = 0 /\ row.due = bulk.due
    BY <1>1, <1>2, <1>3, <2>1, NextRow
  <2> HIDE DEF row
  <2>4. /\ bulk' \in BulkRow /\ bulk'.at = "page" /\ bulk'.scope = "city"
        /\ bulk'.page = bulk.page + 1 /\ bulk'.asks = {"users", "count"}
        /\ bulk'.found = {} /\ bulk'.pages = 0 /\ bulk'.due = bulk.due
    BY <2>1, <2>2, <2>3, Zenon
  <2>5. BulkTypes' /\ BulkGrown'
    BY <1>1, <1>5, <2>4 DEF BulkTypes, BulkGrown
  <2>6. \A u \in Member : tried'[u] <= bulk'.page - 1 /\ bulk'.due[u] <= bulk'.page - 1
    BY <1>3, <1>6, <2>4, BulkNumbers
  <2>7. BulkOnce'
    BY <2>4, <2>6 DEF BulkOnce, Bulks!Idle
  <2>8. Seen' = BelowIn(born, active, Onset(bulk.page + 1))
    BY <1>1, <2>4 DEF Seen
  <2>9. BulkSame'
    <3> SUFFICES ASSUME shaken = {}
                 PROVE  Cardinality(SendsOf(tried')) = Cardinality(Seen')
      BY <1>1, <2>4 DEF BulkSame, Asked
    <3> QED
      BY <1>1, <1>2, <1>7, <2>8, PageSame
  <2> QED
    BY <2>5, <2>7, <2>9 DEF BulkInv
<1> QED
  BY <1>8, <1>9

\* The users of a page are collected: each of them once more.
LEMMA CollectKeeps ==
  ASSUME BulkInv, Bulks!Collect
  PROVE  BulkInv'
<1> DEFINE owed == Bulks!Plus(bulk.due, Bulks!Once(bulk.found))
<1>1. /\ BulkTypes /\ BulkOnce /\ BulkSame /\ BulkGrown
      /\ born' = born /\ active' = active /\ steady' = steady /\ tried' = tried
      /\ shaken' = shaken /\ bulk.at = "page" /\ bulk.asks = {} /\ bulk.scope = "all"
      /\ Ranked(born, active) /\ tried \in Counts
      /\ \A u \in Member : tried[u] = 0
      /\ steady \subseteq active
  BY DEF BulkInv, BulkTypes, BulkOnce, Bulks!Collect, Bulks!At
<1>2. bulk \in BulkRow
  BY <1>1 DEF BulkTypes, Bulks!Idle
<1>3. /\ bulk.found \in SUBSET Member /\ bulk.page \in 1 .. Cardinality(Member) + 1
      /\ bulk.found # {} => bulk.page <= Cardinality(Member)
      /\ \A u \in Member : bulk.due[u] <= bulk.page - 1
      /\ \A u \in Member : bulk.due[u] \in Nat
      /\ bulk.due \in Counts
  BY <1>1, <1>2, BulkNumbers DEF BulkOnce, BulkRow, Counts
<1>4. \A u \in bulk.found : bulk.due[u] <= Cardinality(Member)
  BY <1>3, BulkNumbers
<1>5. /\ owed \in Counts
      /\ \A u \in Member : owed[u] = IF u \in bulk.found THEN bulk.due[u] + 1 ELSE bulk.due[u]
  BY <1>3, <1>4, MoreOnce
<1>6. /\ Bulks!LastPage => bulk' = [bulk EXCEPT !.at = "send", !.due = owed]
      /\ ~Bulks!LastPage => bulk' = [Bulks!NextPage EXCEPT !.due = owed]
  BY DEF Bulks!Collect
<1> HIDE DEF owed
<1>7. \A u \in Member : owed[u] <= bulk.page
  BY <1>3, <1>5, BulkNumbers
<1>8. shaken = {} =>
        /\ \A u \in Member : owed[u] = IF u \in Seen \cup OnPage THEN 1 ELSE 0
        /\ bulk.pages = PagesFor(Cardinality(active)) /\ bulk.found = OnPage
  <2> SUFFICES ASSUME shaken = {} PROVE
        /\ \A u \in Member : owed[u] = IF u \in Seen \cup OnPage THEN 1 ELSE 0
        /\ bulk.pages = PagesFor(Cardinality(active)) /\ bulk.found = OnPage
    OBVIOUS
  <2>1. /\ \A u \in Member : bulk.due[u] = IF u \in Seen THEN 1 ELSE 0
        /\ bulk.pages = PagesFor(Cardinality(active)) /\ bulk.found = OnPage
    BY <1>1 DEF BulkSame, Asked
  <2>2. Seen \cap OnPage = {}
    BY <1>1, <1>2, PageSame
  <2> QED
    BY <1>5, <2>1, <2>2
<1>9. CASE Bulks!LastPage
  <2>1. bulk' \in BulkRow /\ bulk'.at = "send" /\ bulk'.scope = "all" /\ bulk'.due = owed
    BY <1>1, <1>2, <1>5, <1>6, <1>9 DEF BulkRow
  <2>2. BulkTypes' /\ BulkOnce'
    BY <1>1, <2>1 DEF BulkTypes, BulkOnce, Bulks!Idle
  <2>3. BulkSame'
    <3> SUFFICES ASSUME shaken = {}
                 PROVE  \A u \in Member : owed[u] = IF u \in active THEN 1 ELSE 0
      BY <1>1, <2>1 DEF BulkSame
    <3>1. OnPage = {} \/ bulk.page >= PagesFor(Cardinality(active))
      BY <1>8, <1>9 DEF Bulks!LastPage
    <3>2. Seen \cup OnPage = active
      BY <1>1, <1>2, <3>1, PageSame
    <3> QED
      BY <1>8, <3>2
  <2>4. BulkGrown'
    <3> SUFFICES ASSUME shaken \subseteq {"came"}, NEW u \in steady PROVE owed[u] > 0
      BY <1>1, <2>1 DEF BulkGrown
    <3>1. bulk.due[u] > 0 \/ u \in bulk.found
      BY <1>1, <1>2, <1>9 DEF BulkGrown
    <3>2. u \in Member
      BY <1>1 DEF Ranked
    <3> QED
      BY <1>3, <1>5, <3>1, <3>2
  <2> QED
    BY <2>2, <2>3, <2>4 DEF BulkInv
<1>10. CASE ~Bulks!LastPage
  <2> DEFINE row == [Bulks!NextPage EXCEPT !.due = owed]
  <2>1. bulk.found # {} /\ bulk' = row
    BY <1>6, <1>10 DEF Bulks!LastPage
  <2>2. /\ row \in BulkRow /\ row.at = "page" /\ row.scope = "all"
        /\ row.page = bulk.page + 1 /\ row.asks = {"users", "count"}
        /\ row.found = {} /\ row.pages = 0 /\ row.due = owed
    BY <1>1, <1>2, <1>3, <1>5, <2>1, NextRow
  <2> HIDE DEF row
  <2>3. /\ bulk' \in BulkRow /\ bulk'.at = "page" /\ bulk'.scope = "all"
        /\ bulk'.page = bulk.page + 1 /\ bulk'.asks = {"users", "count"}
        /\ bulk'.found = {} /\ bulk'.pages = 0 /\ bulk'.due = owed
    BY <2>1, <2>2, Zenon
  <2>4. BulkTypes'
    BY <1>1, <2>3 DEF BulkTypes
  <2>5. \A u \in Member : bulk'.due[u] <= bulk'.page - 1
    BY <1>3, <1>7, <2>3, BulkNumbers
  <2>6. BulkOnce'
    BY <1>1, <2>3, <2>5 DEF BulkOnce, Bulks!Idle
  <2>7. Seen' = Seen \cup OnPage
    BY <1>1, <1>2, <2>3, PageSame DEF Seen
  <2>8. BulkSame'
    BY <1>1, <1>8, <2>3, <2>7 DEF BulkSame, Asked
  <2>9. BulkGrown'
    <3> SUFFICES ASSUME shaken \subseteq {"came"}, NEW u \in steady
                 PROVE  owed[u] > 0 \/ Rank(u)' >= Onset(bulk.page + 1)
      BY <1>1, <2>3 DEF BulkGrown, Asked
    <3>1. \/ bulk.due[u] > 0 \/ u \in bulk.found
          \/ Rank(u) >= Onset(bulk.page) + Limit
      BY <1>1, <1>2 DEF BulkGrown
    <3>2. u \in Member
      BY <1>1 DEF Ranked
    <3>3. Onset(bulk.page + 1) = Onset(bulk.page) + Limit /\ Rank(u)' = Rank(u)
      BY <1>1, <1>3, PageStarts DEF Rank
    <3> QED
      BY <1>3, <1>5, <3>1, <3>2, <3>3
  <2> QED
    BY <2>4, <2>6, <2>8, <2>9 DEF BulkInv
<1> QED
  BY <1>9, <1>10

LEMMA SendAllKeeps ==
  ASSUME BulkInv, Bulks!SendAll
  PROVE  BulkInv'
<1>1. /\ BulkTypes /\ BulkOnce /\ BulkSame /\ BulkGrown
      /\ born' = born /\ active' = active /\ steady' = steady
      /\ shaken' = shaken /\ bulk.at = "send" /\ bulk.scope = "all"
      /\ active \in SUBSET Member /\ tried \in Counts
      /\ \A u \in Member : tried[u] = 0
      /\ tried' = Bulks!Plus(tried, bulk.due) /\ bulk' = [bulk EXCEPT !.at = "done"]
      /\ steady \subseteq active
  BY DEF BulkInv, BulkTypes, BulkOnce, Ranked, Bulks!SendAll, Bulks!At
<1>2. bulk \in BulkRow
  BY <1>1 DEF BulkTypes, Bulks!Idle
<1>3. bulk' \in BulkRow /\ bulk'.at = "done" /\ bulk'.scope = "all"
  BY <1>1, <1>2 DEF BulkRow
<1>4. \A u \in Member : bulk.due[u] \in 0 .. Cardinality(Member) + 1
  BY <1>2 DEF BulkRow, Counts
<1>5. tried' \in Counts /\ \A u \in Member : tried'[u] = bulk.due[u]
  BY <1>1, <1>4, BulkNumbers DEF Bulks!Plus, Counts
<1>6. BulkTypes' /\ BulkOnce'
  BY <1>1, <1>3, <1>5 DEF BulkTypes, BulkOnce, Bulks!Idle
<1>7. BulkSame'
  <2> SUFFICES ASSUME shaken = {}
               PROVE  /\ Cardinality(SendsOf(tried')) = Cardinality(active)
                      /\ \A u \in active : tried'[u] = 1
    BY <1>1, <1>3 DEF BulkSame
  <2>1. \A u \in Member : tried'[u] = IF u \in active THEN 1 ELSE 0
    BY <1>1, <1>5 DEF BulkSame
  <2>2. \A u \in Member : tried'[u] = IF u \in active THEN tried[u] + 1 ELSE tried[u]
    BY <1>1, <2>1
  <2>3. Cardinality(SendsOf(tried')) = Cardinality(SendsOf(tried)) + Cardinality(active)
    BY <1>1, <1>5, <2>2, SendsMore
  <2>4. Cardinality(SendsOf(tried)) = 0 /\ Cardinality(active) \in Nat
    BY <1>1, SendsNone, SomeMembers
  <2> QED
    BY <1>1, <2>1, <2>3, <2>4
<1>8. BulkGrown'
  <2> SUFFICES ASSUME shaken \subseteq {"came"}, NEW u \in steady PROVE tried'[u] > 0
    BY <1>1, <1>3 DEF BulkGrown
  <2> QED
    BY <1>1, <1>2, <1>5 DEF BulkGrown
<1> QED
  BY <1>6, <1>7, <1>8 DEF BulkInv

LEMMA FailKeeps ==
  ASSUME BulkInv, Bulks!Fail
  PROVE  BulkInv'
<1>1. /\ BulkTypes /\ BulkOnce
      /\ born' = born /\ active' = active /\ steady' = steady /\ tried' = tried
      /\ shaken' = shaken /\ bulk.at = "page" /\ bulk' = [bulk EXCEPT !.at = "error"]
  BY DEF BulkInv, Bulks!Fail, Bulks!At
<1>2. bulk \in BulkRow
  BY <1>1 DEF BulkTypes, Bulks!Idle
<1>3. bulk' \in BulkRow /\ bulk'.at = "error" /\ bulk'.scope = bulk.scope
  BY <1>1, <1>2 DEF BulkRow
<1> QED
  BY <1>1, <1>3 DEF BulkInv, BulkTypes, BulkOnce, BulkSame, BulkGrown, Bulks!Idle

LEMMA BulkStep ==
  ASSUME BulkInv, [Bulks!Next]_(Bulks!bulkVars)
  PROVE  BulkInv'
<1>1. CASE UNCHANGED Bulks!bulkVars
  BY <1>1
     DEF Bulks!bulkVars, BulkInv, BulkTypes, BulkOnce, BulkSame, BulkGrown, Asked, Seen,
         OnPage, Rank, Bulks!LastPage, Bulks!Idle
<1>2. CASE Bulks!Next
  BY <1>2, ComeKeeps, LeaveKeeps, BulkStartKeeps, ReadKeeps, CountKeeps, SendPageKeeps,
     CollectKeeps, SendAllKeeps, FailKeeps
     DEF Bulks!Next, Bulks!Scope
<1> QED
  BY <1>1, <1>2

LEMMA BulkReached == BulkInv => Bulks!BulkReaches /\ Bulks!TypeOK
<1> SUFFICES ASSUME BulkInv PROVE Bulks!BulkReaches /\ Bulks!TypeOK
  OBVIOUS
<1>1. bulk.at \in {"done", "error"} => bulk \in BulkRow
  BY DEF BulkInv, BulkTypes, Bulks!Idle
<1>2. Bulks!At("error") /\ bulk.scope = "all" => Bulks!Total = 0
  BY BulkWords, SendsNone DEF BulkInv, BulkOnce, Bulks!At
<1>3. Bulks!BulkReaches
  BY <1>1, <1>2, BulkWords DEF Bulks!BulkReaches, Bulks!At, BulkInv, BulkSame, BulkGrown
<1>4. born \in Seq(Member) /\ active \subseteq Bulks!Range(born)
      /\ Bulks!Range(born) \subseteq Member
  BY DEF BulkInv, BulkTypes, Ranked, Bulks!Range
<1>5. tried \in [Member -> 0 .. Bulks!MaxPage]
  BY BulkNumbers DEF BulkInv, BulkTypes, Counts
<1> QED
  BY <1>3, <1>4, <1>5, BulkWords DEF Bulks!TypeOK, BulkInv, BulkTypes

-----------------------------------------------------------------------------
(* The parts in MCLinks *)

\* Each part keeps its own invariant, and the others stand still.
PartsInv ==
  /\ kind = "delivery" => DeliveryInv
  /\ kind = "newsletter" => NewsInv
  /\ kind = "scheduler" => HourInv
  /\ kind = "projects" => ProjectInv
  /\ kind = "alerts" => AlertsInv
  /\ kind = "errors" => ErrorInv
  /\ kind = "bulk" => BulkInv

KnownPart ==
  kind \in {"verification", "reset", "delivery", "bulk", "newsletter", "scheduler",
            "projects", "alerts", "errors"}

LEMMA PartsInvInit == Init => PartsInv
BY DeliveryInvInit, NewsInvInit, HourInvInit, ProjectInvInit, AlertsInvInit, ErrorInit,
   BulkInit
   DEF Init, PartsInv

\* A step is one of the part the behaviour is about.
LEMMA PartSteps ==
  ASSUME [Next]_all
  PROVE  /\ kind' = kind
         /\ kind = "delivery" => [Delivery!Next]_(Delivery!noteVars)
         /\ kind = "newsletter" => [Subscriptions!Next]_(Subscriptions!newsVars)
         /\ kind = "scheduler" => [Hourly!Next]_(Hourly!scheduleVars)
         /\ kind = "projects" => [Projects!Next]_(Projects!projectVars)
         /\ kind = "alerts" => [Alerts!Next]_(Alerts!monitoringVars)
         /\ kind = "errors" => [Errors!Next]_(Errors!errorVars)
         /\ kind = "bulk" => [Bulks!Next]_(Bulks!bulkVars)
BY DEF Next, HostedNext, NotVerification, NotReset, all, hosted, noteVars, newsVars,
       scheduleVars, projectVars, alertVars, errorVars, bulkVars, Delivery!noteVars,
       Subscriptions!newsVars, Hourly!scheduleVars, Projects!projectVars,
       Alerts!monitoringVars, Errors!errorVars, Bulks!bulkVars

LEMMA PartsInvStep ==
  ASSUME PartsInv, [Next]_all
  PROVE  PartsInv'
BY PartSteps, DeliveryInvStep, NewsInvStep, HourInvStep, ProjectInvStep, AlertsInvStep,
   ErrorStep, BulkStep
   DEF PartsInv

\* What is stored about a message says what became of it, in every state of
\* deliveries, subscriptions and changes of the credentials.
THEOREM NotificationsTold == Spec => []NotificationsTell
<1>1. PartsInv => NotificationsTell
  BY DeliveryTells, NewsAgree, ProjectAgree DEF PartsInv, NotificationsTell
<1>2. PartsInv /\ [Next]_all => PartsInv'
  BY PartsInvStep
<1> QED
  BY <1>1, <1>2, PartsInvInit, PTL DEF Spec

\* One hourly run at a time while the lock outlives it, with the count of what
\* was published; and no alert before its cooldown, none about what is past.
THEOREM RunsStayApart == Spec => []RunsApart
<1>1. PartsInv => RunsApart
  BY HourApart DEF PartsInv, RunsApart, AlertsInv, Alerts!AlertsApartAndRecent
<1>2. PartsInv /\ [Next]_all => PartsInv'
  BY PartsInvStep
<1> QED
  BY <1>1, <1>2, PartsInvInit, PTL DEF Spec

\* A bulk that was answered with success has reached its users, however many
\* there are and whoever comes while its pages are read; and the errors are
\* judged as if all were kept, however many the history forgets.
THEOREM PartsTellEverything == Spec => []PartsTellAll
<1>1. PartsInv => PartsTellAll
  BY BulkReached, ErrorsTold DEF PartsInv, PartsTellAll
<1>2. PartsInv /\ [Next]_all => PartsInv'
  BY PartsInvStep
<1> QED
  BY <1>1, <1>2, PartsInvInit, PTL DEF Spec

\* Every part keeps its types.
THEOREM PartsTyped == Spec => []TypeOK
<1>1. PartsInv /\ LinksInv /\ KnownPart => TypeOK
  BY BulkReached
     DEF PartsInv, LinksInv, TypeOK, KnownPart, VerifyInv, ResetInv, DeliveryInv, NewsInv,
         HourInv, ProjectInv, AlertsInv, ErrorInv
<1>2. PartsInv /\ LinksInv /\ KnownPart /\ [Next]_all => (PartsInv /\ LinksInv /\ KnownPart)'
  BY PartsInvStep, LinksInvStep, PartSteps DEF KnownPart
<1>3. Init => PartsInv /\ LinksInv /\ KnownPart
  BY PartsInvInit, LinksInvInit DEF KnownPart, Init
<1> QED
  BY <1>1, <1>2, <1>3, PTL DEF Spec
=============================================================================
