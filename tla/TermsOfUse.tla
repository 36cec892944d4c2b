----------------------------- MODULE TermsOfUse -----------------------------
(***************************************************************************)
(* The latest terms of use (apps/users, modules/terms), general ones and   *)
(* those of a city.  New terms become the latest in two statements: the    *)
(* old ones are unmarked, then the new row is written.  Two admins may do  *)
(* so at once, and a statement may fail.  Terms of different locales share *)
(* nothing, so one locale is modelled.  What users make of the terms, and  *)
(* the columns only that depends on, are in TermsGuard.                    *)
(***************************************************************************)
EXTENDS Integers

CONSTANTS
  City,
  Version,
  MaxTerms,  \* bound on the rows; they are numbered as they are created
  Call,      \* admin requests that may be under way at once
  None

Terms == 1 .. MaxTerms
Slot  == City \cup {None}   \* None: the general terms

TermsAssumption ==
  /\ MaxTerms \in Nat
  /\ None \notin City /\ None \notin Terms /\ None \notin BOOLEAN

VARIABLES
  terms,       \* table terms_of_use
  job,         \* what each admin request still has to do
  announced,   \* history: slots an admin has put latest terms into
  overlapped,  \* history: slots two admins put latest terms into at once
  broken       \* history: slots whose old terms were unmarked in vain

termsVars == <<terms, job, announced, overlapped, broken>>

Row   == [slot : Slot, version : Version, latest : BOOLEAN]
NoRow == [latest |-> FALSE]

\* latest is None when an update leaves the column out.
Idle == [at |-> "idle"]
Job  == [at : {"unmark", "write"}, id : Terms \cup {None}, slot : Slot,
         version : Version, latest : BOOLEAN \cup {None}]

TypeOK ==
  /\ terms \in [Terms -> Row \cup {NoRow}]
  /\ job \in [Call -> Job \cup {Idle}]
  /\ {announced, overlapped, broken} \subseteq SUBSET Slot

Init ==
  /\ terms = [t \in Terms |-> NoRow]
  /\ job = [k \in Call |-> Idle]
  /\ announced = {} /\ overlapped = {} /\ broken = {}

At(k, place) == job[k].at = place
Finish(k)    == job' = [job EXCEPT ![k] = Idle]

Latest(slot) == {t \in Terms : terms[t].latest /\ terms[t].slot = slot}

\* Another request is about to write the latest terms of the slot.
Racing(k, slot) ==
  \E j \in Call \ {k} : ~At(j, "idle") /\ job[j].latest = TRUE /\ job[j].slot = slot

-----------------------------------------------------------------------------

\* Mutant: only new terms unmark the old ones.
UnmarksOnCreate(latest, id) == latest = TRUE /\ id = None

\* Both operations unmark the other latest terms before they write.
UnmarksOthers(latest, id) == latest = TRUE

Begin(k, id, slot, version, latest) ==
  /\ job' = [job EXCEPT ![k] =
       [at |-> IF UnmarksOthers(latest, id) THEN "unmark" ELSE "write",
        id |-> id, slot |-> slot, version |-> version, latest |-> latest]]
  /\ overlapped' = IF latest = TRUE /\ Racing(k, slot)
                   THEN overlapped \cup {slot} ELSE overlapped

\* createTerms looks for a row of the same version.
CreateTerms(k) ==
  /\ At(k, "idle")
  /\ \E slot \in Slot, version \in Version, latest \in BOOLEAN :
       /\ \A t \in Terms : terms[t] # NoRow =>
            <<terms[t].slot, terms[t].version>> # <<slot, version>>
       /\ Begin(k, None, slot, version, latest)
  /\ UNCHANGED <<terms, announced, broken>>

\* updateTerms of a row that is there.
UpdateTerms(k, t) ==
  /\ At(k, "idle") /\ terms[t] # NoRow
  /\ \E latest \in BOOLEAN \cup {None} :
       Begin(k, t, terms[t].slot, terms[t].version, latest)
  /\ UNCHANGED <<terms, announced, broken>>

\* updateMany: all latest terms of the slot but the row being updated.  A
\* request alone on its slot mends what earlier ones left there.
UnmarkLatest(k) ==
  /\ At(k, "unmark")
  /\ LET j == job[k]
     IN  /\ terms' = [t \in Terms |->
              IF t \in Latest(j.slot) \ {j.id} THEN [terms[t] EXCEPT !.latest = FALSE]
                                               ELSE terms[t]]
         /\ IF Racing(k, j.slot) THEN UNCHANGED <<overlapped, broken>>
            ELSE /\ overlapped' = overlapped \ {j.slot}
                 /\ broken' = broken \ {j.slot}
  /\ job' = [job EXCEPT ![k].at = "write"]
  /\ UNCHANGED <<announced>>

Announce(j) ==
  announced' = IF j.latest = TRUE THEN announced \cup {j.slot} ELSE announced

\* The insert.  The unique index on version, locale and city knows no two
\* rows of one city alike; general terms have no city and escape it.
InsertTerms(k, t) ==
  /\ At(k, "write") /\ job[k].id = None
  /\ terms[t] = NoRow /\ \A s \in Terms : s < t => terms[s] # NoRow
  /\ LET j == job[k]
     IN  IF j.slot # None /\ \E s \in Terms : /\ terms[s] # NoRow
                                              /\ terms[s].slot = j.slot
                                              /\ terms[s].version = j.version
         THEN /\ broken' = IF j.latest THEN broken \cup {j.slot} ELSE broken
              /\ UNCHANGED <<terms, announced>>
         ELSE /\ terms' = [terms EXCEPT ![t] =
                   [slot |-> j.slot, version |-> j.version, latest |-> j.latest]]
              /\ Announce(j)
              /\ UNCHANGED broken
  /\ Finish(k)
  /\ UNCHANGED <<overlapped>>

\* The update.  It may take the mark away and put nothing in its place.
StoreTerms(k) ==
  /\ At(k, "write") /\ job[k].id # None
  /\ LET j == job[k]
         row == terms[j.id]
     IN  /\ terms' = [terms EXCEPT ![j.id].latest =
              IF j.latest = None THEN @ ELSE j.latest]
         /\ IF j.latest = FALSE /\ row.latest THEN announced' = announced \ {j.slot}
                                              ELSE Announce(j)
  /\ Finish(k)
  /\ UNCHANGED <<overlapped, broken>>

\* A statement fails or the process dies between the two.
BreakOff(k) ==
  /\ At(k, "write")
  /\ broken' = IF job[k].latest = TRUE THEN broken \cup {job[k].slot} ELSE broken
  /\ Finish(k)
  /\ UNCHANGED <<terms, announced, overlapped>>

Next ==
  \/ \E k \in Call :
       \/ CreateTerms(k)
       \/ UnmarkLatest(k)
       \/ StoreTerms(k)
       \/ BreakOff(k)
  \/ \E k \in Call, t \in Terms : UpdateTerms(k, t) \/ InsertTerms(k, t)

Spec == Init /\ [][Next]_termsVars

(***************************************************************************)
(* Properties                                                              *)
(***************************************************************************)

\* "Only one should be true per locale+cityId combination": where an admin
\* has put latest terms, and taken them back by no update, there are latest
\* terms whenever no request is putting others there, and only one if no two
\* requests met - unless one broke off between its statements, or was
\* refused after it had unmarked the old ones.
OneLatest ==
  \A slot \in announced \ broken :
    \/ \E k \in Call : ~At(k, "idle") /\ job[k].latest = TRUE /\ job[k].slot = slot
    \/ \E t \in Terms : Latest(slot) = {t}
    \/ slot \in overlapped /\ Latest(slot) # {}
=============================================================================
