---------------------------- MODULE ListingParts ----------------------------
(***************************************************************************)
(* The rows that hang on a listing: its categories, opening times and      *)
(* exceptions from them (apps/core, modules/listings).  PATCH replaces the *)
(* lists that are sent in one transaction, which locks the listing's row   *)
(* first; the import replaces categories and times in statements of their  *)
(* own.  Both run as PostgreSQL has them by default: a statement sees what *)
(* is committed when it starts, and waits for rows another transaction has *)
(* touched.                                                                *)
(*                                                                         *)
(* What a row says is told apart by who wrote it.  The columns of the      *)
(* listing itself are in Listings.                                         *)
(***************************************************************************)
EXTENDS Naturals, FiniteSets

CONSTANTS
  Category,  \* keys of the rows in listing_categories, as numbers
  Edit,      \* the PATCH requests, each made once
  Body,      \* what a request may send: the categories, and of either list of
             \* times what becomes of the items it knows
  Import,    \* what wrote the rows at first, and runs once more
  None,
  MaxId      \* bound on the ids of times and exceptions

PartsAssumption ==
  /\ Import \notin Edit /\ None \notin Edit \cup {Import}
  /\ Body \subseteq [categories : (SUBSET Category) \cup {None},
                     intervals  : {"unsent", "kept", "replaced"},
                     exceptions : {"unsent", "kept", "replaced"}]
  /\ MaxId \in Nat \ {0, 1} /\ Category \subseteq Nat \ (0 .. MaxId)

Part == {"categories", "intervals", "exceptions"}
Id   == Category \cup (1 .. MaxId)

VARIABLES
  rows,    \* the committed rows of each part
  lastId,
  edit,    \* what each request knows and sends, and where it is
  sync,    \* where the import is
  alone,   \* history: edits no import overlapped, and the import if no edit did
  stands   \* history: who wrote last, if alone

partVars == <<rows, lastId, edit, sync, alone, stands>>

Row  == [id : Id, by : Edit \cup {Import}]
Lone == [at |-> "idle"]
Over == [at |-> "failed"]
Job  == [at : {"known", "categories", "intervals", "exceptions", "commit", "done"},
         sent : [Part -> (SUBSET Id) \cup {None}],  \* ids of each list; None if it is not sent
         adds : SUBSET {"intervals", "exceptions"},  \* lists with an item that has no id
         doomed : [Part -> SUBSET Id]]               \* ids deleted, not yet committed

IdsOf(p)  == {r.id : r \in rows[p]}
At(e, place) == edit[e].at = place

Open(e)  == edit[e].at \in Part \cup {"commit"}
Quiet    == sync.at \in {"idle", "over", "failed"}

TypeOK ==
  /\ rows \in [Part -> SUBSET Row] /\ lastId \in 0 .. MaxId
  /\ \A p \in Part : \A r, q \in rows[p] : r.id = q.id => r = q
  /\ edit \in [Edit -> Job \cup {Lone, Over}]
  /\ sync \in [at : {"idle", "drop", "dropping", "add", "write", "over", "failed"},
               part : {"categories", "intervals"},
               snap : SUBSET Id, cats : SUBSET Category]
  /\ alone \subseteq Edit \cup {Import} /\ stands \in Edit \cup {Import, None}

\* An imported listing with one opening time and one exception.
Init ==
  /\ \E cats \in SUBSET Category :
       rows = [categories |-> {[id |-> c, by |-> Import] : c \in cats},
               intervals  |-> {[id |-> 1, by |-> Import]},
               exceptions |-> {[id |-> 2, by |-> Import]}]
  /\ lastId = 2
  /\ edit = [e \in Edit |-> Lone]
  /\ sync = [at |-> "idle", part |-> "categories", snap |-> {}, cats |-> {}]
  /\ alone = {} /\ stands = None

-----------------------------------------------------------------------------
\* PATCH /listings/:id

\* The client reads the listing, and knows its items by their ids.
Fetch(e) ==
  /\ At(e, "idle")
  /\ edit' = [edit EXCEPT ![e] =
       [at |-> "known", sent |-> [p \in Part |-> IF p = "categories" THEN None ELSE IdsOf(p)],
        adds |-> {}, doomed |-> [p \in Part |-> {}]]]
  /\ UNCHANGED <<rows, lastId, sync, alone, stands>>

\* The list sent of a part: the known items with their ids, or one without.
List(choice, known) ==
  CASE choice = "unsent"   -> None
    [] choice = "kept"     -> known
    [] choice = "replaced" -> {}

\* The update of the listing's row keeps other edits, and the last statement
\* of the import, waiting until the end.
UpdateListing(e) ==
  /\ At(e, "known") /\ \A o \in Edit : ~Open(o)
  /\ \E b \in Body :
       edit' = [edit EXCEPT ![e].at = "categories",
         ![e].sent = [p \in Part |-> IF p = "categories" THEN b.categories
                                    ELSE List(b[p], edit[e].sent[p])],
         ![e].adds = {p \in Part \ {"categories"} : b[p] = "replaced"}]
  /\ alone' = IF Quiet THEN alone \cup {e} ELSE alone \ {Import}
  /\ UNCHANGED <<rows, lastId, sync, stands>>

\* What is not in the list goes.
Doom(e, p, place) ==
  edit' = [edit EXCEPT ![e].at = place,
                       ![e].doomed[p] = IF edit[e].sent[p] = None THEN {}
                                        ELSE IdsOf(p) \ edit[e].sent[p]]

SyncListingCategories(e) ==
  /\ At(e, "categories")
  /\ Doom(e, "categories", "intervals")
  /\ UNCHANGED <<rows, lastId, sync, alone, stands>>

\* The update of an item throws when its row is gone.
Known(e, p) == edit[e].sent[p] # None => edit[e].sent[p] \subseteq IdsOf(p)

SyncListingTimeIntervals(e) ==
  /\ At(e, "intervals") /\ Known(e, "intervals")
  /\ Doom(e, "intervals", "exceptions")
  /\ UNCHANGED <<rows, lastId, sync, alone, stands>>

SyncListingTimeIntervalExceptions(e) ==
  /\ At(e, "exceptions") /\ Known(e, "exceptions")
  /\ Doom(e, "exceptions", "commit")
  /\ UNCHANGED <<rows, lastId, sync, alone, stands>>

\* New items get ids of their own.
NewIds(e) ==
  [p \in Part |->
     IF p \notin edit[e].adds THEN {}
     ELSE {lastId + Cardinality({q \in edit[e].adds : q = "intervals" \/ q = p})}]

Written(e, p) ==
  IF edit[e].sent[p] = None THEN rows[p]
  ELSE {r \in rows[p] : r.id \notin edit[e].doomed[p] \cup edit[e].sent[p]}
       \cup {[id |-> i, by |-> e] : i \in edit[e].sent[p] \cup NewIds(e)[p]}

Commit(e) ==
  /\ At(e, "commit") /\ lastId + Cardinality(edit[e].adds) <= MaxId
  /\ rows' = [p \in Part |-> Written(e, p)]
  /\ lastId' = lastId + Cardinality(edit[e].adds)
  /\ edit' = [edit EXCEPT ![e].at = "done", ![e].doomed = [p \in Part |-> {}]]
  /\ stands' = IF e \in alone THEN e ELSE None
  /\ UNCHANGED <<sync, alone>>

\* A row is gone, a statement fails, the transaction lasts too long or the
\* process dies: all of it is undone.
RollBack(e) ==
  /\ Open(e)
  /\ edit' = [edit EXCEPT ![e] = Over]
  /\ UNCHANGED <<rows, lastId, sync, alone, stands>>

-----------------------------------------------------------------------------
\* syncListingFromIntegration, for a listing whose hash has changed.

Fresh == lastId + 1

StartSync(cats) ==
  /\ sync.at = "idle"
  /\ sync' = [sync EXCEPT !.at = "drop", !.cats = cats,
                          !.part = IF cats = {} THEN "intervals" ELSE "categories"]
  /\ alone' = IF \E e \in Edit : Open(e) THEN {} ELSE {Import}
  /\ stands' = None
  /\ UNCHANGED <<rows, lastId, edit>>

\* The deletion starts, and sees what is committed.
Drop ==
  /\ sync.at = "drop"
  /\ sync' = [sync EXCEPT !.at = "dropping", !.snap = IdsOf(sync.part)]
  /\ UNCHANGED <<rows, lastId, edit, alone, stands>>

\* The rows of the part that an open transaction has deleted or written.
Passed(e, p) ==
  /\ Open(e) /\ edit[e].sent[p] # None
  /\ p = "categories" => ~At(e, "categories")
  /\ p = "intervals"  => ~At(e, "categories") /\ ~At(e, "intervals")
Locked(p) == UNION {edit[e].doomed[p] \cup edit[e].sent[p] : e \in {o \in Edit : Passed(o, p)}}

Drops ==
  /\ sync.at = "dropping" /\ Locked(sync.part) \cap sync.snap = {}
  /\ rows' = [rows EXCEPT ![sync.part] = {r \in @ : r.id \notin sync.snap}]
  /\ sync' = [sync EXCEPT !.at = "add", !.snap = {}]
  /\ UNCHANGED <<lastId, edit, alone, stands>>

\* createMany refuses a pair of listing and category that is there, P2002.
AddCategories ==
  /\ sync.at = "add" /\ sync.part = "categories"
  /\ Locked("categories") \cap sync.cats = {}
  /\ IF IdsOf("categories") \cap sync.cats = {}
     THEN /\ rows' = [rows EXCEPT !.categories =
                        @ \cup {[id |-> c, by |-> Import] : c \in sync.cats}]
          /\ sync' = [sync EXCEPT !.at = "drop", !.part = "intervals"]
     ELSE sync' = [sync EXCEPT !.at = "failed"] /\ UNCHANGED rows
  /\ UNCHANGED <<lastId, edit, alone, stands>>

AddTimes ==
  /\ sync.at = "add" /\ sync.part = "intervals" /\ Fresh <= MaxId
  /\ rows' = [rows EXCEPT !.intervals = @ \cup {[id |-> Fresh, by |-> Import]}]
  /\ lastId' = Fresh
  /\ sync' = [sync EXCEPT !.at = "write"]
  /\ UNCHANGED <<edit, alone, stands>>

WriteListing ==
  /\ sync.at = "write" /\ \A e \in Edit : ~Open(e)
  /\ sync' = [sync EXCEPT !.at = "over"]
  /\ stands' = IF Import \in alone THEN Import ELSE None
  /\ UNCHANGED <<rows, lastId, edit, alone>>

SyncFails ==
  /\ ~Quiet
  /\ sync' = [sync EXCEPT !.at = "failed"]
  /\ UNCHANGED <<rows, lastId, edit, alone, stands>>

Next ==
  \/ \E e \in Edit :
       \/ Fetch(e)
       \/ UpdateListing(e)
       \/ SyncListingCategories(e)
       \/ SyncListingTimeIntervals(e)
       \/ SyncListingTimeIntervalExceptions(e)
       \/ Commit(e)
       \/ RollBack(e)
  \/ \E cats \in SUBSET Category : StartSync(cats)
  \/ Drop
  \/ Drops
  \/ AddCategories
  \/ AddTimes
  \/ WriteListing
  \/ SyncFails

Spec == Init /\ [][Next]_partVars

-----------------------------------------------------------------------------
\* An edit that was answered with success, and during which no import ran,
\* leaves of every list it sent just that, with the rows it named kept under
\* their ids, whatever other edits did; an import that no edit overlapped
\* leaves its own categories and times.
LastWriterStands ==
  /\ stands \in Edit =>
       \A p \in Part : edit[stands].sent[p] # None =>
         /\ \A r \in rows[p] : r.by = stands
         /\ edit[stands].sent[p] \subseteq IdsOf(p)
         /\ Cardinality(rows[p] \ {r \in rows[p] : r.id \in edit[stands].sent[p]})
              = (IF p \in edit[stands].adds THEN 1 ELSE 0)
  /\ stands = Import =>
       /\ \A r \in rows["intervals"] : r.by = Import
       /\ sync.cats # {} => IdsOf("categories") = sync.cats

\* An edit is there as a whole or not at all, even when an import overlaps:
\* nothing is seen of one that failed or is not over.
NothingByHalves ==
  \A e \in Edit : (\E p \in Part : \E r \in rows[p] : r.by = e) => At(e, "done")

\* The parts of a listing are as they were sent: see the two above.
PartsAsSent == LastWriterStands /\ NothingByHalves
=============================================================================
