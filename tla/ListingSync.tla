---------------------------- MODULE ListingSync ----------------------------
(***************************************************************************)
(* The import of listings from Destination One: syncIntegration of         *)
(* destination-one.service.ts (apps/integration) fetches the feed, asks    *)
(* core for the categories and then, item by item, for the listing; core's *)
(* handlers (core.service.ts) look the item up and insert or rewrite it in *)
(* separate statements.  Nothing keeps two syncs of one integration apart: *)
(* each POST /integrations/:id/sync runs its own, and core serves all      *)
(* messages at once.                                                       *)
(*                                                                         *)
(* A Title stands for what slugify leaves of a title.  A Version is the    *)
(* content of an item: it names one category below the root category of    *)
(* the item's type and, when it is in Timed, one time interval; when it is *)
(* in Untold, the item comes without the field timeIntervals, otherwise    *)
(* with an empty list.  The pages of the feed are fetched as one step, and *)
(* come with the facets of their items; the items have one of the types    *)
(* that are mapped to a root category.                                     *)
(***************************************************************************)
EXTENDS Naturals, FiniteSets

CONSTANTS
  Sync,      \* the syncs that may be asked for, each runs once
  Item,      \* the items of the feed (externalId)
  Title,     \* their titles, as slugs
  Version,   \* their contents
  Timed,     \* the contents with a time interval
  Untold,    \* the contents without the field timeIntervals
  Root,      \* the root category of the items' type, seeded
  NoRow,     \* no listing under this slug
  MaxEdits,  \* bound on the changes at the provider
  MaxFaults  \* bound on the failures of databases and processes

VARIABLES
  feed,        \* what the provider serves for each item now
  edits,       \* number of changes made to it
  got,         \* what each sync fetched
  left,        \* the items a sync has not sent yet
  at,          \* where a sync is, in apps/integration
  errors,      \* errorCount of a sync
  core,        \* where core's handler of the sync's current call is, or its
               \* answer; "none" when there is no call (or it was lost)
  item,        \* the item of that call
  stamp,       \* the millisecond in its syncHash, named after a sync
  cats,        \* categoryIds, as the handler resolved them
  found,       \* the slug of the row the handler found
  rows,        \* table listings with its categories and intervals, by slug
  categories,  \* the categories below Root that exist in core
  faults,      \* number of failures
  alone,       \* history: no other handler touched the row since it was found
  renamed      \* history: items renamed while a sync still held the old title

provider == <<feed, edits, renamed>>
syncs    == <<got, left, at, errors>>
tables   == <<rows, categories>>
locals   == <<item, stamp, cats, found, alone>>
vars     == <<provider, syncs, core, locals, tables, faults>>

Entry == [title : Title, ver : Version]

\* The column syncHash is a hash of the item's id, its title and the time at
\* which the sync transformed it.
Hash == [title : Title, stamp : Sync]

NoTimes    == [v \in Version |-> 0]
Once(v)    == [NoTimes EXCEPT ![v] = 1]
TimesOf(v) == IF v \in Timed THEN Once(v) ELSE NoTimes

Row == [item : Item, ver : Version, hash : Hash,
        cats : SUBSET (Version \cup {Root}), times : [Version -> Nat]]

ASSUME SyncAssumption ==
  /\ Item # {} /\ Title # {}
  /\ Timed \subseteq Version /\ Untold \subseteq Version \ Timed
  /\ Root \notin Version /\ NoRow \notin Row
  /\ MaxEdits \in Nat /\ MaxFaults \in Nat

Running  == {"facets", "next", "waiting"}
Ended    == {"done", "failed", "dead"}
Updating == {"dropCats", "addCats", "dropTimes", "addTimes", "write"}
Serving  == {"create"} \cup Updating
Answer   == {"created", "updated", "skipped", "error"}
AtPlace   == {"idle"} \cup Running \cup Ended
CorePlace == {"none", "facets", "synced", "queued"} \cup Serving \cup Answer

TypeOK ==
  /\ feed \in [Item -> Entry] /\ edits \in 0 .. MaxEdits
  /\ got \in [Sync -> [Item -> Entry]] /\ left \in [Sync -> SUBSET Item]
  /\ at \in [Sync -> AtPlace]
  /\ errors \in [Sync -> Nat]
  /\ core \in [Sync -> CorePlace]
  /\ item \in [Sync -> Item] /\ stamp \in [Sync -> Sync]
  /\ cats \in [Sync -> SUBSET (Version \cup {Root})]
  /\ found \in [Sync -> Title] /\ alone \in [Sync -> BOOLEAN]
  /\ rows \in [Title -> Row \cup {NoRow}]
  /\ categories \in SUBSET Version
  /\ faults \in 0 .. MaxFaults
  /\ renamed \in SUBSET Item

RowsOf(i) == {t \in Title : rows[t] # NoRow /\ rows[t].item = i}

Sent(s)     == got[s][item[s]]
HashOf(s)   == [title |-> Sent(s).title, stamp |-> stamp[s]]
Facets(s)   == {got[s][i].ver : i \in Item}

Fault == faults < MaxFaults /\ faults' = faults + 1

Reach(s, p)  == at' = [at EXCEPT ![s] = p]
Become(s, p) == core' = [core EXCEPT ![s] = p]

\* The values of a handler's locals before it runs and after it ended.
AnyItem  == CHOOSE i \in Item : TRUE
AnyTitle == CHOOSE t \in Title : TRUE

Forget(s) ==
  /\ item' = [item EXCEPT ![s] = AnyItem]
  /\ stamp' = [stamp EXCEPT ![s] = s]
  /\ cats' = [cats EXCEPT ![s] = {}]
  /\ found' = [found EXCEPT ![s] = AnyTitle]
  /\ alone' = [alone EXCEPT ![s] = FALSE]

Init ==
  /\ feed \in [Item -> Entry] /\ edits = 0
  /\ got = [s \in Sync |-> feed] /\ left = [s \in Sync |-> {}]
  /\ at = [s \in Sync |-> "idle"] /\ errors = [s \in Sync |-> 0]
  /\ core = [s \in Sync |-> "none"]
  /\ item = [s \in Sync |-> AnyItem] /\ stamp = [s \in Sync |-> s]
  /\ cats = [s \in Sync |-> {}] /\ found = [s \in Sync |-> AnyTitle]
  /\ alone = [s \in Sync |-> FALSE]
  /\ rows = [t \in Title |-> NoRow] /\ categories = {}
  /\ faults = 0 /\ renamed = {}

-----------------------------------------------------------------------------
\* The provider changes an item.  A sync holds an item until core's handler
\* for it has ended.
Holds(s, i) ==
  \/ at[s] \in Running /\ i \in left[s]
  \/ core[s] \in {"queued"} \cup Serving /\ item[s] = i

Edit(i, e) ==
  /\ edits < MaxEdits /\ e # feed[i]
  /\ edits' = edits + 1
  /\ feed' = [feed EXCEPT ![i] = e]
  /\ renamed' = IF \E s \in Sync : Holds(s, i) /\ got[s][i].title # e.title
                THEN renamed \cup {i} ELSE renamed
  /\ UNCHANGED <<syncs, core, locals, tables, faults>>

-----------------------------------------------------------------------------
\* apps/integration.

\* All pages of all types, up to one that is not full; here they are of one
\* state of the feed.
FetchDataPaginatedForType(s) ==
  /\ got' = [got EXCEPT ![s] = feed]
  /\ left' = [left EXCEPT ![s] = Item]

\* The feed is fetched and core is asked for its categories; a page that
\* fails ends the sync.
Start(s) ==
  /\ at[s] = "idle"
  /\ \/ /\ FetchDataPaginatedForType(s)
        /\ Reach(s, "facets")
        /\ Become(s, "facets")
        /\ UNCHANGED faults
     \/ Fault /\ Reach(s, "failed") /\ UNCHANGED <<got, left, core>>
  /\ UNCHANGED <<provider, errors, locals, tables>>

\* Mutant: the sync goes on only when its categories are in place.
FacetsNeeded(s) ==
  /\ at[s] = "facets" /\ core[s] = "synced"
  /\ Reach(s, "next")
  /\ Become(s, "none")
  /\ UNCHANGED <<provider, got, left, errors, locals, tables, faults>>

\* Whatever the answer: a failed sync of the categories is only logged.
FacetsAnswered(s) ==
  /\ at[s] = "facets" /\ core[s] \in {"synced", "error"}
  /\ Reach(s, "next")
  /\ Become(s, "none")
  /\ UNCHANGED <<provider, got, left, errors, locals, tables, faults>>

\* The call has no timeout.  Two syncs may transform an item within the same
\* millisecond.
SendItem(s, i) ==
  /\ at[s] = "next" /\ i \in left[s]
  /\ Reach(s, "waiting")
  /\ left' = [left EXCEPT ![s] = @ \ {i}]
  /\ item' = [item EXCEPT ![s] = i]
  /\ \E o \in Sync : /\ o = s \/ at[o] = "waiting"
                     /\ stamp' = [stamp EXCEPT ![s] = IF o = s THEN s
                                                      ELSE stamp[o]]
  /\ Become(s, "queued")
  /\ UNCHANGED <<provider, got, errors, cats, found, alone, tables, faults>>

\* Mutant: the catch around an item forgets to count it.
ItemAnsweredUncounted(s) ==
  /\ at[s] = "waiting" /\ core[s] \in Answer
  /\ Reach(s, "next")
  /\ Become(s, "none") /\ Forget(s)
  /\ UNCHANGED <<provider, got, left, errors, tables, faults>>

ItemAnswered(s) ==
  /\ at[s] = "waiting" /\ core[s] \in Answer
  /\ Reach(s, "next")
  /\ errors' = [errors EXCEPT ![s] = IF core[s] = "error" THEN @ + 1 ELSE @]
  /\ Become(s, "none") /\ Forget(s)
  /\ UNCHANGED <<provider, got, left, tables, faults>>

\* lastSyncAt and the log entry.
Complete(s) ==
  /\ at[s] = "next" /\ left[s] = {}
  /\ \/ Reach(s, "done") /\ UNCHANGED faults
     \/ Reach(s, "failed") /\ Fault
  /\ UNCHANGED <<provider, got, left, errors, core, locals, tables>>

\* The handlers in core go on.
IntegrationCrash ==
  /\ Fault /\ \E s \in Sync : at[s] \in Running
  /\ at' = [s \in Sync |-> IF at[s] \in Running THEN "dead" ELSE at[s]]
  /\ UNCHANGED <<provider, got, left, errors, core, locals, tables>>

-----------------------------------------------------------------------------
\* apps/core.

\* Each facet is upserted in statements of its own.
UpsertCategory(s, c) ==
  /\ core[s] = "facets" /\ c \in Facets(s) \ categories
  /\ categories' = categories \cup {c}
  /\ UNCHANGED <<provider, syncs, core, locals, rows, faults>>

CategoriesSynced(s) ==
  /\ core[s] = "facets" /\ Facets(s) \subseteq categories
  /\ Become(s, "synced")
  /\ UNCHANGED <<provider, syncs, locals, tables, faults>>

\* Mutant: the id of a category is pushed without asking whether it was found.
ResolvedUnasked(s) ==
  {Root} \cup (IF Sent(s).ver \in categories THEN {Sent(s).ver} ELSE {NoRow})

\* The categories of the item that are there; the others are skipped.
Resolved(s) == {Root} \cup ({Sent(s).ver} \cap categories)

\* The handler resolves the categories and looks for the row by externalId,
\* any of them if there are several.
FindListing(s) ==
  /\ core[s] = "queued"
  /\ cats' = [cats EXCEPT ![s] = Resolved(s)]
  /\ \/ /\ RowsOf(item[s]) = {}
        /\ Become(s, "create")
        /\ UNCHANGED <<found, alone>>
     \/ \E t \in RowsOf(item[s]) :
          IF rows[t].hash = HashOf(s)
          THEN Become(s, "skipped") /\ UNCHANGED <<found, alone>>
          ELSE LET others == {o \in Sync \ {s} :
                                core[o] \in Updating /\ found[o] = t} IN
               /\ Become(s, "dropCats")
               /\ found' = [found EXCEPT ![s] = t]
               /\ alone' = [o \in Sync |-> IF o = s THEN others = {}
                                           ELSE alone[o] /\ o \notin others]
  /\ UNCHANGED <<provider, syncs, item, stamp, tables, faults>>

\* Mutant: a taken slug is replaced by a free one, as for manual listings.
CreateUnderFreeSlug(s) ==
  LET e == Sent(s) IN
  /\ core[s] = "create"
  /\ \E t \in Title :
       /\ rows[t] = NoRow
       /\ rows[e.title] = NoRow => t = e.title
       /\ rows' = [rows EXCEPT ![t] =
                     [item |-> item[s], ver |-> e.ver, hash |-> HashOf(s),
                      cats |-> cats[s], times |-> TimesOf(e.ver)]]
  /\ Become(s, "created")
  /\ UNCHANGED <<provider, syncs, locals, categories, faults>>

CreateListing(s) ==
  LET e == Sent(s) IN
  /\ core[s] = "create"
  /\ IF rows[e.title] = NoRow      \* slug is unique
     THEN /\ rows' = [rows EXCEPT ![e.title] =
                        [item |-> item[s], ver |-> e.ver, hash |-> HashOf(s),
                         cats |-> cats[s], times |-> TimesOf(e.ver)]]
          /\ Become(s, "created")
     ELSE Become(s, "error") /\ UNCHANGED rows
  /\ UNCHANGED <<provider, syncs, locals, categories, faults>>

\* One statement of an update, from place p to place q.
Statement(s, p, q, row) ==
  /\ core[s] = p
  /\ rows' = [rows EXCEPT ![found[s]] = row]
  /\ Become(s, q)
  /\ UNCHANGED <<provider, syncs, locals, categories, faults>>

DropCategories(s) ==
  Statement(s, "dropCats", "addCats", [rows[found[s]] EXCEPT !.cats = {}])

\* (listingId, categoryId) is unique.
AddCategories(s) ==
  LET row   == rows[found[s]]
      clash == row.cats \cap cats[s] # {}
      next  == IF Sent(s).ver \in Untold THEN "write" ELSE "dropTimes"
  IN Statement(s, "addCats", IF clash THEN "error" ELSE next,
               IF clash THEN row ELSE [row EXCEPT !.cats = @ \cup cats[s]])

\* Mutant: new intervals are added to the old ones.
KeepTimes(s) ==
  Statement(s, "dropTimes",
            IF Sent(s).ver \in Timed THEN "addTimes" ELSE "write",
            rows[found[s]])

DropTimes(s) ==
  Statement(s, "dropTimes",
            IF Sent(s).ver \in Timed THEN "addTimes" ELSE "write",
            [rows[found[s]] EXCEPT !.times = NoTimes])

AddTimes(s) ==
  Statement(s, "addTimes", "write",
            [rows[found[s]] EXCEPT !.times[Sent(s).ver] = @ + 1])

\* The slug stays what it was.
WriteListing(s) ==
  Statement(s, "write", "updated",
            [rows[found[s]] EXCEPT !.ver = Sent(s).ver, !.hash = HashOf(s)])

StatementFails(s) ==
  /\ Fault /\ core[s] \in {"facets", "queued"} \cup Serving
  /\ Become(s, "error")
  /\ UNCHANGED <<provider, syncs, locals, tables>>

\* Consumers do not acknowledge: a message core has begun to serve is gone,
\* one still in the queue may have stayed there.
CoreCrash ==
  /\ Fault
  /\ \E lost \in SUBSET {s \in Sync : core[s] \in {"facets", "queued"}} :
       core' = [s \in Sync |-> IF core[s] \in Serving \/ s \in lost
                               THEN "none" ELSE core[s]]
  /\ core' # core
  /\ UNCHANGED <<provider, syncs, locals, tables>>

-----------------------------------------------------------------------------
Integration(s) ==
  \/ FacetsAnswered(s) \/ ItemAnswered(s) \/ Complete(s)
  \/ \E i \in Item : SendItem(s, i)

Core(s) ==
  \/ \E c \in Version : UpsertCategory(s, c)
  \/ CategoriesSynced(s) \/ FindListing(s) \/ CreateListing(s)
  \/ DropCategories(s) \/ AddCategories(s)
  \/ DropTimes(s) \/ AddTimes(s) \/ WriteListing(s)

Next ==
  \/ \E i \in Item, e \in Entry : Edit(i, e)
  \/ \E s \in Sync :
       Start(s) \/ Integration(s) \/ Core(s) \/ StatementFails(s)
  \/ IntegrationCrash
  \/ CoreCrash

\* Both event loops go on with what they have.
Fairness == \A s \in Sync : WF_vars(Integration(s)) /\ WF_vars(Core(s))

Spec     == Init /\ [][Next]_vars
FairSpec == Spec /\ Fairness

-----------------------------------------------------------------------------
\* An item has one listing, however many syncs overlap: a second insert is
\* refused because its slug is taken.  The exception is an item renamed while
\* a sync still holds its old title.
OneListingPerItem ==
  \A i \in Item \ renamed : \A t, u \in RowsOf(i) : t = u

\* An update no other handler interfered with leaves the row whole: exactly
\* the categories it resolved, each interval once, whatever crashes and
\* overlapping updates before it had left there.
Whole(s, row) ==
  /\ row.item = item[s] /\ row.ver = Sent(s).ver /\ row.cats = cats[s]
  /\ Sent(s).ver \notin Untold => row.times = TimesOf(Sent(s).ver)

UndisturbedUpdateIsWhole ==
  [][\A s \in Sync : core[s] = "write" /\ core'[s] = "updated" /\ alone[s]
                       => Whole(s, rows'[found[s]])]_vars

\* A sync that is logged without errors has listed every item it fetched.
NoErrorMeansListed ==
  \A s \in Sync : at[s] = "done" /\ errors[s] = 0
                    => \A i \in Item : RowsOf(i) # {}

\* A sync ends, or waits for ever on a call that core has lost.
Hung(s) == at[s] \in {"facets", "waiting"} /\ core[s] = "none"

SyncEnds == \A s \in Sync : at[s] = "facets" ~> (at[s] \in Ended \/ Hung(s))
============================================================================
