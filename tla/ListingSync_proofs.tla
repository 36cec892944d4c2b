------------------------- MODULE ListingSync_proofs -------------------------
(* What overlapping syncs cannot break, for any number of syncs, items,     *)
(* titles and contents, under every fault and every edit at the provider.   *)
EXTENDS ListingSync, TLAPS

LEMMA AnyInType == AnyItem \in Item /\ AnyTitle \in Title
BY SyncAssumption DEF AnyItem, AnyTitle

LEMMA FaultType ==
  faults \in 0 .. MaxFaults /\ Fault => faults' \in 0 .. MaxFaults
BY SyncAssumption DEF Fault

LEMMA SentType ==
  ASSUME TypeOK, NEW s \in Sync
  PROVE  /\ Sent(s) \in Entry
         /\ Sent(s).title \in Title /\ Sent(s).ver \in Version
         /\ HashOf(s) \in Hash
BY DEF TypeOK, Sent, Entry, HashOf, Hash

LEMMA TimesType ==
  ASSUME NEW v \in Version
  PROVE  /\ NoTimes \in [Version -> Nat] /\ TimesOf(v) \in [Version -> Nat]
         /\ v \notin Timed => TimesOf(v) = NoTimes
         /\ v \in Timed => TimesOf(v) = [NoTimes EXCEPT ![v] = @ + 1]
BY DEF NoTimes, TimesOf, Once

\* A row that a handler is about to rewrite exists and is the item's.
FoundIsRow ==
  \A s \in Sync : core[s] \in Updating =>
    rows[found[s]] # NoRow /\ rows[found[s]].item = item[s]

\* An unrenamed item is held by every sync under the title it has now.
HeldUnderOneTitle ==
  \A s \in Sync, i \in Item \ renamed :
    Holds(s, i) => got[s][i].title = feed[i].title

\* Rows inserted since a handler found none have the slug it will use.
CreatorsAgree ==
  \A s \in Sync, i \in Item \ renamed : core[s] = "create" /\ item[s] = i =>
    \A t \in RowsOf(i) : t = Sent(s).title

\* A row has at most one undisturbed handler, and it finds the row as it
\* left it.
AloneOnRow ==
  \A s, o \in Sync : s # o /\ alone[s] /\ core[s] \in Updating
                       /\ core[o] \in Updating => found[s] # found[o]

HalfDone(s, row) ==
  /\ core[s] = "addCats" => row.cats = {}
  /\ core[s] \in {"dropTimes", "addTimes", "write"} => row.cats = cats[s]
  /\ core[s] = "addTimes" => row.times = NoTimes /\ Sent(s).ver \in Timed
  /\ core[s] = "write" /\ Sent(s).ver \notin Untold =>
       row.times = TimesOf(Sent(s).ver)

AloneIsHalfDone ==
  \A s \in Sync : alone[s] /\ core[s] \in Updating =>
    HalfDone(s, rows[found[s]])

\* What a sync without errors has sent is listed, but for the item whose call
\* is still open.
Good == {"created", "updated", "skipped"}

Open(s, i) == at[s] = "waiting" /\ item[s] = i /\ core[s] \notin Good

SentIsListed ==
  /\ \A s \in Sync : at[s] \in {"next", "waiting", "done"} /\ errors[s] = 0 =>
       \A i \in Item \ left[s] : RowsOf(i) # {} \/ Open(s, i)
  /\ \A s \in Sync : at[s] = "facets" => left[s] = Item
  /\ \A s \in Sync : at[s] = "done" => left[s] = {}

-----------------------------------------------------------------------------
LEMMA StatementType ==
  ASSUME TypeOK, FoundIsRow, NEW s \in Sync, NEW p \in Updating,
         NEW q \in CorePlace, NEW row \in Row, Statement(s, p, q, row)
  PROVE  TypeOK'
<1> USE DEF TypeOK, Statement, Become, provider, syncs, locals
<1>1. rows' \in [Title -> Row \cup {NoRow}]
  OBVIOUS
<1>2. core' \in [Sync -> CorePlace]
  OBVIOUS
<1> QED
  BY <1>1, <1>2

\* The rows written by the statements of an update keep their item.
LEMMA UpdateStatement ==
  ASSUME TypeOK, FoundIsRow, NEW s \in Sync,
         \/ DropCategories(s) \/ AddCategories(s) \/ DropTimes(s)
         \/ AddTimes(s) \/ WriteListing(s)
  PROVE  \E p \in Updating, q \in Updating \cup {"error", "updated"},
            row \in Row :
           /\ Statement(s, p, q, row) /\ row.item = item[s]
<1> DEFINE old == rows[found[s]]
<1>1. Sent(s).ver \in Version /\ HashOf(s) \in Hash
  BY SentType
<1>2. ASSUME core[s] \in Updating
      PROVE  old \in Row /\ old.item = item[s]
  BY <1>2 DEF FoundIsRow, TypeOK
<1>3. CASE DropCategories(s)
  <2>1. [old EXCEPT !.cats = {}] \in Row
    BY <1>2, <1>3 DEF DropCategories, Statement, Updating, Row
  <2> QED
    BY <2>1, <1>2, <1>3 DEF DropCategories, Statement, Updating, Row
<1>4. CASE AddCategories(s)
  <2>1. old \in Row /\ [old EXCEPT !.cats = @ \cup cats[s]] \in Row
    BY <1>2, <1>4 DEF AddCategories, Statement, Updating, Row, TypeOK
  <2> QED
    BY <2>1, <1>2, <1>4 DEF AddCategories, Statement, Updating, Row
<1>5. CASE DropTimes(s)
  <2>1. [old EXCEPT !.times = NoTimes] \in Row
    BY <1>1, <1>2, <1>5, TimesType DEF DropTimes, Statement, Updating, Row
  <2> QED
    BY <2>1, <1>2, <1>5 DEF DropTimes, Statement, Updating, Row
<1>6. CASE AddTimes(s)
  <2>1. [old EXCEPT !.times[Sent(s).ver] = @ + 1] \in Row
    BY <1>1, <1>2, <1>6 DEF AddTimes, Statement, Updating, Row
  <2> QED
    BY <2>1, <1>2, <1>6 DEF AddTimes, Statement, Updating, Row
<1>7. CASE WriteListing(s)
  <2>1. [old EXCEPT !.ver = Sent(s).ver, !.hash = HashOf(s)] \in Row
    BY <1>1, <1>2, <1>7 DEF WriteListing, Statement, Updating, Row
  <2> QED
    BY <2>1, <1>2, <1>7 DEF WriteListing, Statement, Updating, Row
<1> QED
  BY <1>3, <1>4, <1>5, <1>6, <1>7

LEMMA TypeStep == TypeOK /\ FoundIsRow /\ [Next]_vars => TypeOK'
<1> SUFFICES ASSUME TypeOK, FoundIsRow, [Next]_vars PROVE TypeOK'
  OBVIOUS
<1> USE SyncAssumption DEF provider, syncs, locals, tables, Reach, Become
<1>1. ASSUME NEW i \in Item, NEW e \in Entry, Edit(i, e) PROVE TypeOK'
  BY <1>1 DEF Edit, TypeOK
<1>2. ASSUME NEW s \in Sync, Start(s) PROVE TypeOK'
  <2>1. faults' \in 0 .. MaxFaults
    BY <1>2, FaultType DEF Start, FetchDataPaginatedForType, TypeOK
  <2>2. got' \in [Sync -> [Item -> Entry]] /\ left' \in [Sync -> SUBSET Item]
    <3>1. \/ got' = got /\ left' = left
          \/ got' = [got EXCEPT ![s] = feed] /\ left' = [left EXCEPT ![s] = Item]
      BY <1>2 DEF Start, FetchDataPaginatedForType
    <3>2. got \in [Sync -> [Item -> Entry]] /\ feed \in [Item -> Entry]
      BY DEF TypeOK
    <3>3. left \in [Sync -> SUBSET Item]
      BY DEF TypeOK
    <3>4. got' \in [Sync -> [Item -> Entry]]
      BY <3>1, <3>2
    <3>5. left' \in [Sync -> SUBSET Item]
      BY <3>1, <3>3
    <3> QED
      BY <3>4, <3>5
  <2>3. at' \in [Sync -> AtPlace] /\ core' \in [Sync -> CorePlace]
    BY <1>2 DEF Start, FetchDataPaginatedForType, TypeOK, AtPlace, CorePlace, Running, Ended
  <2> QED
    BY <1>2, <2>1, <2>2, <2>3 DEF Start, FetchDataPaginatedForType, TypeOK
<1>3. ASSUME NEW s \in Sync, Integration(s) PROVE TypeOK'
  <2> USE DEF TypeOK, AtPlace, CorePlace, Running, Ended
  <2>1. CASE FacetsAnswered(s)
    BY <2>1 DEF FacetsAnswered
  <2>2. CASE ItemAnswered(s)
    <3>1. errors' \in [Sync -> Nat]
      BY <2>2 DEF ItemAnswered
    <3>2. alone' \in [Sync -> BOOLEAN]
      BY <2>2 DEF ItemAnswered, Forget
    <3>3. /\ item' \in [Sync -> Item] /\ stamp' \in [Sync -> Sync]
          /\ found' \in [Sync -> Title]
          /\ cats' \in [Sync -> SUBSET (Version \cup {Root})]
      BY <2>2, AnyInType DEF ItemAnswered, Forget
    <3> QED
      BY <2>2, <3>1, <3>2, <3>3 DEF ItemAnswered
  <2>3. CASE Complete(s)
    <3>1. faults' \in 0 .. MaxFaults
      BY <2>3, FaultType DEF Complete
    <3> QED
      BY <2>3, <3>1 DEF Complete
  <2>4. ASSUME NEW i \in Item, SendItem(s, i) PROVE TypeOK'
    BY <2>4 DEF SendItem
  <2> QED
    BY <1>3, <2>1, <2>2, <2>3, <2>4 DEF Integration
<1>4. ASSUME NEW s \in Sync, Core(s) PROVE TypeOK'
  <2>1. ASSUME NEW c \in Version, UpsertCategory(s, c) PROVE TypeOK'
    BY <2>1 DEF UpsertCategory, TypeOK
  <2>2. CASE CategoriesSynced(s)
    BY <2>2 DEF CategoriesSynced, TypeOK, CorePlace
  <2>3. CASE FindListing(s)
    <3>1. cats' \in [Sync -> SUBSET (Version \cup {Root})]
      BY <2>3 DEF FindListing, Resolved, TypeOK
    <3>2. core' \in [Sync -> CorePlace]
      BY <2>3 DEF FindListing, TypeOK, CorePlace, Serving, Updating, Answer
    <3>3. found' \in [Sync -> Title]
      BY <2>3 DEF FindListing, TypeOK, RowsOf
    <3>4. alone' \in [Sync -> BOOLEAN]
      BY <2>3 DEF FindListing, TypeOK
    <3> QED
      BY <2>3, <3>1, <3>2, <3>3, <3>4 DEF FindListing, TypeOK
  <2>4. CASE CreateListing(s)
    <3> DEFINE e == Sent(s)
               new == [item |-> item[s], ver |-> e.ver, hash |-> HashOf(s),
                       cats |-> cats[s], times |-> TimesOf(e.ver)]
    <3>1. e.title \in Title /\ new \in Row
      BY SentType, TimesType DEF TypeOK, Row
    <3>2. rows' \in [Title -> Row \cup {NoRow}]
      <4>1. rows' = [rows EXCEPT ![e.title] = new] \/ rows' = rows
        BY <2>4 DEF CreateListing
      <4> HIDE DEF e, new
      <4> QED
        BY <3>1, <4>1 DEF TypeOK
    <3>3. core' \in [Sync -> CorePlace]
      BY <2>4 DEF CreateListing, TypeOK, CorePlace, Answer
    <3> QED
      BY <2>4, <3>2, <3>3 DEF CreateListing, TypeOK
  <2>5. CASE \/ DropCategories(s) \/ AddCategories(s) \/ DropTimes(s)
             \/ AddTimes(s) \/ WriteListing(s)
    BY <2>5, UpdateStatement, StatementType DEF CorePlace, Serving, Answer
  <2> QED
    BY <1>4, <2>1, <2>2, <2>3, <2>4, <2>5 DEF Core
<1>5. ASSUME NEW s \in Sync, StatementFails(s) PROVE TypeOK'
  BY <1>5, FaultType DEF StatementFails, TypeOK, CorePlace, Answer
<1>6. CASE IntegrationCrash
  BY <1>6, FaultType DEF IntegrationCrash, TypeOK, AtPlace, Ended
<1>7. CASE CoreCrash
  BY <1>7, FaultType DEF CoreCrash, TypeOK, CorePlace
<1>8. CASE UNCHANGED vars
  BY <1>8 DEF vars, TypeOK
<1> QED
  BY <1>1, <1>2, <1>3, <1>4, <1>5, <1>6, <1>7, <1>8 DEF Next

-----------------------------------------------------------------------------
\* Rows never vanish and never change hands, and only a create adds one.
RowsStay ==
  \A t \in Title : rows[t] # NoRow => rows'[t] # NoRow
                                      /\ rows'[t].item = rows[t].item

LEMMA RowsStayStep == TypeOK /\ FoundIsRow /\ [Next]_vars => RowsStay
<1> SUFFICES ASSUME TypeOK, FoundIsRow, [Next]_vars PROVE RowsStay
  OBVIOUS
<1> USE DEF tables
<1>1. ASSUME UNCHANGED rows PROVE RowsStay
  BY <1>1 DEF RowsStay
<1>2. ASSUME NEW s \in Sync, CreateListing(s) PROVE RowsStay
  BY <1>2 DEF CreateListing, TypeOK, RowsStay
<1>3. ASSUME NEW s \in Sync,
             \/ DropCategories(s) \/ AddCategories(s) \/ DropTimes(s)
             \/ AddTimes(s) \/ WriteListing(s)
      PROVE  RowsStay
  <2>1. PICK p \in Updating, q \in Updating \cup {"error", "updated"},
             row \in Row :
          Statement(s, p, q, row) /\ row.item = item[s]
    BY <1>3, UpdateStatement
  <2>2. rows' = [rows EXCEPT ![found[s]] = row] /\ row # NoRow
    BY <2>1, SyncAssumption DEF Statement
  <2>3. rows[found[s]].item = item[s]
    BY <2>1 DEF Statement, FoundIsRow
  <2> QED
    BY <2>1, <2>2, <2>3 DEF RowsStay, TypeOK
<1>4. CASE \E i \in Item, e \in Entry : Edit(i, e)
  BY <1>4, <1>1 DEF Edit
<1>5. ASSUME NEW s \in Sync, Start(s) \/ Integration(s) \/ StatementFails(s)
      PROVE  RowsStay
  BY <1>5, <1>1
     DEF Start, FetchDataPaginatedForType, Integration, FacetsAnswered, ItemAnswered,
         Complete, SendItem, StatementFails
<1>6. ASSUME NEW s \in Sync, Core(s) PROVE RowsStay
  BY <1>6, <1>1, <1>2, <1>3 DEF Core, UpsertCategory, CategoriesSynced, FindListing
<1>7. CASE IntegrationCrash \/ CoreCrash \/ UNCHANGED vars
  BY <1>7, <1>1 DEF IntegrationCrash, CoreCrash, vars
<1> QED
  BY <1>4, <1>5, <1>6, <1>7 DEF Next

\* The statements of an update, together.
Update(s) ==
  \/ DropCategories(s) \/ AddCategories(s) \/ DropTimes(s)
  \/ AddTimes(s) \/ WriteListing(s)

LEMMA RowSets ==
  ASSUME TypeOK, FoundIsRow, [Next]_vars
  PROVE  \/ \E s \in Sync : CreateListing(s)
         \/ \A i \in Item : RowsOf(i)' = RowsOf(i)
<1> USE DEF tables
<1>1. ASSUME UNCHANGED rows PROVE \A i \in Item : RowsOf(i)' = RowsOf(i)
  BY <1>1 DEF RowsOf
<1>2. ASSUME NEW s \in Sync, Update(s)
      PROVE  \A i \in Item : RowsOf(i)' = RowsOf(i)
  <2>1. PICK p \in Updating, q \in Updating \cup {"error", "updated"},
             row \in Row :
          Statement(s, p, q, row) /\ row.item = item[s]
    BY <1>2, UpdateStatement DEF Update
  <2>2. rows' = [rows EXCEPT ![found[s]] = row] /\ row # NoRow
    BY <2>1, SyncAssumption DEF Statement
  <2>3. rows[found[s]].item = item[s] /\ rows[found[s]] # NoRow
    BY <2>1 DEF Statement, FoundIsRow
  <2>4. \A t \in Title :
          /\ rows'[t] # NoRow <=> rows[t] # NoRow
          /\ rows[t] # NoRow => rows'[t].item = rows[t].item
    BY <2>1, <2>2, <2>3 DEF TypeOK
  <2> QED
    BY <2>4 DEF RowsOf
<1>3. CASE \E i \in Item, e \in Entry : Edit(i, e)
  BY <1>3, <1>1 DEF Edit
<1>4. CASE \E s \in Sync : Start(s) \/ Integration(s) \/ StatementFails(s)
  BY <1>4, <1>1
     DEF Start, FetchDataPaginatedForType, Integration, FacetsAnswered, ItemAnswered,
         Complete, SendItem, StatementFails
<1>5. CASE \E s \in Sync : Core(s)
  BY <1>5, <1>1, <1>2 DEF Core, Update, UpsertCategory, CategoriesSynced, FindListing
<1>6. CASE IntegrationCrash \/ CoreCrash \/ UNCHANGED vars
  BY <1>6, <1>1 DEF IntegrationCrash, CoreCrash, vars
<1> QED
  BY <1>3, <1>4, <1>5, <1>6 DEF Next

\* A handler that is at an update either was, or has just found its row.
LEMMA UpdatingStep ==
  ASSUME TypeOK, FoundIsRow, [Next]_vars, NEW s \in Sync, core'[s] \in Updating
  PROVE  \/ /\ core[s] \in Updating
            /\ item'[s] = item[s] /\ found'[s] = found[s]
            /\ cats'[s] = cats[s] /\ got'[s] = got[s]
         \/ /\ FindListing(s)
            /\ core'[s] = "dropCats" /\ found'[s] \in RowsOf(item[s])
<1> USE DEF Updating, syncs, locals, Become
<1>1. ASSUME NEW i \in Item, NEW e \in Entry, Edit(i, e)
      PROVE  core[s] \in Updating /\ UNCHANGED <<core, locals, got>>
  BY <1>1 DEF Edit
<1>2. ASSUME NEW o \in Sync, Start(o)
      PROVE  /\ core[s] \in Updating /\ UNCHANGED locals
             /\ got'[s] = got[s]
  BY <1>2 DEF Start, FetchDataPaginatedForType, TypeOK
<1>3. ASSUME NEW o \in Sync, Integration(o)
      PROVE  /\ core[s] \in Updating
             /\ item'[s] = item[s] /\ found'[s] = found[s]
             /\ cats'[s] = cats[s] /\ UNCHANGED got
  BY <1>3 DEF Integration, FacetsAnswered, ItemAnswered, Complete, SendItem, Forget, TypeOK
<1>4. ASSUME NEW o \in Sync, Core(o), ~FindListing(s)
      PROVE  /\ core[s] \in Updating
             /\ item'[s] = item[s] /\ found'[s] = found[s]
             /\ cats'[s] = cats[s] /\ UNCHANGED got
  <2>1. CASE FindListing(o)
    <3>1. o # s
      BY <1>4, <2>1
    <3>2. \E p : core' = [core EXCEPT ![o] = p]
      BY <2>1 DEF FindListing
    <3>3. core'[s] = core[s]
      BY <3>1, <3>2 DEF TypeOK
    <3>4. \/ UNCHANGED found
          \/ \E t : found' = [found EXCEPT ![o] = t]
      BY <2>1 DEF FindListing
    <3>5. found'[s] = found[s]
      BY <3>1, <3>4 DEF TypeOK
    <3>6. UNCHANGED <<item, got>> /\ cats'[s] = cats[s]
      BY <2>1, <3>1 DEF FindListing, TypeOK
    <3> QED
      BY <3>3, <3>5, <3>6
  <2>2. CASE ~FindListing(o)
    BY <1>4, <2>2
       DEF Core, UpsertCategory, CategoriesSynced, CreateListing, DropCategories,
           AddCategories, DropTimes, AddTimes, WriteListing, Statement, TypeOK
  <2> QED
    BY <2>1, <2>2
<1>5. ASSUME FindListing(s)
      PROVE  core'[s] = "dropCats" /\ found'[s] \in RowsOf(item[s])
  BY <1>5 DEF FindListing, TypeOK, RowsOf
<1>6. ASSUME NEW o \in Sync, StatementFails(o)
      PROVE  core[s] \in Updating /\ UNCHANGED <<locals, got>>
  BY <1>6 DEF StatementFails, TypeOK
<1>7. CASE IntegrationCrash \/ UNCHANGED vars
  BY <1>7 DEF IntegrationCrash, vars
<1>8. CASE CoreCrash
  BY <1>8 DEF CoreCrash, TypeOK
<1> QED
  BY <1>1, <1>2, <1>3, <1>4, <1>5, <1>6, <1>7, <1>8 DEF Next

LEMMA FoundIsRowStep == TypeOK /\ FoundIsRow /\ [Next]_vars => FoundIsRow'
<1> SUFFICES ASSUME TypeOK, FoundIsRow, [Next]_vars,
                    NEW s \in Sync, core'[s] \in Updating
             PROVE  rows'[found'[s]] # NoRow
                    /\ rows'[found'[s]].item = item'[s]
  BY DEF FoundIsRow
<1>1. RowsStay
  BY RowsStayStep
<1>2. CASE core[s] \in Updating /\ item'[s] = item[s] /\ found'[s] = found[s]
  BY <1>1, <1>2 DEF FoundIsRow, RowsStay, TypeOK
<1>3. CASE FindListing(s) /\ found'[s] \in RowsOf(item[s])
  BY <1>3 DEF FindListing, RowsOf, tables
<1> QED
  BY <1>2, <1>3, UpdatingStep

-----------------------------------------------------------------------------
\* Apart from a start and an edit, a sync can only let go of items.
LEMMA HoldsShrinks ==
  ASSUME TypeOK, NEW s \in Sync,
         \/ Integration(s) \/ Core(s) \/ StatementFails(s)
         \/ IntegrationCrash \/ CoreCrash \/ UNCHANGED vars
  PROVE  /\ UNCHANGED <<feed, got, renamed>>
         /\ \A o \in Sync, i \in Item : Holds(o, i)' => Holds(o, i)
<1> USE DEF provider, syncs, locals, Holds, Reach, Become, Running, Serving,
            Updating, Answer
<1>1. CASE FacetsAnswered(s) \/ ItemAnswered(s) \/ Complete(s)
  BY <1>1 DEF FacetsAnswered, ItemAnswered, Complete, Forget, TypeOK
<1>2. ASSUME NEW i \in Item, SendItem(s, i)
      PROVE  /\ UNCHANGED <<feed, got, renamed>>
             /\ \A o \in Sync, j \in Item : Holds(o, j)' => Holds(o, j)
  BY <1>2 DEF SendItem, TypeOK
<1>3. CASE FindListing(s)
  <2>1. \E p : core' = [core EXCEPT ![s] = p]
    BY <1>3 DEF FindListing
  <2> QED
    BY <1>3, <2>1 DEF FindListing, TypeOK
<1>4. CASE \/ CreateListing(s) \/ CategoriesSynced(s) \/ StatementFails(s)
           \/ \E c \in Version : UpsertCategory(s, c)
  BY <1>4 DEF UpsertCategory, CategoriesSynced, CreateListing, StatementFails, TypeOK
<1>5. CASE Update(s)
  BY <1>5
     DEF Update, DropCategories, AddCategories, DropTimes, AddTimes, WriteListing,
         Statement, TypeOK
<1>6. CASE IntegrationCrash
  BY <1>6 DEF IntegrationCrash, TypeOK
<1>7. CASE CoreCrash
  BY <1>7 DEF CoreCrash, TypeOK
<1>8. CASE UNCHANGED vars
  BY <1>8 DEF vars
<1> QED
  BY <1>1, <1>2, <1>3, <1>4, <1>5, <1>6, <1>7, <1>8 DEF Integration, Core, Update

LEMMA HeldStep ==
  TypeOK /\ HeldUnderOneTitle /\ [Next]_vars => HeldUnderOneTitle'
<1> SUFFICES ASSUME TypeOK, HeldUnderOneTitle, [Next]_vars
             PROVE  HeldUnderOneTitle'
  OBVIOUS
<1> USE DEF HeldUnderOneTitle
<1>1. ASSUME NEW j \in Item, NEW e \in Entry, Edit(j, e)
      PROVE  HeldUnderOneTitle'
  <2>1. /\ UNCHANGED <<got, at, left, core, item>>
        /\ feed' = [feed EXCEPT ![j] = e]
        /\ renamed' = IF \E s \in Sync : Holds(s, j) /\ got[s][j].title # e.title
                      THEN renamed \cup {j} ELSE renamed
    BY <1>1 DEF Edit, syncs, locals
  <2>2. \A s \in Sync, i \in Item : Holds(s, i)' <=> Holds(s, i)
    BY <2>1 DEF Holds
  <2> QED
    BY <2>1, <2>2 DEF TypeOK
<1>2. ASSUME NEW s \in Sync, Start(s) PROVE HeldUnderOneTitle'
  <2> USE DEF Start, FetchDataPaginatedForType, provider, locals, Reach, Become, Running, Serving,
              Updating, TypeOK
  <2>1. CASE got' = [got EXCEPT ![s] = feed]
    BY <1>2, <2>1 DEF Holds
  <2>2. CASE UNCHANGED <<got, left, core>> /\ Reach(s, "failed")
    BY <1>2, <2>2 DEF Holds
  <2> QED
    BY <1>2, <2>1, <2>2
<1>3. CASE \/ \E s \in Sync : Integration(s) \/ Core(s) \/ StatementFails(s)
           \/ IntegrationCrash \/ CoreCrash
  BY <1>3, HoldsShrinks
<1>4. CASE UNCHANGED vars
  BY <1>4 DEF vars, provider, syncs, locals, Holds
<1> QED
  BY <1>1, <1>2, <1>3, <1>4 DEF Next

\* A handler that is at its insert either was, or has just found no row.
LEMMA CreatingStep ==
  ASSUME TypeOK, [Next]_vars, NEW s \in Sync, core'[s] = "create"
  PROVE  /\ item'[s] = item[s] /\ got'[s] = got[s]
         /\ renamed \subseteq renamed'
         /\ \/ core[s] = "create" /\ ~CreateListing(s)
            \/ RowsOf(item[s]) = {} /\ UNCHANGED rows
<1> USE DEF provider, syncs, locals, tables, Reach, Become, Answer, Updating
<1>1. ASSUME NEW o \in Sync, Start(o) \/ Integration(o) \/ StatementFails(o)
      PROVE  /\ item'[s] = item[s] /\ got'[s] = got[s]
             /\ UNCHANGED renamed
             /\ core[s] = "create" /\ ~CreateListing(s)
  BY <1>1
     DEF Start, FetchDataPaginatedForType, Integration, FacetsAnswered, ItemAnswered,
         Complete, SendItem, Forget, StatementFails, CreateListing, TypeOK
<1>2. ASSUME NEW o \in Sync, FindListing(o)
      PROVE  /\ UNCHANGED <<item, got, renamed>>
             /\ \/ core[s] = "create" /\ ~CreateListing(s)
                \/ RowsOf(item[s]) = {} /\ UNCHANGED rows
  <2>1. CASE RowsOf(item[o]) = {} /\ core' = [core EXCEPT ![o] = "create"]
    BY <1>2, <2>1 DEF FindListing, CreateListing, TypeOK
  <2>2. CASE \E p \in {"skipped", "dropCats"} : core' = [core EXCEPT ![o] = p]
    BY <1>2, <2>2 DEF FindListing, CreateListing, TypeOK
  <2> QED
    BY <1>2, <2>1, <2>2 DEF FindListing
<1>3. ASSUME NEW o \in Sync, Core(o), ~FindListing(o)
      PROVE  /\ UNCHANGED <<item, got, renamed>>
             /\ core[s] = "create" /\ ~CreateListing(s)
  BY <1>3
     DEF Core, UpsertCategory, CategoriesSynced, CreateListing, DropCategories,
         AddCategories, DropTimes, AddTimes, WriteListing, Statement, TypeOK
<1>4. CASE \E i \in Item, e \in Entry : Edit(i, e)
  BY <1>4 DEF Edit, CreateListing, TypeOK
<1>5. CASE IntegrationCrash \/ CoreCrash \/ UNCHANGED vars
  BY <1>5 DEF IntegrationCrash, CoreCrash, CreateListing, vars, TypeOK
<1> QED
  BY <1>1, <1>2, <1>3, <1>4, <1>5 DEF Next

LEMMA InsertedRow ==
  ASSUME TypeOK, NEW o \in Sync, CreateListing(o)
  PROVE  /\ item[o] \in Item /\ Sent(o).title \in Title
         /\ \A i \in Item : RowsOf(i)' = RowsOf(i)
              \/ /\ i = item[o] /\ rows[Sent(o).title] = NoRow
                 /\ RowsOf(i)' = RowsOf(i) \cup {Sent(o).title}
<1>1. item[o] \in Item /\ Sent(o).title \in Title
  BY SentType DEF TypeOK
<1>2. CASE UNCHANGED rows
  BY <1>1, <1>2 DEF RowsOf
<1>3. CASE rows[Sent(o).title] = NoRow
  <2> DEFINE new == [item |-> item[o], ver |-> Sent(o).ver, hash |-> HashOf(o),
                     cats |-> cats[o], times |-> TimesOf(Sent(o).ver)]
  <2>1. new \in Row
    BY SentType, TimesType DEF TypeOK, Row
  <2>2. rows' = [rows EXCEPT ![Sent(o).title] = new] /\ new.item = item[o]
    BY <1>3 DEF CreateListing
  <2>3. new # NoRow
    BY <2>1, SyncAssumption
  <2> HIDE DEF new
  <2>4. \A t \in Title : rows'[t] = IF t = Sent(o).title THEN new ELSE rows[t]
    BY <2>2 DEF TypeOK
  <2>5. \A i \in Item : i # item[o] => RowsOf(i)' = RowsOf(i)
    BY <1>1, <1>3, <2>2, <2>3, <2>4 DEF RowsOf
  <2>6. ASSUME NEW i \in Item, i = item[o]
        PROVE  RowsOf(i)' = RowsOf(i) \cup {Sent(o).title}
    <3>1. \A t \in Title : rows'[t] # NoRow /\ rows'[t].item = i
                <=> t = Sent(o).title \/ (rows[t] # NoRow /\ rows[t].item = i)
      BY <1>3, <2>2, <2>3, <2>4, <2>6
    <3> QED
      BY <1>1, <3>1 DEF RowsOf
  <2> QED
    BY <1>1, <1>3, <2>5, <2>6
<1> QED
  BY <1>1, <1>2, <1>3 DEF CreateListing

LEMMA CreatorsStep ==
  ASSUME TypeOK, FoundIsRow, HeldUnderOneTitle, CreatorsAgree, [Next]_vars
  PROVE  CreatorsAgree'
<1> SUFFICES ASSUME NEW s \in Sync, core'[s] = "create",
                    NEW i \in Item, i = item'[s], i \notin renamed',
                    NEW t \in RowsOf(i)'
             PROVE  t = Sent(s)'.title
  BY DEF CreatorsAgree
<1>1. i = item[s] /\ got'[s] = got[s] /\ i \notin renamed
  BY CreatingStep
<1>2. Sent(s)' = Sent(s)
  BY <1>1 DEF Sent
<1>3. CASE RowsOf(i) = {} /\ UNCHANGED rows
  BY <1>3 DEF RowsOf
<1>4. CASE core[s] = "create" /\ ~CreateListing(s)
  <2>1. \A u \in RowsOf(i) : u = Sent(s).title
    BY <1>1, <1>4 DEF CreatorsAgree
  <2>2. CASE RowsOf(i)' = RowsOf(i)
    BY <1>2, <2>1, <2>2
  <2>3. ASSUME NEW o \in Sync, CreateListing(o), item[o] = i,
               RowsOf(i)' = RowsOf(i) \cup {Sent(o).title}
        PROVE  t = Sent(s)'.title
    <3>1. Holds(o, i) /\ Holds(s, i)
      BY <1>1, <1>4, <2>3 DEF Holds, Serving, CreateListing
    <3>2. Sent(o).title = Sent(s).title
      BY <1>1, <2>3, <3>1 DEF HeldUnderOneTitle, Sent
    <3> QED
      BY <1>2, <2>1, <2>3, <3>2
  <2> QED
    BY <2>2, <2>3, RowSets, InsertedRow
<1> QED
  BY <1>1, <1>3, <1>4, CreatingStep

LEMMA OneListingStep ==
  ASSUME TypeOK, FoundIsRow, CreatorsAgree, OneListingPerItem, [Next]_vars
  PROVE  OneListingPerItem'
<1> SUFFICES ASSUME NEW i \in Item, i \notin renamed',
                    NEW t \in RowsOf(i)', NEW u \in RowsOf(i)'
             PROVE  t = u
  BY DEF OneListingPerItem
<1>1. i \notin renamed
  BY DEF Next, Edit, Start, Integration, FacetsAnswered, ItemAnswered, Complete, SendItem,
         Core, UpsertCategory, CategoriesSynced, FindListing, CreateListing, DropCategories,
         AddCategories, DropTimes, AddTimes, WriteListing, Statement, StatementFails,
         IntegrationCrash, CoreCrash, vars, provider
<1>2. CASE RowsOf(i)' = RowsOf(i)
  BY <1>1, <1>2 DEF OneListingPerItem
<1>3. ASSUME NEW o \in Sync, CreateListing(o), i = item[o],
             rows[Sent(o).title] = NoRow,
             RowsOf(i)' = RowsOf(i) \cup {Sent(o).title}
      PROVE  t = u
  <2>1. RowsOf(i) = {}
    BY <1>1, <1>3 DEF CreatorsAgree, CreateListing, RowsOf
  <2> QED
    BY <1>3, <2>1
<1> QED
  BY <1>2, <1>3, RowSets, InsertedRow

-----------------------------------------------------------------------------
LEMMA FindStep ==
  ASSUME TypeOK, NEW s \in Sync, FindListing(s), core'[s] = "dropCats"
  PROVE  \E t \in Title :
           LET others == {o \in Sync \ {s} : core[o] \in Updating /\ found[o] = t}
           IN  /\ core' = [core EXCEPT ![s] = "dropCats"]
               /\ found' = [found EXCEPT ![s] = t]
               /\ alone' = [o \in Sync |-> IF o = s THEN others = {}
                                           ELSE alone[o] /\ o \notin others]
<1>1. ~Become(s, "create") /\ ~Become(s, "skipped")
  BY DEF Become, TypeOK
<1> QED
  BY <1>1 DEF FindListing, Become, RowsOf

\* A handler that is not alone does not become so.
LEMMA AloneStep ==
  ASSUME TypeOK, [Next]_vars, NEW s \in Sync, core[s] \in Updating, alone'[s]
  PROVE  alone[s]
<1> USE DEF locals, Updating
<1>1. ASSUME NEW o \in Sync, FindListing(o) PROVE alone[s]
  <2>1. o # s
    BY <1>1 DEF FindListing
  <2> QED
    BY <1>1, <2>1 DEF FindListing
<1>2. ASSUME NEW o \in Sync, ItemAnswered(o) PROVE alone[s]
  BY <1>2 DEF ItemAnswered, Forget, TypeOK
<1>3. ASSUME UNCHANGED alone PROVE alone[s]
  BY <1>3
<1> QED
  BY <1>1, <1>2, <1>3
     DEF Next, Edit, Start, Integration, FacetsAnswered, Complete, SendItem, Core,
         UpsertCategory, CategoriesSynced, CreateListing, DropCategories, AddCategories,
         DropTimes, AddTimes, WriteListing, Statement, StatementFails, IntegrationCrash,
         CoreCrash, vars

LEMMA AloneOnRowStep ==
  ASSUME TypeOK, FoundIsRow, AloneOnRow, [Next]_vars
  PROVE  AloneOnRow'
<1> SUFFICES ASSUME NEW s \in Sync, NEW o \in Sync, s # o, alone'[s],
                    core'[s] \in Updating, core'[o] \in Updating
             PROVE  found'[s] # found'[o]
  BY DEF AloneOnRow
<1>1. CASE FindListing(s) /\ core'[s] = "dropCats"
  <2>1. PICK t \in Title :
          LET others == {x \in Sync \ {s} : core[x] \in Updating /\ found[x] = t}
          IN  /\ core' = [core EXCEPT ![s] = "dropCats"]
              /\ found' = [found EXCEPT ![s] = t]
              /\ alone' = [x \in Sync |-> IF x = s THEN others = {}
                                          ELSE alone[x] /\ x \notin others]
    BY <1>1, FindStep
  <2>2. {x \in Sync \ {s} : core[x] \in Updating /\ found[x] = t} = {}
    BY <2>1
  <2>3. core[o] \in Updating /\ found'[o] = found[o] /\ found'[s] = t
    BY <2>1 DEF TypeOK
  <2> QED
    BY <2>2, <2>3
<1>2. CASE /\ FindListing(o) /\ core'[o] = "dropCats"
           /\ core[s] \in Updating /\ found'[s] = found[s]
  <2>1. PICK t \in Title :
          LET others == {x \in Sync \ {o} : core[x] \in Updating /\ found[x] = t}
          IN  /\ found' = [found EXCEPT ![o] = t]
              /\ alone' = [x \in Sync |-> IF x = o THEN others = {}
                                          ELSE alone[x] /\ x \notin others]
    BY <1>2, FindStep
  <2>2. s \notin {x \in Sync \ {o} : core[x] \in Updating /\ found[x] = t}
    BY <2>1
  <2>3. found'[o] = t
    BY <2>1 DEF TypeOK
  <2> QED
    BY <1>2, <2>2, <2>3
<1>3. CASE /\ core[s] \in Updating /\ found'[s] = found[s]
           /\ core[o] \in Updating /\ found'[o] = found[o]
  BY <1>3, AloneStep DEF AloneOnRow
<1> QED
  BY <1>1, <1>2, <1>3, UpdatingStep

\* What one statement of an undisturbed update leaves for the next.
LEMMA HalfDoneStep ==
  ASSUME TypeOK, FoundIsRow, NEW s \in Sync, Update(s),
         HalfDone(s, rows[found[s]])
  PROVE  /\ HalfDone(s, rows[found[s]])'
         /\ core'[s] = "updated" => Whole(s, rows'[found[s]])
<1> DEFINE old == rows[found[s]]
<1> USE DEF Statement, Become, HalfDone, syncs, locals
<1>1. /\ got' = got /\ item' = item /\ cats' = cats /\ found' = found
      /\ Sent(s)' = Sent(s)
  BY DEF Update, DropCategories, AddCategories, DropTimes, AddTimes, WriteListing, Sent
<1>2. Sent(s).ver \in Version /\ Untold \cap Timed = {}
  BY SentType, SyncAssumption
<1>3. core[s] \in Updating
  BY DEF Update, DropCategories, AddCategories, DropTimes, AddTimes, WriteListing, Updating
<1>4. old \in Row /\ old.item = item[s]
  BY <1>3 DEF FoundIsRow, TypeOK
<1>5. CASE DropCategories(s)
  BY <1>1, <1>4, <1>5 DEF DropCategories, TypeOK, Row
<1>6. CASE AddCategories(s)
  <2>1. /\ old.cats = {} /\ core'[s] \in {"write", "dropTimes"}
        /\ core'[s] = "write" => Sent(s).ver \in Untold
        /\ rows'[found[s]] = [old EXCEPT !.cats = @ \cup cats[s]]
    BY <1>6 DEF AddCategories, TypeOK
  <2> QED
    BY <1>1, <1>4, <2>1 DEF TypeOK, Row
<1>7. CASE DropTimes(s)
  <2>1. /\ rows'[found[s]] = [old EXCEPT !.times = NoTimes]
        /\ core'[s] = IF Sent(s).ver \in Timed THEN "addTimes" ELSE "write"
        /\ old.cats = cats[s]
    BY <1>7 DEF DropTimes, TypeOK
  <2> QED
    BY <1>1, <1>2, <1>4, <2>1, TimesType DEF TypeOK, Row
<1>8. CASE AddTimes(s)
  <2>1. /\ rows'[found[s]] = [old EXCEPT !.times[Sent(s).ver] = @ + 1]
        /\ core'[s] = "write" /\ old.cats = cats[s]
        /\ old.times = NoTimes /\ Sent(s).ver \in Timed
    BY <1>8 DEF AddTimes, TypeOK
  <2>2. rows'[found[s]].times = TimesOf(Sent(s).ver)
    BY <1>2, <1>4, <2>1, TimesType DEF Row
  <2> QED
    BY <1>1, <1>4, <2>1, <2>2 DEF TypeOK, Row
<1>9. CASE WriteListing(s)
  <2>1. /\ rows'[found[s]] = [old EXCEPT !.ver = Sent(s).ver, !.hash = HashOf(s)]
        /\ core'[s] = "updated" /\ old.cats = cats[s]
        /\ Sent(s).ver \notin Untold => old.times = TimesOf(Sent(s).ver)
    BY <1>9 DEF WriteListing, TypeOK
  <2> QED
    BY <1>1, <1>4, <2>1 DEF Whole, Row
<1> QED
  BY <1>5, <1>6, <1>7, <1>8, <1>9 DEF Update

\* Nobody else moves an undisturbed handler or changes its row.
LEMMA RowUntouched ==
  ASSUME TypeOK, FoundIsRow, AloneOnRow, [Next]_vars,
         NEW s \in Sync, alone[s], core[s] \in Updating,
         core'[s] \in Updating, ~Update(s)
  PROVE  core'[s] = core[s] /\ rows'[found[s]] = rows[found[s]]
<1> USE DEF Updating, syncs, locals, tables, Reach, Become
<1>1. ASSUME NEW o \in Sync,
             Start(o) \/ Integration(o) \/ StatementFails(o)
      PROVE  core'[s] = core[s] /\ UNCHANGED rows
  BY <1>1
     DEF Start, FetchDataPaginatedForType, Integration, FacetsAnswered, ItemAnswered,
         Complete, SendItem, StatementFails, TypeOK
<1>2. CASE \/ \E i \in Item, e \in Entry : Edit(i, e)
           \/ IntegrationCrash \/ UNCHANGED vars
  BY <1>2 DEF Edit, IntegrationCrash, vars
<1>3. CASE CoreCrash
  BY <1>3 DEF CoreCrash, TypeOK
<1>4. ASSUME NEW o \in Sync, \/ \E c \in Version : UpsertCategory(o, c)
                             \/ CategoriesSynced(o)
      PROVE  core'[s] = core[s] /\ UNCHANGED rows
  BY <1>4 DEF UpsertCategory, CategoriesSynced, TypeOK
<1>5. ASSUME NEW o \in Sync, FindListing(o)
      PROVE  core'[s] = core[s] /\ UNCHANGED rows
  <2>1. o # s /\ \E p : core' = [core EXCEPT ![o] = p]
    BY <1>5 DEF FindListing
  <2> QED
    BY <1>5, <2>1 DEF FindListing, TypeOK
<1>6. ASSUME NEW o \in Sync, CreateListing(o)
      PROVE  core'[s] = core[s] /\ rows'[found[s]] = rows[found[s]]
  <2>1. rows[found[s]] # NoRow /\ o # s
    BY <1>6 DEF FoundIsRow, CreateListing
  <2> QED
    BY <1>6, <2>1 DEF CreateListing, TypeOK
<1>7. ASSUME NEW o \in Sync, Update(o)
      PROVE  core'[s] = core[s] /\ rows'[found[s]] = rows[found[s]]
  <2>1. PICK p \in Updating, q \in Updating \cup {"error", "updated"},
             row \in Row : Statement(o, p, q, row)
    BY <1>7, UpdateStatement DEF Update
  <2>2. o # s
    BY <1>7
  <2>3. found[o] # found[s]
    BY <2>1, <2>2 DEF AloneOnRow, Statement
  <2> QED
    BY <2>1, <2>2, <2>3 DEF Statement, TypeOK
<1> QED
  BY <1>1, <1>2, <1>3, <1>4, <1>5, <1>6, <1>7 DEF Next, Core, Update

LEMMA HalfDoneInvStep ==
  ASSUME TypeOK, FoundIsRow, AloneOnRow, AloneIsHalfDone, [Next]_vars
  PROVE  AloneIsHalfDone'
<1> SUFFICES ASSUME NEW s \in Sync, alone'[s], core'[s] \in Updating
             PROVE  HalfDone(s, rows[found[s]])'
  BY DEF AloneIsHalfDone
<1>1. CASE core'[s] = "dropCats"
  BY <1>1 DEF HalfDone
<1>2. CASE /\ core[s] \in Updating
           /\ item'[s] = item[s] /\ found'[s] = found[s]
           /\ cats'[s] = cats[s] /\ got'[s] = got[s]
  <2>1. alone[s] /\ HalfDone(s, rows[found[s]]) /\ Sent(s)' = Sent(s)
    BY <1>2, AloneStep DEF AloneIsHalfDone, Sent
  <2>2. CASE Update(s)
    BY <2>1, <2>2, HalfDoneStep
  <2>3. CASE ~Update(s)
    BY <1>2, <2>1, <2>3, RowUntouched DEF HalfDone
  <2> QED
    BY <2>2, <2>3
<1> QED
  BY <1>1, <1>2, UpdatingStep

\* Only core's handler gives the call of a sync a good answer.
LEMMA AnswerStep ==
  ASSUME TypeOK, [Next]_vars, NEW s \in Sync,
         core[s] \notin Good, core'[s] \in Good
  PROVE  /\ item'[s] = item[s]
         /\ CreateListing(s) \/ FindListing(s) \/ Update(s)
<1> USE DEF Good, syncs, locals, Reach, Become
<1>1. ASSUME NEW o \in Sync,
             Start(o) \/ Integration(o) \/ StatementFails(o)
      PROVE  FALSE
  BY <1>1
     DEF Start, FetchDataPaginatedForType, Integration, FacetsAnswered, ItemAnswered,
         Complete, SendItem, StatementFails, TypeOK
<1>2. CASE \/ \E i \in Item, e \in Entry : Edit(i, e)
           \/ IntegrationCrash \/ UNCHANGED vars
  BY <1>2 DEF Edit, IntegrationCrash, vars
<1>3. CASE CoreCrash
  BY <1>3 DEF CoreCrash, TypeOK
<1>4. ASSUME NEW o \in Sync, Core(o)
      PROVE  /\ item'[s] = item[s]
             /\ CreateListing(s) \/ FindListing(s) \/ Update(s)
  <2>1. item' = item /\ \E p : core' = [core EXCEPT ![o] = p] \/ core' = core
    BY <1>4
       DEF Core, UpsertCategory, CategoriesSynced, FindListing, CreateListing,
           DropCategories, AddCategories, DropTimes, AddTimes, WriteListing, Statement
  <2>2. o = s
    BY <2>1 DEF TypeOK
  <2>3. ~CategoriesSynced(s) /\ \A c \in Version : ~UpsertCategory(s, c)
    BY DEF CategoriesSynced, UpsertCategory, TypeOK
  <2> QED
    BY <1>4, <2>1, <2>2, <2>3 DEF Core, Update
<1> QED
  BY <1>1, <1>2, <1>3, <1>4 DEF Next

LEMMA WholeStep ==
  ASSUME TypeOK, FoundIsRow, AloneIsHalfDone, [Next]_vars,
         NEW s \in Sync, core[s] = "write", core'[s] = "updated", alone[s]
  PROVE  Whole(s, rows'[found[s]])
<1>1. HalfDone(s, rows[found[s]])
  BY DEF AloneIsHalfDone, Updating
<1>2. Update(s)
  BY AnswerStep DEF Good, CreateListing, FindListing
<1> QED
  BY <1>1, <1>2, HalfDoneStep

LEMMA GoodAnswerHasRow ==
  ASSUME TypeOK, FoundIsRow, [Next]_vars, NEW s \in Sync, NEW i \in Item,
         core[s] \notin Good, core'[s] \in Good, item[s] = i
  PROVE  RowsOf(i)' # {} /\ item'[s] = i
<1>1. CASE CreateListing(s)
  <2>1. rows[Sent(s).title] = NoRow
    BY <1>1 DEF CreateListing, Become, Good, TypeOK
  <2>2. Sent(s).title \in Title
    BY SentType
  <2> DEFINE new == [item |-> item[s], ver |-> Sent(s).ver, hash |-> HashOf(s),
                     cats |-> cats[s], times |-> TimesOf(Sent(s).ver)]
  <2>3. new \in Row /\ new.item = i
    BY SentType, TimesType DEF TypeOK, Row
  <2>4. rows' = [rows EXCEPT ![Sent(s).title] = new]
    BY <1>1, <2>1 DEF CreateListing
  <2> HIDE DEF new
  <2>5. rows'[Sent(s).title] = new /\ new # NoRow
    BY <2>2, <2>3, <2>4, SyncAssumption DEF TypeOK
  <2> QED
    BY <2>2, <2>3, <2>5, AnswerStep DEF RowsOf
<1>2. CASE FindListing(s)
  <2>1. ~Become(s, "create")
    BY DEF Become, Good, TypeOK
  <2>2. RowsOf(i) # {} /\ UNCHANGED rows
    BY <1>2, <2>1 DEF FindListing, tables
  <2> QED
    BY <2>2, AnswerStep DEF RowsOf
<1>3. CASE Update(s)
  <2>1. core[s] \in Updating
    BY <1>3
       DEF Update, DropCategories, AddCategories, DropTimes, AddTimes, WriteListing,
           Statement, Updating
  <2>2. rows[found[s]] # NoRow /\ rows[found[s]].item = i /\ found[s] \in Title
    BY <2>1 DEF FoundIsRow, TypeOK
  <2> QED
    BY <2>2, RowsStayStep, AnswerStep DEF RowsStay, RowsOf
<1> QED
  BY <1>1, <1>2, <1>3, AnswerStep

\* What a step of one sync leaves alone in another, and what no step but the
\* sync's own in apps/integration changes.
LEMMA SyncStep ==
  ASSUME TypeOK, [Next]_vars, NEW s \in Sync
  PROVE  \/ Start(s) \/ Integration(s)
         \/ at'[s] = "dead"
         \/ at'[s] = at[s] /\ left'[s] = left[s] /\ errors'[s] = errors[s]
            /\ item'[s] = item[s]
<1> USE DEF syncs, locals, Reach
<1>1. ASSUME NEW o \in Sync, o # s, Start(o) \/ Integration(o)
      PROVE  at'[s] = at[s] /\ left'[s] = left[s] /\ errors'[s] = errors[s]
             /\ item'[s] = item[s]
  BY <1>1
     DEF Start, FetchDataPaginatedForType, Integration, FacetsAnswered, ItemAnswered,
         Complete, SendItem, Forget, TypeOK
<1>2. ASSUME NEW o \in Sync, Core(o) \/ StatementFails(o)
      PROVE  UNCHANGED <<at, left, errors, item>>
  BY <1>2
     DEF Core, UpsertCategory, CategoriesSynced, FindListing, CreateListing, DropCategories,
         AddCategories, DropTimes, AddTimes, WriteListing, Statement, StatementFails
<1>3. CASE \/ \E i \in Item, e \in Entry : Edit(i, e)
           \/ CoreCrash \/ UNCHANGED vars
  BY <1>3 DEF Edit, CoreCrash, vars
<1>4. CASE IntegrationCrash
  BY <1>4 DEF IntegrationCrash, TypeOK
<1> QED
  BY <1>1, <1>2, <1>3, <1>4 DEF Next

LEMMA SentIsListedStep ==
  ASSUME TypeOK, FoundIsRow, SentIsListed, [Next]_vars
  PROVE  SentIsListed'
<1> USE DEF Reach, syncs, locals, provider
<1>1. \A i \in Item : RowsOf(i) # {} => RowsOf(i)' # {}
  BY RowsStayStep DEF RowsStay, RowsOf
<1>2. ASSUME NEW s \in Sync
      PROVE  /\ at'[s] = "facets" => left'[s] = Item
             /\ at'[s] = "done" => left'[s] = {}
  BY SyncStep
     DEF SentIsListed, Start, FetchDataPaginatedForType, Integration, FacetsAnswered,
         ItemAnswered, Complete, SendItem, TypeOK
<1>3. ASSUME NEW s \in Sync, at'[s] \in {"next", "waiting", "done"},
             errors'[s] = 0, NEW i \in Item \ left'[s]
      PROVE  RowsOf(i)' # {} \/ Open(s, i)'
  <2>1. ASSUME at[s] \in {"next", "waiting", "done"}, errors[s] = 0,
               i \notin left[s], ~Open(s, i)
        PROVE  RowsOf(i)' # {}
    BY <1>1, <2>1 DEF SentIsListed
  <2>2. CASE Start(s)
    BY <1>3, <2>2 DEF Start, FetchDataPaginatedForType, TypeOK
  <2>3. CASE FacetsAnswered(s)
    BY <1>3, <2>3 DEF FacetsAnswered, SentIsListed
  <2>4. CASE \E j \in Item : SendItem(s, j)
    <3>1. PICK j \in Item : SendItem(s, j)
      BY <2>4
    <3>2. CASE i = j
      BY <3>1, <3>2 DEF SendItem, Open, Become, Good, TypeOK
    <3>3. CASE i # j
      BY <1>3, <2>1, <3>1, <3>3 DEF SendItem, Open, TypeOK
    <3> QED
      BY <3>2, <3>3
  <2>5. CASE ItemAnswered(s)
    <3>1. core[s] # "error" /\ errors[s] = 0
      <4>1. errors[s] \in Nat /\ core[s] \in Answer
        BY <2>5 DEF ItemAnswered, TypeOK
      <4>2. errors'[s] = IF core[s] = "error" THEN errors[s] + 1 ELSE errors[s]
        BY <2>5 DEF ItemAnswered, TypeOK
      <4> QED
        BY <1>3, <4>1, <4>2
    <3>2. core[s] \in Good
      BY <2>5, <3>1 DEF ItemAnswered, Answer, Good
    <3> QED
      BY <1>3, <2>1, <2>5, <3>1, <3>2 DEF ItemAnswered, Open
  <2>6. CASE Complete(s)
    BY <1>3, <2>1, <2>6 DEF Complete, Open
  <2>7. CASE at'[s] = at[s] /\ left'[s] = left[s] /\ errors'[s] = errors[s]
             /\ item'[s] = item[s]
    <3>1. CASE ~Open(s, i)
      BY <1>3, <2>1, <2>7, <3>1
    <3>2. CASE Open(s, i)
      BY <2>7, <3>2, GoodAnswerHasRow DEF Open
    <3> QED
      BY <3>1, <3>2
  <2>8. CASE at'[s] = "dead"
    BY <1>3, <2>8
  <2> QED
    BY <2>2, <2>3, <2>4, <2>5, <2>6, <2>7, <2>8, SyncStep DEF Integration
<1> QED
  BY <1>2, <1>3 DEF SentIsListed

-----------------------------------------------------------------------------
SyncInv ==
  /\ TypeOK /\ FoundIsRow
  /\ HeldUnderOneTitle /\ CreatorsAgree /\ OneListingPerItem
  /\ AloneOnRow /\ AloneIsHalfDone
  /\ SentIsListed

LEMMA InitInv == Init => SyncInv
<1> SUFFICES ASSUME Init PROVE SyncInv
  OBVIOUS
<1> USE SyncAssumption DEF Init
<1>1. TypeOK
  BY AnyInType DEF TypeOK, AtPlace, CorePlace
<1>2. FoundIsRow /\ AloneOnRow /\ AloneIsHalfDone
  BY DEF FoundIsRow, AloneOnRow, AloneIsHalfDone, Updating
<1>3. HeldUnderOneTitle /\ CreatorsAgree /\ OneListingPerItem
  BY DEF HeldUnderOneTitle, Holds, Serving, Updating, Running, CreatorsAgree,
         OneListingPerItem, RowsOf
<1>4. SentIsListed
  BY DEF SentIsListed
<1> QED
  BY <1>1, <1>2, <1>3, <1>4 DEF SyncInv

\* The invariant holds at every step of every handler.
THEOREM SyncsConsistent == Spec => []SyncInv
<1>1. SyncInv /\ [Next]_vars => SyncInv'
  BY TypeStep, FoundIsRowStep, HeldStep, CreatorsStep, OneListingStep, AloneOnRowStep,
     HalfDoneInvStep, SentIsListedStep
     DEF SyncInv
<1> QED
  BY <1>1, InitInv, PTL DEF Spec

\* Types are kept, for any number of syncs, items and contents.
THEOREM TypeCorrect == Spec => []TypeOK
<1>1. SyncInv => TypeOK
  BY DEF SyncInv
<1> QED
  BY <1>1, SyncsConsistent, PTL

\* An item that is not renamed under a running sync never has two listings.
THEOREM OneListing == Spec => []OneListingPerItem
<1>1. SyncInv => OneListingPerItem
  BY DEF SyncInv
<1> QED
  BY <1>1, SyncsConsistent, PTL

\* A sync that reports no error has listed every item of its feed.
THEOREM AllListed == Spec => []NoErrorMeansListed
<1>1. SyncInv => NoErrorMeansListed
  BY DEF SyncInv, SentIsListed, NoErrorMeansListed, Open
<1> QED
  BY <1>1, SyncsConsistent, PTL

\* An update that nobody disturbs leaves its row whole, whatever was there.
THEOREM UndisturbedIsWhole == Spec => UndisturbedUpdateIsWhole
<1>1. SyncInv /\ [Next]_vars =>
        [\A s \in Sync : core[s] = "write" /\ core'[s] = "updated" /\ alone[s]
                           => Whole(s, rows'[found[s]])]_vars
  BY WholeStep DEF SyncInv
<1> QED
  BY <1>1, SyncsConsistent, PTL DEF Spec, UndisturbedUpdateIsWhole
============================================================================
