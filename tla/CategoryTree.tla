---------------------------- MODULE CategoryTree ----------------------------
(***************************************************************************)
(* The tree of categories (apps/core, modules/categories), the slugs that  *)
(* name them, and the listings filed under them.  A slug is a base and a   *)
(* number that makes it unique: the handler asks for one candidate after   *)
(* another and writes the first that was free when it asked.  A deletion   *)
(* counts the listings first and deletes later.                            *)
(***************************************************************************)
EXTENDS Naturals, FiniteSets

CONSTANTS
  Category,   \* ids that may exist
  Base,       \* slugified names
  Listing,
  Call,       \* requests of a super admin that may be under way at once
  MaxSuffix,  \* bound on the numbers tried
  None        \* no parent

CategoryTreeAssumption ==
  /\ None \notin Category /\ MaxSuffix \in Nat /\ IsFiniteSet(Category)

VARIABLES
  category,  \* table categories: slug and parent
  filed,     \* table listing_categories
  writer,    \* what each request is doing
  late       \* history: links made while their category was being deleted

treeVars == <<category, filed, writer, late>>

Slug   == Base \X (0..MaxSuffix)
Absent == [slug |-> None]
Row    == [slug : Slug, parent : Category \cup {None}]
Idle   == [op |-> "idle"]
Job    == {Idle}
  \cup [op : {"create", "update"}, id : Category, slug : Slug, found : BOOLEAN]
  \cup [op : {"delete"}, id : Category]

Exists(c) == category[c] # Absent
Rows      == {c \in Category : Exists(c)}

TypeOK ==
  /\ category \in [Category -> Row \cup {Absent}]
  /\ filed \in SUBSET (Listing \X Category)
  /\ writer \in [Call -> Job]
  /\ late \in SUBSET (Listing \X Category)

Init ==
  /\ category = [c \in Category |-> Absent] /\ filed = {}
  /\ writer = [k \in Call |-> Idle] /\ late = {}

Go(k, j) == writer' = [writer EXCEPT ![k] = j]

\* POST /categories: an id is drawn with the row.
CreateCategory(k) ==
  /\ writer[k] = Idle
  /\ \E c \in Category, b \in Base :
       /\ ~Exists(c) /\ \A d \in Call : writer[d] # Idle => writer[d].id # c
       /\ Go(k, [op |-> "create", id |-> c, slug |-> <<b, 0>>, found |-> FALSE])
  /\ UNCHANGED <<category, filed, late>>

\* PATCH /categories/:id with a slug.
UpdateSlug(k, c) ==
  /\ writer[k] = Idle /\ Exists(c)
  /\ \E b \in Base :
       Go(k, [op |-> "update", id |-> c, slug |-> <<b, 0>>, found |-> FALSE])
  /\ UNCHANGED <<category, filed, late>>

\* ensureUniqueCategorySlug, one candidate: free, or the category's own.
TrySlug(k) ==
  /\ writer[k].op \in {"create", "update"} /\ ~writer[k].found
  /\ LET taken == \E c \in Rows \ {writer[k].id} : category[c].slug = writer[k].slug
     IN  IF taken
         THEN /\ writer[k].slug[2] < MaxSuffix
              /\ Go(k, [writer[k] EXCEPT !.slug[2] = @ + 1])
         ELSE Go(k, [writer[k] EXCEPT !.found = TRUE])
  /\ UNCHANGED <<category, filed, late>>

\* The unique index on slug.
SlugFree(c, s) == \A d \in Rows \ {c} : category[d].slug # s

\* create or update with the slug; a slug taken meanwhile, a missing parent
\* or a missing row is an error and changes nothing.  A parent is connected
\* unchecked: it may be the category itself or below it.
WriteCategory(k) ==
  /\ writer[k].op \in {"create", "update"} /\ writer[k].found
  /\ LET c == writer[k].id
     IN  \/ \E p \in Rows \cup {None} :
              /\ SlugFree(c, writer[k].slug)
              /\ writer[k].op = "update" => Exists(c)
              /\ category' = [category EXCEPT ![c] = [slug |-> writer[k].slug, parent |-> p]]
         \/ UNCHANGED category
  /\ Go(k, Idle)
  /\ UNCHANGED <<filed, late>>

\* PATCH /categories/:id without a slug is one statement.
UpdateParent(c) ==
  /\ Exists(c)
  /\ \E p \in Rows \cup {None} : category' = [category EXCEPT ![c].parent = p]
  /\ UNCHANGED <<filed, writer, late>>

Uses(c) == {p \in filed : p[2] = c}

\* Mutant: the uses are not counted.
DeleteCategoryInUse(k, c) ==
  /\ writer[k] = Idle /\ Exists(c)
  /\ Go(k, [op |-> "delete", id |-> c])
  /\ UNCHANGED <<category, filed, late>>

\* DELETE /categories/:id: no listing uses it, and it is there.
DeleteCategory(k, c) ==
  /\ writer[k] = Idle /\ Uses(c) = {} /\ Exists(c)
  /\ Go(k, [op |-> "delete", id |-> c])
  /\ UNCHANGED <<category, filed, late>>

\* The row goes, with the links of listings (Cascade); its children become
\* roots (SetNull).
DeleteRow(k) ==
  /\ writer[k].op = "delete"
  /\ LET c == writer[k].id
     IN  IF Exists(c)
         THEN /\ category' = [d \in Category |->
                   IF d = c THEN Absent
                   ELSE IF Exists(d) /\ category[d].parent = c
                        THEN [category[d] EXCEPT !.parent = None] ELSE category[d]]
              /\ filed' = filed \ Uses(c)
              /\ late' = late \ Uses(c)
         ELSE UNCHANGED <<category, filed, late>>
  /\ Go(k, Idle)

BeingDeleted == {writer[k].id : k \in {d \in Call : writer[d].op = "delete"}}

\* Links that appear while their category is being deleted come late.
Linked(links) ==
  late' = (late \cap filed') \cup {p \in links \ filed : p[2] \in BeingDeleted}

\* A listing is created or edited with these categories: syncListingCategories
\* in the transaction of the listing.  Without any, the import's deletion.
FileListing(l, cs) ==
  /\ cs \subseteq Rows
  /\ filed' = {p \in filed : p[1] # l} \cup ({l} \X cs)
  /\ Linked({l} \X cs)
  /\ UNCHANGED <<category, writer>>

\* The import adds the categories it has found, in a statement of its own:
\* whatever an edit has filed since its deletion stays.
FileImported(l, cs) ==
  /\ cs \subseteq Rows /\ filed \cap ({l} \X cs) = {}
  /\ filed' = filed \cup ({l} \X cs)
  /\ Linked({l} \X cs)
  /\ UNCHANGED <<category, writer>>

Next ==
  \/ \E k \in Call :
       \/ CreateCategory(k) \/ TrySlug(k) \/ WriteCategory(k) \/ DeleteRow(k)
       \/ \E c \in Category : UpdateSlug(k, c) \/ DeleteCategory(k, c)
  \/ \E c \in Category : UpdateParent(c)
  \/ \E l \in Listing, cs \in SUBSET Category :
       FileListing(l, cs) \/ FileImported(l, cs)

Spec == Init /\ [][Next]_treeVars

\* buildCategoryHierarchy: a category without a parent in the list is a root,
\* the others hang below their parents; what is reached from a root is shown.
Hierarchy(list) ==
  LET reached(S) == \A c \in list :
        category[c].parent \notin list \/ category[c].parent \in S => c \in S
  IN  {c \in list : \A S \in SUBSET list : reached(S) => c \in S}

(***************************************************************************)
(* Properties                                                              *)
(***************************************************************************)

\* Any list of categories, a city's for instance, is shown whole, except for
\* circles of parents with all that hangs below them: sets that hold the
\* parents of all their members.
ListsWhole ==
  \A list \in SUBSET Rows :
    list \ Hierarchy(list) = UNION {S \in SUBSET list : \A c \in S : category[c].parent \in S}

\* CATEGORY_IN_USE: a listing loses its category only by being edited, or to
\* a deletion that had counted before the listing was filed.
InUseStays ==
  [][\A p \in filed \ filed' : category'[p[2]] # Absent \/ p \in late]_treeVars

\* Categories stay where they are used and are shown where they are listed.
CategoriesHold == []ListsWhole /\ InUseStays
=============================================================================
