--------------------------- MODULE CityCategories ---------------------------
(***************************************************************************)
(* The categories a city offers, and the requests of city admins for more  *)
(* (apps/core, modules/categories).  A super admin resolves a request in   *)
(* two statements: the request gets its status, and an approved one its    *)
(* category.  Two admins may resolve one request at once, and a category   *)
(* may be deleted under them with all that refers to it.                   *)
(***************************************************************************)
CONSTANTS
  Category,
  City,
  CityAdmin,
  Manages,   \* the active assignments, as pairs of a city admin and a city
  Name,      \* names a city gives a category
  Request,   \* ids of requests
  Call,      \* resolutions that may be under way at once
  None

CityCategoriesAssumption ==
  /\ Manages \subseteq CityAdmin \X City
  /\ None \notin Name \cup Request
  /\ None \notin {"PENDING", "APPROVED", "REJECTED"}

VARIABLES
  present,   \* categories with a row
  offered,   \* table city_categories
  request,   \* table category_requests
  resolver,  \* the request a resolution has still to act on
  removed,   \* history: offers a super admin took back
  cut        \* history: requests whose resolution broke off

cityVars == <<present, offered, request, resolver, removed, cut>>

Status  == {"PENDING", "APPROVED", "REJECTED"}
Offer   == [active : BOOLEAN, name : Name \cup {None}]
NoOffer == [active |-> FALSE]
Row     == [city : City, category : Category, by : CityAdmin \cup {None}, status : Status]
NoRow   == [status |-> None]
Pair    == City \X Category

TypeOK ==
  /\ present \in SUBSET Category
  /\ offered \in [Pair -> Offer \cup {NoOffer}]
  /\ request \in [Request -> Row \cup {NoRow}]
  /\ resolver \in [Call -> Request \cup {None}]
  /\ removed \in SUBSET Pair /\ cut \in SUBSET Request

Init ==
  /\ present = Category
  /\ offered = [p \in Pair |-> NoOffer] /\ request = [r \in Request |-> NoRow]
  /\ resolver = [k \in Call |-> None] /\ removed = {} /\ cut = {}

Pending(r) == request[r].status = "PENDING"
Of(r)      == <<request[r].city, request[r].category>>

\* assignCategoryToCity: an upsert; a name that is not sent stays.
Assigned(o, name) ==
  [active |-> TRUE, name |-> IF name # None \/ o = NoOffer THEN name ELSE o.name]

\* POST /cities/:cityId/categories, of super admins.
AssignCategory(p) ==
  /\ p[2] \in present
  /\ \E name \in Name \cup {None} :
       offered' = [offered EXCEPT ![p] = Assigned(@, name)]
  /\ removed' = removed \ {p}
  /\ UNCHANGED <<present, request, resolver, cut>>

\* The offer becomes inactive; one that is inactive stays as it is.
RemoveCategoryFromCity(p) ==
  /\ offered[p] # NoOffer /\ offered[p].active
  /\ offered' = [offered EXCEPT ![p].active = FALSE]

\* DELETE /cities/:cityId/categories/:categoryId, of super admins.
RemoveCategory(p) ==
  /\ RemoveCategoryFromCity(p)
  /\ removed' = removed \cup {p}
  /\ UNCHANGED <<present, request, resolver, cut>>

\* A super admin (None) or an admin with an assignment to the city.
HasAccess(a, city) == a = None \/ <<a, city>> \in Manages

\* The name of an offer, active or not; None is the category's own.
UpdateCityCategoryDisplayName(p, name) ==
  /\ offered[p] # NoOffer
  /\ offered' = [offered EXCEPT ![p].name = name]

\* PATCH .../display-name
UpdateDisplayName(a, p) ==
  /\ HasAccess(a, p[1])
  /\ \E name \in Name \cup {None} : UpdateCityCategoryDisplayName(p, name)
  /\ UNCHANGED <<present, request, resolver, removed, cut>>

\* The unique index on city, category, admin and status.
Unique(r, row) == \A q \in Request \ {r} : request[q] # row

\* An upsert of the admin's pending request; one that is there keeps all but
\* its notes.  A category that has gone is refused by the foreign key.
RequestCityCategory(r, p, a) ==
  LET row == [city |-> p[1], category |-> p[2], by |-> a, status |-> "PENDING"]
  IN  /\ p[2] \in present /\ Unique(r, row)
      /\ request' = [request EXCEPT ![r] = row]

\* POST /cities/:cityId/requests; r is a new id.
RequestCategory(a, r) ==
  /\ request[r] = NoRow /\ \A k \in Call : resolver[k] # r
  /\ r \notin cut
  /\ \E p \in Pair : HasAccess(a, p[1]) /\ RequestCityCategory(r, p, a)
  /\ UNCHANGED <<present, offered, resolver, removed, cut>>

\* POST /requests/:requestId/resolve, first statement: the status is set,
\* whatever it was, unless the same admin's request for the same category
\* has been resolved that way before.
ResolveRequest(k, r) ==
  /\ resolver[k] = None /\ request[r] # NoRow
  /\ \E status \in Status :
       LET row == [request[r] EXCEPT !.status = status]
       IN  /\ Unique(r, row)
           /\ request' = [request EXCEPT ![r] = row]
           /\ resolver' = [resolver EXCEPT ![k] = IF status = "APPROVED" THEN r ELSE None]
  /\ UNCHANGED <<present, offered, removed, cut>>

\* Second statement, for an approval.  The foreign key refuses a category
\* that has gone; the statement may fail, and the process may die before it.
AssignRequested(k) ==
  /\ resolver[k] # None
  /\ LET r == resolver[k]
     IN  \/ /\ request[r] # NoRow
            /\ offered' = [offered EXCEPT ![Of(r)] = Assigned(@, None)]
            /\ removed' = removed \ {Of(r)}
            /\ UNCHANGED cut
         \/ /\ cut' = cut \cup {r}
            /\ UNCHANGED <<offered, removed>>
  /\ resolver' = [resolver EXCEPT ![k] = None]
  /\ UNCHANGED <<present, request>>

\* CategoryTree deletes the row, and with it offers and requests (Cascade).
DeleteCategory(c) ==
  /\ c \in present
  /\ present' = present \ {c}
  /\ offered' = [p \in Pair |-> IF p[2] = c THEN NoOffer ELSE offered[p]]
  /\ request' = [r \in Request |->
       IF request[r] # NoRow /\ request[r].category = c THEN NoRow ELSE request[r]]
  /\ removed' = {p \in removed : p[2] # c}
  /\ UNCHANGED <<resolver, cut>>

Next ==
  \/ \E p \in Pair :
       \/ AssignCategory(p)
       \/ RemoveCategory(p)
       \/ \E a \in CityAdmin \cup {None} : UpdateDisplayName(a, p)
  \/ \E a \in CityAdmin \cup {None}, r \in Request : RequestCategory(a, r)
  \/ \E k \in Call, r \in Request : ResolveRequest(k, r)
  \/ \E k \in Call : AssignRequested(k)
  \/ \E c \in Category : DeleteCategory(c)

Spec == Init /\ [][Next]_cityVars

(***************************************************************************)
(* Properties                                                              *)
(***************************************************************************)

\* The lists of requests: all with a status, and those of one city.
ListRequests(status)    == {r \in Request : request[r].status = status}
ListCityRequests(a, city, status) ==
  IF HasAccess(a, city) THEN {r \in ListRequests(status) : request[r].city = city} ELSE {}

\* What the app lists for a city, before CategoryTree makes a tree of it.
ListCityCategories(city) == {c \in Category : offered[<<city, c>>].active}

\* What a city admin sees approved in the requests of the city is listed for
\* the city, unless a super admin took it back afterwards or the resolution
\* is not through or broke off; verdicts may overlap and overrule each other.
ApprovedIsOffered ==
  \A a \in CityAdmin, city \in City :
    \A r \in ListCityRequests(a, city, "APPROVED") :
      \/ request[r].category \in ListCityCategories(city)
      \/ Of(r) \in removed \/ r \in cut
      \/ \E k \in Call : resolver[k] = r
=============================================================================
