------------------------------- MODULE Tiles -------------------------------
(***************************************************************************)
(* Tiles and the cities that show them (apps/core, modules/tiles).  A city *)
(* admin may touch a tile only if every city it is linked to, and every    *)
(* city it is to be linked to, is one of the admin's.  The tile and the    *)
(* admin's cities are read first, in two databases' time, and the links    *)
(* are replaced later; no cities stands for all cities, and that is also   *)
(* what an admin without assignments gets, or one whose assignments could  *)
(* not be read.                                                            *)
(***************************************************************************)
EXTENDS Naturals

CONSTANTS
  Tile,
  City,
  Manages,  \* the sets of cities a city admin may be in charge of
  Call,     \* requests that may be under way at once
  None

ManagesAssumption == Manages \subseteq SUBSET City /\ None \notin City

VARIABLES
  tile,     \* tables tiles and tile_cities: the linked cities, None: no tile
  managed,  \* cities the city admin is in charge of
  job       \* where each request stands

tileVars == <<tile, managed, job>>

Keep == {None}  \* an update that does not mention the cities
All  == {None}  \* the scope of a super admin

\* "read": the tile was found.  "write": the cities allow it, and scope is
\* what was read of the admin; All as well if that was no cities.
Idle == [at |-> "idle"]
Job  == [at : {"read", "write"}, op : {"create", "update", "delete"}, tile : Tile,
         wants : {Keep} \cup SUBSET City, seen : SUBSET City,
         scope : {All} \cup SUBSET City]

Exists(t) == tile[t] # None
Links(t)  == IF Exists(t) THEN tile[t] ELSE {}

TypeOK ==
  /\ tile \in [Tile -> (SUBSET City) \cup {None}]
  /\ managed \in Manages
  /\ job \in [Call -> Job \cup {Idle}]

Init ==
  /\ tile = [t \in Tile |-> None]
  /\ managed \in Manages
  /\ job = [k \in Call |-> Idle]

At(k, place) == job[k].at = place
Finish(k)    == job' = [job EXCEPT ![k] = Idle]

-----------------------------------------------------------------------------

\* An assignment of the city admin is made or taken back.
Reassign ==
  /\ managed' \in Manages \ {managed}
  /\ UNCHANGED <<tile, job>>

\* createTile, before it asks for the admin's cities: a city admin names some.
CreateTile(k, t, super, cities) ==
  /\ At(k, "idle") /\ ~Exists(t)
  /\ \A j \in Call : ~At(j, "idle") => job[j].tile # t
  /\ super \/ cities # {}
  /\ job' = [job EXCEPT ![k] =
       [at |-> IF super THEN "write" ELSE "read", op |-> "create", tile |-> t,
        wants |-> cities, seen |-> {}, scope |-> All]]
  /\ UNCHANGED <<tile, managed>>

\* POST /tiles: super says which of the two roles the token names.
Create(k, super) ==
  \E t \in Tile, cities \in SUBSET City : CreateTile(k, t, super, cities)

\* updateTile finds the tile, in its transaction.
UpdateTile(k, t, super, wants) ==
  /\ At(k, "idle") /\ Exists(t)
  /\ job' = [job EXCEPT ![k] =
       [at |-> IF super THEN "write" ELSE "read", op |-> "update", tile |-> t,
        wants |-> wants, seen |-> tile[t], scope |-> All]]
  /\ UNCHANGED <<tile, managed>>

\* deleteTile finds it.
DeleteTile(k, t, super) ==
  /\ At(k, "idle") /\ Exists(t)
  /\ job' = [job EXCEPT ![k] =
       [at |-> IF super THEN "write" ELSE "read", op |-> "delete", tile |-> t,
        wants |-> {}, seen |-> tile[t], scope |-> All]]
  /\ UNCHANGED <<tile, managed>>

Wanted(j) == IF j.wants = Keep THEN {} ELSE j.wants

\* The checks against the admin's cities; none means all.
Allows(j, scope) == scope = {} \/ j.seen \cup Wanted(j) \subseteq scope

\* getUserManagedCities, which answers no cities when it fails; the request
\* is refused, or goes on.
CheckCities(k) ==
  /\ At(k, "read")
  /\ \E scope \in {managed, {}} :
       IF Allows(job[k], scope)
       THEN job' = [job EXCEPT ![k].at = "write",
                               ![k].scope = IF scope = {} THEN All ELSE scope]
       ELSE Finish(k)
  /\ UNCHANGED <<tile, managed>>

\* Mutant: an update without a list writes the list it has not got.
SyncTileCitiesUnasked(t, wants) == tile' = [tile EXCEPT ![t] = wants]

\* syncTileCities: without a list the links are kept, an empty list removes
\* them all, any other list replaces them.
SyncTileCities(t, wants) ==
  tile' = IF wants = Keep THEN tile ELSE [tile EXCEPT ![t] = wants]

\* The row with its links.
InsertTile(k) ==
  /\ At(k, "write") /\ job[k].op = "create"
  /\ SyncTileCities(job[k].tile, job[k].wants)
  /\ Finish(k) /\ UNCHANGED managed

\* The rest of the transaction.  Its update holds the row until the links
\* are replaced, so no other writer of the tile comes between; it fails if
\* the tile has gone.
StoreTile(k) ==
  /\ At(k, "write") /\ job[k].op = "update" /\ Exists(job[k].tile)
  /\ SyncTileCities(job[k].tile, job[k].wants)
  /\ Finish(k) /\ UNCHANGED managed

\* The row goes, and its links with it.
RemoveTile(k) ==
  /\ At(k, "write") /\ job[k].op = "delete" /\ Exists(job[k].tile)
  /\ tile' = [tile EXCEPT ![job[k].tile] = None]
  /\ Finish(k) /\ UNCHANGED managed

\* A statement fails, the slug is taken, or the tile has gone; nothing of a
\* transaction stays.
Fail(k) ==
  /\ ~At(k, "idle")
  /\ Finish(k)
  /\ UNCHANGED <<tile, managed>>

Next ==
  \/ Reassign
  \/ \E k \in Call, super \in BOOLEAN : Create(k, super)
  \/ \E k \in Call, t \in Tile, super \in BOOLEAN, wants \in {Keep} \cup SUBSET City :
       UpdateTile(k, t, super, wants)
  \/ \E k \in Call, t \in Tile, super \in BOOLEAN : DeleteTile(k, t, super)
  \/ \E k \in Call : CheckCities(k)
  \/ \E k \in Call : InsertTile(k)
  \/ \E k \in Call : StoreTile(k)
  \/ \E k \in Call : RemoveTile(k)
  \/ \E k \in Call : Fail(k)

Spec == Init /\ [][Next]_tileVars

-----------------------------------------------------------------------------

\* A request writes a tile in the step that ends it.
Writes(k) ==
  /\ At(k, "write") /\ job'[k] = Idle
  /\ tile'[job[k].tile] # tile[job[k].tile]

\* A list that names cities has the tiles linked to one of them.  The other
\* filters are left out: they only narrow what is listed.
BuildTileWhere(t, cities) == cities = {} \/ Links(t) \cap cities # {}

ListTiles(cities) == {t \in Tile : Exists(t) /\ BuildTileWhere(t, cities)}

\* The cities whose lists have the tile.
ShownIn(t) == {c \in City : t \in ListTiles({c})}

\* What a city admin writes changes the lists of the cities read for the
\* request only: those that had the tile and those that get it are all among
\* them.  The exception is a tile whose cities were changed after the
\* request read them.
TilesInScope ==
  [][\A k \in Call, t \in Tile :
       Writes(k) /\ job[k].tile = t /\ job[k].scope # All =>
         \/ (ShownIn(t) \cup ShownIn(t)') \subseteq job[k].scope
         \/ job[k].seen # Links(t)]_tileVars
=============================================================================
