----------------------------- MODULE Favorites -----------------------------
(***************************************************************************)
(* The favourites of users and guests (apps/core, modules/listings,        *)
(* favorites.controller).  A request asks for one listing to be, or not to *)
(* be, a favourite of one user; the server looks first and writes in a     *)
(* later statement, and the unique key of the table is all that orders two *)
(* requests for the same pair.  A listing is never deleted, so a request   *)
(* for one that exists finds it.                                           *)
(***************************************************************************)
CONSTANTS User, Listing, Call, None

FavoritesAssumption ==
  None \notin BOOLEAN /\ None \notin {"done", "not_found", "already", "error"}

VARIABLES
  favorite,  \* table user_favorites
  job,       \* what each request asks for, how far it is and its answer
  alone,     \* history: requests no other one for the same pair overlapped
  left       \* history: what the last request for a pair left, if alone

vars == <<favorite, job, alone, left>>

Pair == User \X Listing

Idle == [at |-> "idle", answer |-> None]
Job  == [at : {"look", "insert", "delete", "over"}, pair : Pair, isFavorite : BOOLEAN,
         answer : {None, "done", "not_found", "already", "error"}]

At(k, place) == job[k].at = place
Busy(k)      == ~At(k, "idle") /\ ~At(k, "over")

TypeOK ==
  /\ favorite \in SUBSET Pair
  /\ job \in [Call -> Job \cup {Idle}]
  /\ alone \in SUBSET Call
  /\ left \in [Pair -> BOOLEAN \cup {None}]

Init ==
  /\ favorite = {}
  /\ job = [k \in Call |-> Idle]
  /\ alone = {}
  /\ left = [p \in Pair |-> None]

Rivals(p) == {k \in Call : Busy(k) /\ job[k].pair = p}

\* POST /favorites with isFavorite; the listing is found.
ToggleFavorite(k, p, isFavorite) ==
  /\ ~Busy(k)
  /\ job' = [job EXCEPT ![k] =
       [at |-> "look", pair |-> p, isFavorite |-> isFavorite, answer |-> None]]
  /\ alone' = IF Rivals(p) = {} THEN alone \cup {k} ELSE alone \ (Rivals(p) \cup {k})
  /\ left' = [left EXCEPT ![p] = None]
  /\ UNCHANGED favorite

\* A listing that does not exist.
Refuse(k) ==
  /\ ~Busy(k)
  /\ job' = [job EXCEPT ![k] = Idle]
  /\ UNCHANGED <<favorite, alone, left>>

Go(k, place) ==
  /\ job' = [job EXCEPT ![k].at = place]
  /\ UNCHANGED <<favorite, alone, left>>

\* The answer, and what it leaves when nobody interfered.
Reply(k, answer, now) ==
  /\ job' = [job EXCEPT ![k].at = "over", ![k].answer = answer]
  /\ left' = [left EXCEPT ![job[k].pair] =
       IF k \in alone THEN now ELSE None]
  /\ UNCHANGED alone

\* The first half of the upsert.
AddFavorite(k) ==
  /\ At(k, "look") /\ job[k].isFavorite
  /\ IF job[k].pair \in favorite
     THEN Reply(k, "done", TRUE) /\ UNCHANGED favorite
     ELSE Go(k, "insert")

\* The second half: the unique key refuses a second row, P2002.
InsertFavorite(k) ==
  /\ At(k, "insert")
  /\ favorite' = favorite \cup {job[k].pair}
  /\ Reply(k, IF job[k].pair \in favorite THEN "already" ELSE "done", TRUE)

RemoveFavorite(k) ==
  /\ At(k, "look") /\ ~job[k].isFavorite
  /\ IF job[k].pair \in favorite
     THEN Go(k, "delete")
     ELSE Reply(k, "not_found", FALSE) /\ UNCHANGED favorite

\* The deletion throws when the row is gone.
DeleteFavorite(k) ==
  /\ At(k, "delete")
  /\ favorite' = favorite \ {job[k].pair}
  /\ Reply(k, IF job[k].pair \in favorite THEN "done" ELSE "error", FALSE)

Next ==
  \E k \in Call :
    \/ \E p \in Pair, isFavorite \in BOOLEAN : ToggleFavorite(k, p, isFavorite)
    \/ Refuse(k)
    \/ AddFavorite(k)
    \/ InsertFavorite(k)
    \/ RemoveFavorite(k)
    \/ DeleteFavorite(k)

Spec == Init /\ [][Next]_vars

-----------------------------------------------------------------------------

\* GET /favorites
GetUserFavorites(u) == {l \in Listing : <<u, l>> \in favorite}

\* The flag isFavorite of the listings a user is shown.
GetFavoriteListingIds(u, shown) == GetUserFavorites(u) \cap shown

\* A request that nobody overlaps does what it says, and stays done until the
\* next one for the pair, whoever toggles other pairs meanwhile; and the
\* errors of the two races are answered in a race only.
LastToggleStands ==
  /\ \A u \in User, l \in Listing :
       left[<<u, l>>] # None =>
         (l \in GetFavoriteListingIds(u, {l})) = left[<<u, l>>]
  /\ \A k \in Call : job[k].answer \in {"already", "error"} => k \notin alone
=============================================================================
