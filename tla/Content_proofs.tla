--------------------------- MODULE Content_proofs ---------------------------
(* The parts of MCContent, one after the other: for each its inductive      *)
(* invariant, that the initial states have it and every step keeps it, and  *)
(* what it says.  At the end the parts together.                            *)
EXTENDS MCContent, SequenceTheorems, FiniteSetTheorems, TLAPS

-----------------------------------------------------------------------------
(* Favorites *)

\* A request that nobody overlaps is the only one for its pair, and what it
\* has looked for is still so.
Undisturbed ==
  \A k \in alone : Favored!Busy(k) =>
    /\ \A j \in Call : Favored!Busy(j) /\ favJob[j].pair = favJob[k].pair => j = k
    /\ favJob[k].at = "insert" => favJob[k].pair \notin favorite
    /\ favJob[k].at = "delete" => favJob[k].pair \in favorite

\* What a request left is there.
LeftThere ==
  \A p \in Favored!Pair :
    (left[p] = TRUE => p \in favorite) /\ (left[p] = FALSE => p \notin favorite)

FavInv ==
  /\ Favored!TypeOK
  /\ Undisturbed
  /\ LeftThere
  /\ \A k \in Call : favJob[k].answer \in {"already", "error"} => k \notin alone

LEMMA FavInvInit == Favored!Init => FavInv
<1> SUFFICES ASSUME Favored!Init PROVE FavInv
  OBVIOUS
<1>1. Favored!TypeOK
  BY DEF Favored!Init, Favored!TypeOK
<1> QED
  BY <1>1, HostedAssumption
     DEF Favored!FavoritesAssumption, Favored!Init, FavInv, Undisturbed, LeftThere,
         Favored!Idle

LEMMA FavTypes ==
  ASSUME Favored!TypeOK, NEW k \in Call, Favored!Busy(k)
  PROVE  favJob[k] \in Favored!Job /\ favJob[k].pair \in Favored!Pair
BY DEF Favored!TypeOK, Favored!Busy, Favored!At, Favored!Idle, Favored!Job

\* A request that answers has made the pair what it says.
LEMMA ReplyKeeps ==
  ASSUME FavInv, NEW k \in Call, Favored!Busy(k), NEW p, p = favJob[k].pair,
         NEW yes \in BOOLEAN, NEW answer \in {"done", "not_found", "already", "error"},
         favorite' = IF yes THEN favorite \cup {p} ELSE favorite \ {p},
         answer \in {"already", "error"} => k \notin alone,
         Favored!Reply(k, answer, yes)
  PROVE  FavInv'
<1> USE DEF FavInv
<1> DEFINE r == [favJob[k] EXCEPT !.at = "over", !.answer = answer]
<1>1. favJob[k] \in Favored!Job /\ p \in Favored!Pair
  BY FavTypes
<1>2. r \in Favored!Job /\ r.at = "over" /\ r.answer = answer
  BY <1>1 DEF Favored!Job
<1>3. /\ favJob' = [favJob EXCEPT ![k] = r] /\ UNCHANGED alone
      /\ left' = [left EXCEPT ![p] = IF k \in alone THEN yes ELSE None]
  BY DEF Favored!Reply
<1> HIDE DEF r
<1>4. Favored!TypeOK'
  BY <1>1, <1>2, <1>3 DEF Favored!TypeOK
<1>5. /\ favJob'[k] = r
      /\ \A j \in Call \ {k} : favJob'[j] = favJob[j]
  BY <1>3 DEF Favored!TypeOK
<1>6. \A j \in Call : Favored!Busy(j)' => Favored!Busy(j) /\ j # k
  BY <1>2, <1>5 DEF Favored!Busy, Favored!At
<1>7. Undisturbed'
  <2> SUFFICES ASSUME NEW j \in alone, Favored!Busy(j)'
               PROVE  /\ \A i \in Call : Favored!Busy(i)' /\ favJob'[i].pair = favJob'[j].pair => i = j
                      /\ favJob'[j].at = "insert" => favJob'[j].pair \notin favorite'
                      /\ favJob'[j].at = "delete" => favJob'[j].pair \in favorite'
    BY <1>3 DEF Undisturbed
  <2>1. j \in Call
    BY DEF Favored!TypeOK
  <2>2. Favored!Busy(j) /\ j # k /\ favJob'[j] = favJob[j]
    BY <1>5, <1>6, <2>1
  <2>3. favJob[j].pair # p
    BY <2>2 DEF Undisturbed
  <2> QED
    BY <1>5, <1>6, <2>1, <2>2, <2>3 DEF Undisturbed
<1>8. LeftThere'
  <2> SUFFICES ASSUME NEW q \in Favored!Pair
               PROVE  (left'[q] = TRUE => q \in favorite') /\ (left'[q] = FALSE => q \notin favorite')
    BY DEF LeftThere
  <2>1. CASE q = p
    <3>1. left'[q] = IF k \in alone THEN yes ELSE None
      BY <1>3, <2>1 DEF Favored!TypeOK
    <3>2. CASE yes
      BY <2>1, <3>1, <3>2, HostedAssumption DEF Favored!FavoritesAssumption
    <3>3. CASE ~yes
      BY <2>1, <3>1, <3>3, HostedAssumption DEF Favored!FavoritesAssumption
    <3> QED
      BY <3>2, <3>3
  <2>2. CASE q # p
    BY <1>3, <2>2 DEF Favored!TypeOK, LeftThere
  <2> QED
    BY <2>1, <2>2
<1>9. \A j \in Call : favJob'[j].answer \in {"already", "error"} => j \notin alone'
  BY <1>2, <1>3, <1>5
<1> QED
  BY <1>4, <1>7, <1>8, <1>9

LEMMA GoKeeps ==
  ASSUME FavInv, NEW k \in Call, Favored!Busy(k), NEW place \in {"insert", "delete"},
         (favJob[k].pair \in favorite) <=> (place = "delete"),
         Favored!Go(k, place)
  PROVE  FavInv'
<1> USE DEF FavInv
<1> DEFINE r == [favJob[k] EXCEPT !.at = place]
<1>1. favJob[k] \in Favored!Job
  BY FavTypes
<1>2. /\ r \in Favored!Job /\ r.at = place /\ r.pair = favJob[k].pair
      /\ r.answer = favJob[k].answer
  BY <1>1 DEF Favored!Job
<1>3. favJob' = [favJob EXCEPT ![k] = r] /\ UNCHANGED <<favorite, alone, left>>
  BY DEF Favored!Go
<1> HIDE DEF r
<1>4. Favored!TypeOK'
  BY <1>2, <1>3 DEF Favored!TypeOK
<1>5. /\ favJob'[k] = r
      /\ \A j \in Call \ {k} : favJob'[j] = favJob[j]
  BY <1>3 DEF Favored!TypeOK
<1>6. \A j \in Call :
        /\ Favored!Busy(j)' <=> Favored!Busy(j)
        /\ favJob'[j].pair = favJob[j].pair /\ favJob'[j].answer = favJob[j].answer
  BY <1>2, <1>5 DEF Favored!Busy, Favored!At
<1>7. Undisturbed'
  <2> SUFFICES ASSUME NEW j \in alone, Favored!Busy(j)
               PROVE  /\ \A i \in Call : Favored!Busy(i) /\ favJob[i].pair = favJob[j].pair => i = j
                      /\ favJob'[j].at = "insert" => favJob[j].pair \notin favorite
                      /\ favJob'[j].at = "delete" => favJob[j].pair \in favorite
    <3>1. alone \subseteq Call
      BY DEF Favored!TypeOK
    <3> QED
      BY <1>3, <1>6, <3>1 DEF Undisturbed
  <2>1. j \in Call
    BY DEF Favored!TypeOK
  <2>2. CASE j = k
    BY <1>2, <1>5, <2>2 DEF Undisturbed
  <2>3. CASE j # k
    BY <1>5, <2>1, <2>3 DEF Undisturbed
  <2> QED
    BY <2>2, <2>3
<1>8. \A j \in Call : favJob'[j].answer \in {"already", "error"} => j \notin alone'
  BY <1>3, <1>6
<1> QED
  BY <1>3, <1>4, <1>7, <1>8 DEF LeftThere

LEMMA ToggleKeeps ==
  ASSUME FavInv, NEW k \in Call, NEW p \in Favored!Pair, NEW isFavorite \in BOOLEAN,
         Favored!ToggleFavorite(k, p, isFavorite)
  PROVE  FavInv'
<1> USE DEF FavInv
<1> DEFINE r == [at |-> "look", pair |-> p, isFavorite |-> isFavorite, answer |-> None]
<1>1. r \in Favored!Job /\ r.at = "look" /\ r.pair = p /\ r.answer = None
  BY DEF Favored!Job
<1>2. /\ ~Favored!Busy(k) /\ favJob' = [favJob EXCEPT ![k] = r] /\ UNCHANGED favorite
      /\ left' = [left EXCEPT ![p] = None]
      /\ Favored!Rivals(p) = {} => alone' = alone \cup {k}
      /\ Favored!Rivals(p) # {} => alone' = alone \ (Favored!Rivals(p) \cup {k})
  BY DEF Favored!ToggleFavorite
<1> HIDE DEF r
<1>3. Favored!TypeOK'
  BY <1>1, <1>2 DEF Favored!TypeOK
<1>4. /\ favJob'[k] = r
      /\ \A j \in Call \ {k} : favJob'[j] = favJob[j]
  BY <1>2 DEF Favored!TypeOK
<1>5. \A j \in Call : Favored!Busy(j)' <=> Favored!Busy(j) \/ j = k
  BY <1>1, <1>2, <1>4 DEF Favored!Busy, Favored!At
<1>6. \A j \in Call : j \in Favored!Rivals(p) <=> Favored!Busy(j) /\ favJob[j].pair = p
  BY DEF Favored!Rivals
<1>7. Undisturbed'
  <2> SUFFICES ASSUME NEW j \in alone', Favored!Busy(j)'
               PROVE  /\ \A i \in Call : Favored!Busy(i)' /\ favJob'[i].pair = favJob'[j].pair => i = j
                      /\ favJob'[j].at = "insert" => favJob'[j].pair \notin favorite'
                      /\ favJob'[j].at = "delete" => favJob'[j].pair \in favorite'
    BY DEF Undisturbed
  <2>1. j \in Call /\ alone \subseteq Call
    BY <1>2 DEF Favored!TypeOK
  <2>2. CASE j = k
    <3>1. Favored!Rivals(p) = {}
      BY <1>2, <2>2
    <3> QED
      BY <1>1, <1>4, <1>5, <1>6, <2>2, <3>1
  <2>3. CASE j # k
    <3>1. j \in alone /\ Favored!Busy(j) /\ favJob'[j] = favJob[j] /\ favJob[j].pair # p
      BY <1>2, <1>4, <1>5, <1>6, <2>1, <2>3
    <3> QED
      BY <1>1, <1>2, <1>4, <1>5, <2>1, <3>1 DEF Undisturbed
  <2> QED
    BY <2>2, <2>3
<1>8. LeftThere'
  BY <1>2, HostedAssumption DEF Favored!FavoritesAssumption, LeftThere, Favored!TypeOK
<1>9. \A j \in Call : favJob'[j].answer \in {"already", "error"} => j \notin alone'
  BY <1>1, <1>2, <1>4, HostedAssumption DEF Favored!FavoritesAssumption
<1> QED
  BY <1>3, <1>7, <1>8, <1>9

LEMMA FavInvStep ==
  ASSUME FavInv, [Favored!Next]_(Favored!vars)
  PROVE  FavInv'
<1>1. ASSUME NEW k \in Call, Favored!Refuse(k) PROVE FavInv'
  <2>1. /\ favJob' = [favJob EXCEPT ![k] = Favored!Idle]
        /\ UNCHANGED <<favorite, alone, left>>
    BY <1>1 DEF Favored!Refuse
  <2>2. /\ Favored!Idle.at = "idle" /\ Favored!Idle.answer = None
    BY DEF Favored!Idle
  <2>3. /\ favJob'[k] = Favored!Idle /\ favJob' \in [Call -> Favored!Job \cup {Favored!Idle}]
        /\ \A j \in Call \ {k} : favJob'[j] = favJob[j]
    BY <2>1 DEF FavInv, Favored!TypeOK
  <2>4. \A j \in Call : Favored!Busy(j)' => Favored!Busy(j) /\ j # k
    BY <2>2, <2>3 DEF Favored!Busy, Favored!At
  <2>5. alone \subseteq Call
    BY DEF FavInv, Favored!TypeOK
  <2>6. Undisturbed'
    BY <2>1, <2>3, <2>4, <2>5 DEF FavInv, Undisturbed
  <2>7. \A j \in Call : favJob'[j].answer \in {"already", "error"} => j \notin alone'
    BY <2>1, <2>2, <2>3, HostedAssumption DEF FavInv, Favored!FavoritesAssumption
  <2> QED
    BY <2>1, <2>3, <2>6, <2>7 DEF FavInv, Favored!TypeOK, LeftThere
<1>2. ASSUME NEW k \in Call, Favored!AddFavorite(k) PROVE FavInv'
  <2>1. Favored!Busy(k)
    BY <1>2 DEF Favored!AddFavorite, Favored!Busy, Favored!At
  <2>2. CASE favJob[k].pair \in favorite
    <3>1. /\ Favored!Reply(k, "done", TRUE)
          /\ favorite' = IF TRUE THEN favorite \cup {favJob[k].pair} ELSE favorite \ {favJob[k].pair}
      BY <1>2, <2>2 DEF Favored!AddFavorite
    <3> QED
      BY <2>1, <3>1, ReplyKeeps
  <2>3. CASE favJob[k].pair \notin favorite
    <3>1. Favored!Go(k, "insert")
      BY <1>2, <2>3 DEF Favored!AddFavorite
    <3> QED
      BY <2>1, <2>3, <3>1, GoKeeps
  <2> QED
    BY <2>2, <2>3
<1>3. ASSUME NEW k \in Call, Favored!InsertFavorite(k) PROVE FavInv'
  <2> DEFINE answer == IF favJob[k].pair \in favorite THEN "already" ELSE "done"
  <2>1. /\ Favored!Busy(k) /\ Favored!Reply(k, answer, TRUE) /\ favJob[k].at = "insert"
        /\ favorite' = IF TRUE THEN favorite \cup {favJob[k].pair} ELSE favorite \ {favJob[k].pair}
    BY <1>3 DEF Favored!InsertFavorite, Favored!Busy, Favored!At
  <2>2. answer \in {"already", "error"} => k \notin alone
    BY <2>1 DEF FavInv, Undisturbed
  <2>3. answer \in {"done", "not_found", "already", "error"}
    OBVIOUS
  <2> HIDE DEF answer
  <2> QED
    BY <2>1, <2>2, <2>3, ReplyKeeps
<1>4. ASSUME NEW k \in Call, Favored!RemoveFavorite(k) PROVE FavInv'
  <2>1. Favored!Busy(k)
    BY <1>4 DEF Favored!RemoveFavorite, Favored!Busy, Favored!At
  <2>2. CASE favJob[k].pair \notin favorite
    <3>1. /\ Favored!Reply(k, "not_found", FALSE)
          /\ favorite' = IF FALSE THEN favorite \cup {favJob[k].pair} ELSE favorite \ {favJob[k].pair}
      BY <1>4, <2>2 DEF Favored!RemoveFavorite
    <3> QED
      BY <2>1, <3>1, ReplyKeeps
  <2>3. CASE favJob[k].pair \in favorite
    <3>1. Favored!Go(k, "delete")
      BY <1>4, <2>3 DEF Favored!RemoveFavorite
    <3> QED
      BY <2>1, <2>3, <3>1, GoKeeps
  <2> QED
    BY <2>2, <2>3
<1>5. ASSUME NEW k \in Call, Favored!DeleteFavorite(k) PROVE FavInv'
  <2> DEFINE answer == IF favJob[k].pair \in favorite THEN "done" ELSE "error"
  <2>1. /\ Favored!Busy(k) /\ Favored!Reply(k, answer, FALSE) /\ favJob[k].at = "delete"
        /\ favorite' = IF FALSE THEN favorite \cup {favJob[k].pair} ELSE favorite \ {favJob[k].pair}
    BY <1>5 DEF Favored!DeleteFavorite, Favored!Busy, Favored!At
  <2>2. answer \in {"already", "error"} => k \notin alone
    BY <2>1 DEF FavInv, Undisturbed
  <2>3. answer \in {"done", "not_found", "already", "error"}
    OBVIOUS
  <2> HIDE DEF answer
  <2> QED
    BY <2>1, <2>2, <2>3, ReplyKeeps
<1>6. CASE UNCHANGED Favored!vars
  BY <1>6
     DEF Favored!vars, FavInv, Favored!TypeOK, Undisturbed, LeftThere, Favored!Busy,
         Favored!At
<1> QED
  BY <1>1, <1>2, <1>3, <1>4, <1>5, <1>6, ToggleKeeps DEF Favored!Next

\* A request nobody overlaps does what it says.
LEMMA FavStands == FavInv => Favored!LastToggleStands
<1> SUFFICES ASSUME FavInv PROVE Favored!LastToggleStands
  OBVIOUS
<1>1. ASSUME NEW u \in User, NEW l \in Listing, left[<<u, l>>] # None
      PROVE  (l \in Favored!GetFavoriteListingIds(u, {l})) = left[<<u, l>>]
  <2>1. <<u, l>> \in Favored!Pair
    BY DEF Favored!Pair
  <2>2. l \in Favored!GetFavoriteListingIds(u, {l}) <=> <<u, l>> \in favorite
    BY DEF Favored!GetFavoriteListingIds, Favored!GetUserFavorites
  <2>3. left[<<u, l>>] \in BOOLEAN
    BY <1>1, <2>1 DEF FavInv, Favored!TypeOK
  <2>4. CASE left[<<u, l>>] = TRUE
    BY <2>1, <2>2, <2>4 DEF FavInv, LeftThere
  <2>5. CASE left[<<u, l>>] = FALSE
    <3>1. <<u, l>> \notin favorite
      BY <2>1, <2>5 DEF FavInv, LeftThere
    <3>2. (l \in Favored!GetFavoriteListingIds(u, {l})) = FALSE
      BY <2>2, <3>1
    <3> QED
      BY <2>5, <3>2
  <2> QED
    BY <2>3, <2>4, <2>5
<1> QED
  BY <1>1 DEF FavInv, Favored!LastToggleStands

-----------------------------------------------------------------------------
(* Tiles *)

\* What a city admin may write lies in the cities that were read.
AllowedInScope ==
  \A k \in Call : Tiled!At(k, "write") /\ tileJob[k].scope # Tiled!All =>
    tileJob[k].seen \cup Tiled!Wanted(tileJob[k]) \subseteq tileJob[k].scope

TileInv == Tiled!TypeOK /\ AllowedInScope

LEMMA TileInvInit == Tiled!Init => TileInv
BY HostedAssumption
   DEF Tiled!Init, TileInv, Tiled!TypeOK, AllowedInScope, Tiled!At, Tiled!Idle

LEMMA TileJobs ==
  ASSUME Tiled!TypeOK, NEW k \in Call, ~Tiled!At(k, "idle")
  PROVE  tileJob[k] \in Tiled!Job
BY DEF Tiled!TypeOK, Tiled!At, Tiled!Idle

\* A request that enters or moves on keeps to its scope.
LEMMA TileJobKeeps ==
  ASSUME TileInv, NEW k \in Call, NEW j \in Tiled!Job,
         tileJob' = [tileJob EXCEPT ![k] = j], UNCHANGED <<tile, managed>>,
         j.at = "write" /\ j.scope # Tiled!All =>
           j.seen \cup Tiled!Wanted(j) \subseteq j.scope
  PROVE  TileInv'
<1>1. Tiled!TypeOK'
  BY DEF TileInv, Tiled!TypeOK
<1>2. /\ tileJob'[k] = j
      /\ \A i \in Call \ {k} : tileJob'[i] = tileJob[i]
  BY DEF TileInv, Tiled!TypeOK
<1>3. AllowedInScope'
  BY <1>2 DEF TileInv, AllowedInScope, Tiled!At, Tiled!Wanted
<1> QED
  BY <1>1, <1>3 DEF TileInv

\* So does one that ends.
LEMMA TileEndKeeps ==
  ASSUME TileInv, NEW k \in Call, Tiled!Finish(k),
         tile' \in [Tile -> (SUBSET City) \cup {None}], UNCHANGED managed
  PROVE  TileInv'
<1>1. Tiled!TypeOK'
  BY DEF TileInv, Tiled!TypeOK, Tiled!Finish
<1>2. /\ tileJob'[k] = Tiled!Idle
      /\ \A i \in Call \ {k} : tileJob'[i] = tileJob[i]
  BY DEF TileInv, Tiled!TypeOK, Tiled!Finish
<1>3. AllowedInScope'
  BY <1>2 DEF TileInv, AllowedInScope, Tiled!At, Tiled!Wanted, Tiled!Idle
<1> QED
  BY <1>1, <1>3 DEF TileInv

LEMMA TileInvStep ==
  ASSUME TileInv, [Tiled!Next]_(Tiled!tileVars)
  PROVE  TileInv'
<1> USE DEF TileInv
<1>1. CASE Tiled!Reassign
  <2>1. managed' \in Manageable /\ UNCHANGED <<tile, tileJob>>
    BY <1>1 DEF Tiled!Reassign
  <2> QED
    BY <2>1 DEF Tiled!TypeOK, AllowedInScope, Tiled!At, Tiled!Wanted
<1>2. ASSUME NEW k \in Call, NEW t \in Tile, NEW super \in BOOLEAN, NEW cities \in SUBSET City,
             Tiled!CreateTile(k, t, super, cities)
      PROVE  TileInv'
  <2> DEFINE j == [at |-> IF super THEN "write" ELSE "read", op |-> "create", tile |-> t,
                   wants |-> cities, seen |-> {}, scope |-> Tiled!All]
  <2>1. j \in Tiled!Job /\ j.scope = Tiled!All
    BY DEF Tiled!Job
  <2>2. tileJob' = [tileJob EXCEPT ![k] = j] /\ UNCHANGED <<tile, managed>>
    BY <1>2 DEF Tiled!CreateTile
  <2> HIDE DEF j
  <2> QED
    BY <2>1, <2>2, TileJobKeeps
<1>3. ASSUME NEW k \in Call, NEW t \in Tile, NEW super \in BOOLEAN,
             NEW wants \in {Tiled!Keep} \cup SUBSET City, Tiled!UpdateTile(k, t, super, wants)
      PROVE  TileInv'
  <2> DEFINE j == [at |-> IF super THEN "write" ELSE "read", op |-> "update", tile |-> t,
                   wants |-> wants, seen |-> tile[t], scope |-> Tiled!All]
  <2>1. tile[t] \in SUBSET City
    BY <1>3 DEF Tiled!UpdateTile, Tiled!Exists, Tiled!TypeOK
  <2>2. j \in Tiled!Job /\ j.scope = Tiled!All
    BY <2>1 DEF Tiled!Job
  <2>3. tileJob' = [tileJob EXCEPT ![k] = j] /\ UNCHANGED <<tile, managed>>
    BY <1>3 DEF Tiled!UpdateTile
  <2> HIDE DEF j
  <2> QED
    BY <2>2, <2>3, TileJobKeeps
<1>4. ASSUME NEW k \in Call, NEW t \in Tile, NEW super \in BOOLEAN, Tiled!DeleteTile(k, t, super)
      PROVE  TileInv'
  <2> DEFINE j == [at |-> IF super THEN "write" ELSE "read", op |-> "delete", tile |-> t,
                   wants |-> {}, seen |-> tile[t], scope |-> Tiled!All]
  <2>1. tile[t] \in SUBSET City
    BY <1>4 DEF Tiled!DeleteTile, Tiled!Exists, Tiled!TypeOK
  <2>2. j \in Tiled!Job /\ j.scope = Tiled!All
    BY <2>1 DEF Tiled!Job
  <2>3. tileJob' = [tileJob EXCEPT ![k] = j] /\ UNCHANGED <<tile, managed>>
    BY <1>4 DEF Tiled!DeleteTile
  <2> HIDE DEF j
  <2> QED
    BY <2>2, <2>3, TileJobKeeps
<1>5. ASSUME NEW k \in Call, Tiled!CheckCities(k) PROVE TileInv'
  <2>1. PICK scope \in {managed, {}} :
          IF Tiled!Allows(tileJob[k], scope)
          THEN tileJob' = [tileJob EXCEPT
                 ![k].at = "write", ![k].scope = IF scope = {} THEN Tiled!All ELSE scope]
          ELSE Tiled!Finish(k)
    BY <1>5 DEF Tiled!CheckCities
  <2>2. tileJob[k] \in Tiled!Job /\ UNCHANGED <<tile, managed>> /\ managed \subseteq City
    BY <1>5, TileJobs, HostedAssumption
       DEF Tiled!CheckCities, Tiled!At, Tiled!TypeOK, Tiled!ManagesAssumption
  <2>3. CASE Tiled!Allows(tileJob[k], scope)
    <3> DEFINE s == IF scope = {} THEN Tiled!All ELSE scope
               j1 == [tileJob[k] EXCEPT !.at = "write"]
               j == [j1 EXCEPT !.scope = s]
    <3>1. s \in {Tiled!All} \cup SUBSET City /\ (s # Tiled!All => s = scope /\ scope # {})
      BY <2>2
    <3> HIDE DEF s
    <3>2. j1 \in Tiled!Job /\ j1.at = "write" /\ j1.seen = tileJob[k].seen
          /\ j1.wants = tileJob[k].wants
      BY <2>2 DEF Tiled!Job
    <3>3. tileJob' = [tileJob EXCEPT ![k] = j]
      BY <2>1, <2>3 DEF s
    <3> HIDE DEF j1
    <3>4. j \in Tiled!Job /\ j.at = "write" /\ j.scope = s /\ j.seen = tileJob[k].seen
          /\ j.wants = tileJob[k].wants
      BY <3>1, <3>2 DEF Tiled!Job
    <3> HIDE DEF j
    <3>5. j.scope # Tiled!All => j.seen \cup Tiled!Wanted(j) \subseteq j.scope
      BY <2>3, <3>1, <3>4 DEF Tiled!Allows, Tiled!Wanted
    <3> QED
      BY <2>2, <3>3, <3>4, <3>5, TileJobKeeps
  <2>4. CASE ~Tiled!Allows(tileJob[k], scope)
    BY <2>1, <2>2, <2>4, TileEndKeeps DEF Tiled!TypeOK
  <2> QED
    BY <2>3, <2>4
<1>6. ASSUME NEW k \in Call,
             Tiled!InsertTile(k) \/ Tiled!StoreTile(k) \/ Tiled!RemoveTile(k) \/ Tiled!Fail(k)
      PROVE  TileInv'
  <2>1. tileJob[k] \in Tiled!Job
    BY <1>6, TileJobs
       DEF Tiled!InsertTile, Tiled!StoreTile, Tiled!RemoveTile, Tiled!Fail, Tiled!At
  <2>2. /\ Tiled!Finish(k) /\ UNCHANGED managed
        /\ \/ Tiled!SyncTileCities(tileJob[k].tile, tileJob[k].wants)
           \/ tile' = [tile EXCEPT ![tileJob[k].tile] = None]
           \/ UNCHANGED tile
    BY <1>6 DEF Tiled!InsertTile, Tiled!StoreTile, Tiled!RemoveTile, Tiled!Fail
  <2>3. tile' \in [Tile -> (SUBSET City) \cup {None}]
    BY <2>1, <2>2 DEF Tiled!SyncTileCities, Tiled!TypeOK, Tiled!Job
  <2> QED
    BY <2>2, <2>3, TileEndKeeps
<1>7. CASE UNCHANGED Tiled!tileVars
  BY <1>7 DEF Tiled!tileVars, Tiled!TypeOK, AllowedInScope, Tiled!At, Tiled!Wanted
<1> QED
  BY <1>1, <1>2, <1>3, <1>4, <1>5, <1>6, <1>7 DEF Tiled!Next, Tiled!Create

\* The cities whose lists have a tile are those it is linked to.
LEMMA TileShown ==
  ASSUME NEW t \in Tile
  PROVE  /\ Tiled!TypeOK => Tiled!ShownIn(t) = Tiled!Links(t)
         /\ Tiled!TypeOK' => Tiled!ShownIn(t)' = Tiled!Links(t)'
BY DEF Tiled!TypeOK, Tiled!ShownIn, Tiled!ListTiles, Tiled!BuildTileWhere, Tiled!Links,
       Tiled!Exists

\* A request that ends by writing its tile writes what it was let write.
LEMMA TileWrites ==
  ASSUME TileInv, [Tiled!Next]_(Tiled!tileVars), NEW k \in Call, NEW t \in Tile,
         Tiled!Writes(k), tileJob[k].tile = t, tileJob[k].scope # Tiled!All,
         tileJob[k].seen = Tiled!Links(t)
  PROVE  (Tiled!Links(t) \cup Tiled!Links(t)') \subseteq tileJob[k].scope
<1>1. /\ tileJob[k] \in Tiled!Job /\ Tiled!At(k, "write") /\ tileJob[k] # Tiled!Idle
  <2>1. Tiled!At(k, "write") /\ ~Tiled!At(k, "idle")
    BY DEF Tiled!Writes, Tiled!At
  <2> QED
    BY <2>1, TileJobs DEF TileInv, Tiled!At, Tiled!Idle, Tiled!Job
<1>2. tileJob'[k] = Tiled!Idle /\ tile'[t] # tile[t]
  BY DEF Tiled!Writes
<1>3. tileJob[k].seen \cup Tiled!Wanted(tileJob[k]) \subseteq tileJob[k].scope
  BY <1>1 DEF TileInv, AllowedInScope
<1>4. tile'[t] = None \/ (tile'[t] = tileJob[k].wants /\ tileJob[k].wants # Tiled!Keep)
  <2>1. ASSUME NEW i \in Call,
               Tiled!InsertTile(i) \/ Tiled!StoreTile(i) \/ Tiled!RemoveTile(i)
        PROVE  i = k
    <3>1. tileJob' = [tileJob EXCEPT ![i] = Tiled!Idle]
      BY <2>1 DEF Tiled!InsertTile, Tiled!StoreTile, Tiled!RemoveTile, Tiled!Finish
    <3> QED
      BY <1>1, <1>2, <3>1 DEF TileInv, Tiled!TypeOK
  <2>2. tile' # tile
    BY <1>2
  <2>3. Tiled!InsertTile(k) \/ Tiled!StoreTile(k) \/ Tiled!RemoveTile(k)
    BY <2>1, <2>2
       DEF Tiled!Next, Tiled!tileVars, Tiled!Reassign, Tiled!Create, Tiled!CreateTile,
           Tiled!UpdateTile, Tiled!DeleteTile, Tiled!CheckCities, Tiled!Fail
  <2> QED
    BY <1>1, <1>2, <2>3
       DEF Tiled!InsertTile, Tiled!StoreTile, Tiled!RemoveTile, Tiled!SyncTileCities,
           TileInv, Tiled!TypeOK
<1>5. Tiled!Links(t)' \subseteq Tiled!Wanted(tileJob[k])
  BY <1>4 DEF Tiled!Links, Tiled!Exists, Tiled!Wanted
<1> QED
  BY <1>3, <1>5

-----------------------------------------------------------------------------
(* CityCategories *)

\* Whatever is approved is offered, taken back, about to be offered or cut.
Resolved ==
  \A r \in Request : request[r].status = "APPROVED" =>
    \/ offered[Offers!Of(r)].active
    \/ Offers!Of(r) \in removed \/ r \in cut
    \/ \E k \in Call : resolver[k] = r

OfferInv == Offers!TypeOK /\ Resolved

LEMMA OfferInvInit == Offers!Init => OfferInv
<1> SUFFICES ASSUME Offers!Init PROVE OfferInv
  OBVIOUS
<1>1. Offers!TypeOK
  BY DEF Offers!Init, Offers!TypeOK
<1>2. ASSUME NEW r \in Request PROVE request[r].status # "APPROVED"
  BY HostedAssumption DEF Offers!CityCategoriesAssumption, Offers!Init, Offers!NoRow
<1> QED
  BY <1>1, <1>2 DEF OfferInv, Resolved

\* A request with a status has its city and category.
LEMMA RequestRows ==
  ASSUME Offers!TypeOK, NEW r \in Request, request[r] # Offers!NoRow
  PROVE  request[r] \in Offers!Row /\ Offers!Of(r) \in Offers!Pair
BY DEF Offers!TypeOK, Offers!Row, Offers!Of, Offers!Pair

\* An offer that is made or renamed stays of its type.
LEMMA OfferTypes ==
  ASSUME Offers!TypeOK, NEW p \in Offers!Pair, NEW name \in Name \cup {None}
  PROVE  /\ Offers!Assigned(offered[p], name) \in Offers!Offer
         /\ Offers!Assigned(offered[p], name).active
         /\ offered[p] # Offers!NoOffer =>
              /\ [offered[p] EXCEPT !.name = name] \in Offers!Offer
              /\ [offered[p] EXCEPT !.name = name].active = offered[p].active
              /\ [offered[p] EXCEPT !.active = FALSE] \in Offers!Offer
<1>1. offered[p] \in Offers!Offer \cup {Offers!NoOffer}
  BY DEF Offers!TypeOK
<1>2. /\ Offers!Assigned(offered[p], name) \in Offers!Offer
      /\ Offers!Assigned(offered[p], name).active
  BY <1>1 DEF Offers!Assigned, Offers!Offer
<1>3. ASSUME offered[p] # Offers!NoOffer
      PROVE  /\ [offered[p] EXCEPT !.name = name] \in Offers!Offer
             /\ [offered[p] EXCEPT !.name = name].active = offered[p].active
             /\ [offered[p] EXCEPT !.active = FALSE] \in Offers!Offer
  BY <1>1, <1>3 DEF Offers!Offer
<1> QED
  BY <1>2, <1>3

LEMMA OfferInvStep ==
  ASSUME OfferInv, [Offers!Next]_(Offers!cityVars)
  PROVE  OfferInv'
<1> USE DEF OfferInv
<1>1. ASSUME NEW p \in Offers!Pair, Offers!AssignCategory(p) PROVE OfferInv'
  <2>1. PICK name \in Name \cup {None} :
          offered' = [offered EXCEPT ![p] = Offers!Assigned(offered[p], name)]
    BY <1>1 DEF Offers!AssignCategory
  <2> DEFINE o == Offers!Assigned(offered[p], name)
  <2>2. o \in Offers!Offer /\ o.active
    BY OfferTypes
  <2>3. offered' = [offered EXCEPT ![p] = o]
    BY <2>1
  <2> HIDE DEF o
  <2>4. /\ removed' = removed \ {p}
        /\ UNCHANGED <<present, request, resolver, cut>>
    BY <1>1 DEF Offers!AssignCategory
  <2>5. Offers!TypeOK'
    BY <2>2, <2>3, <2>4 DEF Offers!TypeOK
  <2>6. Resolved'
    BY <2>2, <2>3, <2>4 DEF Offers!TypeOK, Resolved, Offers!Of
  <2> QED
    BY <2>5, <2>6
<1>2. ASSUME NEW p \in Offers!Pair, Offers!RemoveCategory(p) PROVE OfferInv'
  <2> DEFINE o == [offered[p] EXCEPT !.active = FALSE]
  <2>1. o \in Offers!Offer
    BY <1>2, OfferTypes DEF Offers!RemoveCategory, Offers!RemoveCategoryFromCity
  <2>2. /\ offered' = [offered EXCEPT ![p] = o]
        /\ removed' = removed \cup {p}
        /\ UNCHANGED <<present, request, resolver, cut>>
    BY <1>2 DEF Offers!RemoveCategory, Offers!RemoveCategoryFromCity
  <2> HIDE DEF o
  <2>3. Offers!TypeOK'
    BY <2>1, <2>2 DEF Offers!TypeOK
  <2>4. Resolved'
    BY <2>2 DEF Offers!TypeOK, Resolved, Offers!Of
  <2> QED
    BY <2>3, <2>4
<1>3. ASSUME NEW p \in Offers!Pair, NEW a \in CityAdmin \cup {None},
             Offers!UpdateDisplayName(a, p)
      PROVE  OfferInv'
  <2>1. PICK name \in Name \cup {None} :
          /\ offered[p] # Offers!NoOffer
          /\ offered' = [offered EXCEPT ![p].name = name]
    BY <1>3 DEF Offers!UpdateDisplayName, Offers!UpdateCityCategoryDisplayName
  <2> DEFINE o == [offered[p] EXCEPT !.name = name]
  <2>2. o \in Offers!Offer /\ o.active = offered[p].active
    BY <1>3, <2>1, OfferTypes
  <2>3. /\ offered' = [offered EXCEPT ![p] = o]
        /\ UNCHANGED <<present, request, resolver, removed, cut>>
    BY <1>3, <2>1 DEF Offers!UpdateDisplayName
  <2> HIDE DEF o
  <2>4. Offers!TypeOK'
    BY <2>2, <2>3 DEF Offers!TypeOK
  <2>5. Resolved'
    BY <2>2, <2>3 DEF Offers!TypeOK, Resolved, Offers!Of
  <2> QED
    BY <2>4, <2>5
<1>4. ASSUME NEW a \in CityAdmin \cup {None}, NEW r \in Request, Offers!RequestCategory(a, r)
      PROVE  OfferInv'
  <2>1. PICK p \in Offers!Pair :
          request' = [request EXCEPT ![r] =
            [city |-> p[1], category |-> p[2], by |-> a, status |-> "PENDING"]]
    BY <1>4 DEF Offers!RequestCategory, Offers!RequestCityCategory
  <2> DEFINE row == [city |-> p[1], category |-> p[2], by |-> a, status |-> "PENDING"]
  <2>2. row \in Offers!Row /\ row.status = "PENDING"
    BY DEF Offers!Row, Offers!Pair, Offers!Status
  <2>3. /\ request' = [request EXCEPT ![r] = row]
        /\ UNCHANGED <<present, offered, resolver, removed, cut>>
    BY <1>4, <2>1 DEF Offers!RequestCategory
  <2> HIDE DEF row
  <2>4. Offers!TypeOK'
    BY <2>2, <2>3 DEF Offers!TypeOK
  <2>5. Resolved'
    BY <2>2, <2>3 DEF Offers!TypeOK, Resolved, Offers!Of
  <2> QED
    BY <2>4, <2>5
<1>5. ASSUME NEW k \in Call, NEW r \in Request, Offers!ResolveRequest(k, r) PROVE OfferInv'
  <2>1. PICK status \in Offers!Status :
          /\ request' = [request EXCEPT ![r] = [request[r] EXCEPT !.status = status]]
          /\ resolver' = [resolver EXCEPT ![k] = IF status = "APPROVED" THEN r ELSE None]
    BY <1>5 DEF Offers!ResolveRequest
  <2> DEFINE row == [request[r] EXCEPT !.status = status]
             to  == IF status = "APPROVED" THEN r ELSE None
  <2>2. request[r] \in Offers!Row /\ resolver[k] = None
    BY <1>5, RequestRows DEF Offers!ResolveRequest
  <2>3. /\ row \in Offers!Row /\ row.status = status
        /\ row.city = request[r].city /\ row.category = request[r].category
    BY <2>2 DEF Offers!Row
  <2>4. to \in Request \cup {None} /\ (status = "APPROVED" => to = r)
    OBVIOUS
  <2>5. /\ request' = [request EXCEPT ![r] = row]
        /\ resolver' = [resolver EXCEPT ![k] = to]
        /\ UNCHANGED <<present, offered, removed, cut>>
    BY <1>5, <2>1 DEF Offers!ResolveRequest
  <2> HIDE DEF row, to
  <2>6. Offers!TypeOK'
    BY <2>3, <2>4, <2>5 DEF Offers!TypeOK
  <2>7. ASSUME NEW q \in Request, request'[q].status = "APPROVED"
        PROVE  \/ offered[Offers!Of(q)].active
               \/ Offers!Of(q) \in removed \/ q \in cut
               \/ \E j \in Call : resolver'[j] = q
    <3>1. CASE q = r
      BY <2>3, <2>4, <2>5, <2>7, <3>1 DEF Offers!TypeOK
    <3>2. CASE q # r
      <4>1. request'[q] = request[q]
        BY <2>5, <3>2 DEF Offers!TypeOK
      <4>2. \A j \in Call : resolver[j] = q => resolver'[j] = q
        BY <2>2, <2>5, HostedAssumption DEF Offers!TypeOK, Offers!CityCategoriesAssumption
      <4> QED
        BY <2>7, <4>1, <4>2 DEF Resolved
    <3> QED
      BY <3>1, <3>2
  <2>8. \A q \in Request : Offers!Of(q)' = Offers!Of(q)
    BY <2>3, <2>5 DEF Offers!TypeOK, Offers!Of
  <2> QED
    BY <2>5, <2>6, <2>7, <2>8 DEF Resolved
<1>6. ASSUME NEW k \in Call, Offers!AssignRequested(k) PROVE OfferInv'
  <2>1. PICK r \in Request : r = resolver[k]
    BY <1>6 DEF Offers!AssignRequested, Offers!TypeOK
  <2>2. /\ resolver' = [resolver EXCEPT ![k] = None] /\ UNCHANGED <<present, request>>
        /\ \A j \in Call : j # k => resolver'[j] = resolver[j]
    BY <1>6 DEF Offers!AssignRequested, Offers!TypeOK
  <2>3. \A q \in Request \ {r} : \A j \in Call : resolver[j] = q => resolver'[j] = q
    BY <2>1, <2>2
  <2>4. CASE /\ request[r] # Offers!NoRow
             /\ offered' = [offered EXCEPT ![Offers!Of(r)] = Offers!Assigned(offered[Offers!Of(r)], None)]
             /\ removed' = removed \ {Offers!Of(r)}
             /\ UNCHANGED cut
    <3>1. PICK p \in Offers!Pair : p = Offers!Of(r)
      BY <2>4, RequestRows
    <3> DEFINE o == Offers!Assigned(offered[p], None)
    <3>2. o \in Offers!Offer /\ o.active
      BY OfferTypes
    <3>3. /\ offered' = [offered EXCEPT ![p] = o] /\ removed' = removed \ {p}
          /\ UNCHANGED cut
      BY <2>4, <3>1
    <3> HIDE DEF o
    <3>4. Offers!TypeOK'
      BY <2>2, <3>2, <3>3 DEF Offers!TypeOK
    <3>5. ASSUME NEW q \in Request, request[q].status = "APPROVED"
          PROVE  \/ offered'[Offers!Of(q)].active
                 \/ Offers!Of(q) \in removed' \/ q \in cut
                 \/ \E j \in Call : resolver'[j] = q
      <4>1. CASE Offers!Of(q) = p
        BY <3>2, <3>3, <4>1 DEF Offers!TypeOK
      <4>2. CASE Offers!Of(q) # p
        <5>1. q # r
          BY <3>1, <4>2
        <5>2. request[q] # Offers!NoRow
          BY <3>5, HostedAssumption DEF Offers!NoRow, Offers!CityCategoriesAssumption
        <5>3. Offers!Of(q) \in Offers!Pair
          BY <5>2, RequestRows
        <5> QED
          BY <2>3, <3>3, <3>5, <4>2, <5>1, <5>3 DEF Resolved, Offers!TypeOK
      <4> QED
        BY <4>1, <4>2
    <3>6. \A q \in Request : Offers!Of(q)' = Offers!Of(q) /\ request'[q] = request[q]
      BY <2>2 DEF Offers!Of
    <3> QED
      BY <3>3, <3>4, <3>5, <3>6 DEF Resolved
  <2>5. CASE cut' = cut \cup {r} /\ UNCHANGED <<offered, removed>>
    <3>1. Offers!TypeOK'
      BY <2>2, <2>5 DEF Offers!TypeOK
    <3>2. \A q \in Request : Offers!Of(q)' = Offers!Of(q) /\ request'[q] = request[q]
      BY <2>2 DEF Offers!Of
    <3> QED
      BY <2>3, <2>5, <3>1, <3>2 DEF Resolved
  <2> QED
    BY <1>6, <2>1, <2>4, <2>5 DEF Offers!AssignRequested
<1>7. ASSUME NEW c \in Offerable, Offers!DeleteCategory(c) PROVE OfferInv'
  <2>1. /\ present' = present \ {c}
        /\ offered' = [p \in Offers!Pair |-> IF p[2] = c THEN Offers!NoOffer ELSE offered[p]]
        /\ request' = [r \in Request |->
              IF request[r] # Offers!NoRow /\ request[r].category = c
              THEN Offers!NoRow ELSE request[r]]
        /\ removed' = {p \in removed : p[2] # c}
        /\ UNCHANGED <<resolver, cut>>
    BY <1>7 DEF Offers!DeleteCategory
  <2>2. Offers!TypeOK'
    BY <2>1 DEF Offers!TypeOK
  <2>3. ASSUME NEW q \in Request, request'[q].status = "APPROVED"
        PROVE  /\ request'[q] = request[q] /\ request[q] # Offers!NoRow
               /\ Offers!Of(q) \in Offers!Pair /\ Offers!Of(q)[2] # c
    <3>1. request'[q] # Offers!NoRow
      BY <2>3, HostedAssumption DEF Offers!NoRow, Offers!CityCategoriesAssumption
    <3>2. request'[q] = request[q] /\ request[q].category # c
      BY <2>1, <3>1
    <3> QED
      BY <3>1, <3>2, RequestRows DEF Offers!Of
  <2>4. ASSUME NEW q \in Request, request'[q].status = "APPROVED"
        PROVE  \/ offered'[Offers!Of(q)].active
               \/ Offers!Of(q) \in removed' \/ q \in cut
               \/ \E j \in Call : resolver'[j] = q
    <3>1. PICK p \in Offers!Pair : p = Offers!Of(q) /\ p[2] # c
      BY <2>3, <2>4
    <3>2. offered'[p] = offered[p] /\ (p \in removed => p \in removed')
      BY <2>1, <3>1
    <3> QED
      BY <2>1, <2>3, <2>4, <3>1, <3>2 DEF Resolved
  <2>5. \A q \in Request : request'[q].status = "APPROVED" => Offers!Of(q)' = Offers!Of(q)
    BY <2>3 DEF Offers!Of
  <2> QED
    BY <2>1, <2>2, <2>4, <2>5 DEF Resolved
<1>8. CASE UNCHANGED Offers!cityVars
  BY <1>8 DEF Offers!cityVars, Offers!TypeOK, Resolved, Offers!Of
<1> QED
  BY <1>1, <1>2, <1>3, <1>4, <1>5, <1>6, <1>7, <1>8 DEF Offers!Next

LEMMA OffersStand == OfferInv => Offers!ApprovedIsOffered
<1> SUFFICES ASSUME OfferInv, NEW a \in CityAdmin, NEW city \in Town,
                    NEW r \in Offers!ListCityRequests(a, city, "APPROVED")
             PROVE  \/ request[r].category \in Offers!ListCityCategories(city)
                    \/ Offers!Of(r) \in removed \/ r \in cut
                    \/ \E k \in Call : resolver[k] = r
  BY DEF Offers!ApprovedIsOffered
<1>1. r \in Request /\ request[r].status = "APPROVED" /\ request[r].city = city
  BY DEF Offers!ListCityRequests, Offers!ListRequests
<1>2. request[r] # Offers!NoRow
  BY <1>1, HostedAssumption DEF Offers!NoRow, Offers!CityCategoriesAssumption
<1>3. request[r].category \in Offerable
  BY <1>1, <1>2, RequestRows DEF OfferInv, Offers!Row
<1> QED
  BY <1>1, <1>3 DEF OfferInv, Resolved, Offers!Of, Offers!ListCityCategories

-----------------------------------------------------------------------------
(* Listings *)

\* A row stands: what is approved carries the text t stood for last, if t was
\* not stale by then, and is not archived, and has its date if an admin
\* approved it for publication; what one field calls archived the others do,
\* too; and a verdict has its reviewer.
RowStands(r, t) ==
  /\ r.moderation = "APPROVED" => t \in {r.text, Edited!Stale} /\ ~r.archived
  /\ r.moderation = "APPROVED" /\ r.reviewer # None /\ r.status = "APPROVED" => r.dated
  /\ r.moderation = "ARCHIVED" => r.archived /\ r.status = "DELETED"
  /\ r.reviewer = None /\ r.author # None => r.moderation = "PENDING"

RowPlaced(r) == r.primary \in Edited!PrimaryOf(r.cities)

Stood == Text \cup {None, Edited!Stale}

\* The rows stand but for those set by hand, and what a moderator was shown
\* and has read is still there, or marked as stale.
ListingInv ==
  /\ Edited!TypeOK
  /\ \A l \in Listing : Edited!Exists(l) => RowPlaced(listing[l])
  /\ \A l \in Listing \ byHand : Edited!Exists(l) => RowStands(listing[l], passed[l])
  /\ \A c \in Call : reading[c] # Edited!Idle =>
       /\ listing[reading[c].listing] \in Edited!Row
       /\ reading[c].text \in {listing[reading[c].listing].text, Edited!Stale}
       /\ reading[c].listing \notin byHand /\ reading[c].dated =>
            listing[reading[c].listing].dated

LEMMA ListingInvInit == Edited!Init => ListingInv
BY DEF Edited!Init, ListingInv, Edited!TypeOK, Edited!Exists

\* The verdicts under way are marked if l gets another text with r, and may end.
Marked(l, r) ==
  /\ reading' \in [Call -> Edited!Reading \cup {Edited!Idle}]
  /\ \A c \in Call : reading'[c] # Edited!Idle =>
       /\ reading[c] # Edited!Idle
       /\ reading'[c].listing = reading[c].listing
       /\ reading'[c].dated = reading[c].dated
       /\ reading'[c].text \in {reading[c].text, Edited!Stale}
       /\ reading[c].listing = l => reading'[c].text \in {r.text, Edited!Stale}

\* No verdict need be marked where the text stays.
LEMMA TextStays ==
  ASSUME ListingInv, NEW l \in Listing, NEW r,
         listing[l] \in Edited!Row => r.text = listing[l].text,
         reading' \in [Call -> Edited!Reading \cup {Edited!Idle}],
         \A c \in Call : reading'[c] \in {reading[c], Edited!Idle}
  PROVE  Marked(l, r)
BY DEF Marked, ListingInv

\* Rewriting a listing marks those who were shown another text.
LEMMA RewriteMarks ==
  ASSUME ListingInv, NEW l \in Listing, NEW r, Edited!Rewrite(l, r)
  PROVE  Edited!Put(l, r) /\ Marked(l, r)
<1>1. Edited!Put(l, r)
  BY DEF Edited!Rewrite
<1>2. \A c \in Call : reading[c] \in Edited!Reading \cup {Edited!Idle}
  BY DEF ListingInv, Edited!TypeOK
<1>3. reading' = [c \in Call |->
        IF reading[c] # Edited!Idle /\ reading[c].listing = l /\ reading[c].text # r.text
        THEN [reading[c] EXCEPT !.text = Edited!Stale] ELSE reading[c]]
  BY DEF Edited!Rewrite
<1>4. ASSUME NEW c \in Call
      PROVE  /\ reading'[c] \in Edited!Reading \cup {Edited!Idle}
             /\ reading'[c] # Edited!Idle =>
                  /\ reading[c] # Edited!Idle
                  /\ reading'[c].listing = reading[c].listing
                  /\ reading'[c].dated = reading[c].dated
                  /\ reading'[c].text \in {reading[c].text, Edited!Stale}
                  /\ reading[c].listing = l => reading'[c].text \in {r.text, Edited!Stale}
  <2>1. CASE reading[c] # Edited!Idle /\ reading[c].listing = l /\ reading[c].text # r.text
    <3>1. reading[c] \in Edited!Reading /\ reading'[c] = [reading[c] EXCEPT !.text = Edited!Stale]
      BY <1>2, <1>3, <2>1
    <3> QED
      BY <2>1, <3>1 DEF Edited!Reading
  <2>2. CASE ~(reading[c] # Edited!Idle /\ reading[c].listing = l /\ reading[c].text # r.text)
    <3>1. reading'[c] = reading[c]
      BY <1>3, <2>2
    <3> QED
      BY <1>2, <2>2, <3>1
  <2> QED
    BY <2>1, <2>2
<1>5. reading' \in [Call -> Edited!Reading \cup {Edited!Idle}]
  BY <1>3, <1>4
<1> QED
  BY <1>1, <1>4, <1>5 DEF Marked

\* A row may be replaced by one that stands and keeps its date.
LEMMA PutKeeps ==
  ASSUME ListingInv, NEW l \in Listing, NEW r \in Edited!Row, NEW t \in Stood,
         NEW hands \in SUBSET {l},
         Edited!Put(l, r), passed' = [passed EXCEPT ![l] = t],
         byHand' = byHand \cup hands, Marked(l, r),
         RowPlaced(r),
         l \notin byHand' => RowStands(r, t),
         l \notin byHand' => (listing[l] \in Edited!Row /\ listing[l].dated => r.dated)
  PROVE  ListingInv'
<1> USE DEF ListingInv
<1>0. listing' = [listing EXCEPT ![l] = r]
  BY DEF Edited!Put
<1>1. Edited!TypeOK'
  BY <1>0 DEF Edited!TypeOK, Marked, Stood
<1>2. /\ listing'[l] = r /\ passed'[l] = t
      /\ \A q \in Listing : q # l => listing'[q] = listing[q] /\ passed'[q] = passed[q]
  BY <1>0 DEF Edited!TypeOK
<1>3. \A q \in Listing : Edited!Exists(q)' => RowPlaced(listing'[q])
  BY <1>2 DEF Edited!Exists
<1>4. \A q \in Listing \ byHand' : Edited!Exists(q)' => RowStands(listing'[q], passed'[q])
  <2> SUFFICES ASSUME NEW q \in Listing, q \notin byHand', Edited!Exists(q)'
               PROVE  RowStands(listing'[q], passed'[q])
    OBVIOUS
  <2>1. CASE q = l
    BY <1>2, <2>1
  <2>2. CASE q # l
    BY <1>2, <2>2 DEF Edited!Exists
  <2> QED
    BY <2>1, <2>2
<1>5. ASSUME NEW c \in Call, reading'[c] # Edited!Idle
      PROVE  /\ listing'[reading'[c].listing] \in Edited!Row
             /\ reading'[c].text \in {listing'[reading'[c].listing].text, Edited!Stale}
             /\ reading'[c].listing \notin byHand' /\ reading'[c].dated =>
                  listing'[reading'[c].listing].dated
  <2>1. /\ reading[c] # Edited!Idle /\ reading[c] \in Edited!Reading
        /\ reading'[c].listing = reading[c].listing /\ reading'[c].dated = reading[c].dated
        /\ reading'[c].text \in {reading[c].text, Edited!Stale}
        /\ reading[c].listing = l => reading'[c].text \in {r.text, Edited!Stale}
    BY <1>5 DEF Edited!TypeOK, Marked
  <2>2. PICK q \in Listing : q = reading[c].listing
    BY <2>1 DEF Edited!Reading
  <2>3. CASE q = l
    <3>1. listing[l] \in Edited!Row /\ (l \notin byHand /\ reading[c].dated => listing[l].dated)
      BY <2>1, <2>2, <2>3
    <3>2. listing'[l] \in Edited!Row /\ (l \notin byHand' /\ reading[c].dated => listing'[l].dated)
      BY <1>2, <3>1
    <3>3. reading'[c].text \in {listing'[l].text, Edited!Stale}
      BY <1>2, <2>1, <2>2, <2>3
    <3> QED
      BY <2>1, <2>2, <2>3, <3>2, <3>3
  <2>4. CASE q # l
    BY <1>2, <2>1, <2>2, <2>4
  <2> QED
    BY <2>3, <2>4
<1> QED
  BY <1>1, <1>3, <1>4, <1>5 DEF RowPlaced

\* What the edits make of a row.
LEMMA SentRows ==
  ASSUME NEW q \in Edited!Row, RowPlaced(q), NEW r \in Edited!CitiesSent(q)
  PROVE  /\ r \in Edited!Row /\ RowPlaced(r)
         /\ r.author = q.author /\ r.text = q.text /\ r.status = q.status
         /\ r.moderation = q.moderation /\ r.archived = q.archived
         /\ r.dated = q.dated /\ r.reviewer = q.reviewer
<1>1. CASE r = q
  BY <1>1
<1>2. CASE r # q
  <2>1. PICK cs \in SUBSET Place : \E p \in Edited!PrimaryOf(cs) :
          r = [q EXCEPT !.cities = cs, !.primary = p]
    BY <1>2 DEF Edited!CitiesSent
  <2>2. PICK p \in Edited!PrimaryOf(cs) : r = [q EXCEPT !.cities = cs, !.primary = p]
    BY <2>1
  <2>3. p \in Place \cup {None}
    BY DEF Edited!PrimaryOf
  <2>4. /\ r \in Edited!Row /\ r.cities = cs /\ r.primary = p
        /\ r.author = q.author /\ r.text = q.text /\ r.status = q.status
        /\ r.moderation = q.moderation /\ r.archived = q.archived
        /\ r.dated = q.dated /\ r.reviewer = q.reviewer
    BY <2>2, <2>3 DEF Edited!Row
  <2> QED
    BY <2>4 DEF RowPlaced
<1> QED
  BY <1>1, <1>2

\* What a verdict makes of a row, given a date that was read and still holds.
LEMMA JudgedRows ==
  ASSUME NEW q \in Edited!Row, RowPlaced(q), NEW m \in Admin,
         NEW verdict \in Edited!Moderation, NEW status \in Edited!Published(verdict),
         NEW dated \in BOOLEAN, NEW t,
         verdict = "APPROVED" => t \in {q.text, Edited!Stale}
  PROVE  LET j == Edited!Judged(q, m, verdict, status, dated)
         IN  /\ j \in Edited!Row /\ RowPlaced(j)
             /\ j.text = q.text
             /\ q.dated => j.dated
             /\ (dated => q.dated) => RowStands(j, t)
<1> DEFINE a == CASE verdict = "APPROVED" -> FALSE
                  [] verdict = "ARCHIVED" -> TRUE
                  [] OTHER -> q.archived
           d == q.dated \/ (verdict = "APPROVED" /\ ~dated /\ status = "APPROVED")
           j == Edited!Judged(q, m, verdict, status, dated)
<1>1. /\ status \in Edited!Status
      /\ verdict = "ARCHIVED" => status = "DELETED"
  BY DEF Edited!Published, Edited!Moderation, Edited!Status
<1>2. /\ a \in BOOLEAN
      /\ verdict = "APPROVED" => ~a
      /\ verdict = "ARCHIVED" => a
  BY DEF Edited!Row
<1>3. /\ d \in BOOLEAN /\ (q.dated => d)
      /\ verdict = "APPROVED" /\ status = "APPROVED" /\ ~dated => d
  BY DEF Edited!Row
<1>4. j = [q EXCEPT !.moderation = verdict, !.reviewer = m, !.status = status,
                    !.archived = a, !.dated = d]
  BY DEF Edited!Judged
<1> HIDE DEF a, d, j
<1>5. /\ j \in Edited!Row /\ j.moderation = verdict /\ j.reviewer = m /\ j.status = status
      /\ j.archived = a /\ j.dated = d /\ j.text = q.text
      /\ j.cities = q.cities /\ j.primary = q.primary
  BY <1>1, <1>2, <1>3, <1>4 DEF Edited!Row
<1>6. m # None
  BY HostedAssumption DEF Edited!ListingsAssumption
<1>7. (dated => q.dated) => RowStands(j, t)
  BY <1>1, <1>2, <1>3, <1>5, <1>6 DEF RowStands
<1> QED
  BY <1>3, <1>5, <1>7 DEF RowPlaced, j

LEMMA JudgeKeeps ==
  ASSUME ListingInv, NEW c \in Call, NEW m \in Admin, NEW verdict \in Edited!Moderation,
         NEW status \in Edited!Published(verdict),
         Edited!FinishModeration(c, m, verdict, status)
  PROVE  ListingInv'
<1>1. reading[c] # Edited!Idle /\ reading[c] \in Edited!Reading
  BY DEF Edited!FinishModeration, ListingInv, Edited!TypeOK
<1>2. PICK l \in Listing : l = reading[c].listing
  BY <1>1 DEF Edited!Reading
<1>3. PICK d \in BOOLEAN : d = reading[c].dated
  BY <1>1 DEF Edited!Reading
<1>4. PICK q \in Edited!Row :
        /\ q = listing[l] /\ (l \notin byHand /\ d => q.dated)
        /\ reading[c].text \in {q.text, Edited!Stale}
  BY <1>1, <1>2, <1>3 DEF ListingInv
<1>5. PICK t : t = IF verdict = "APPROVED" THEN reading[c].text ELSE passed[l]
  OBVIOUS
<1>6. t \in Stood /\ (verdict = "APPROVED" => t \in {q.text, Edited!Stale})
  <2>1. reading[c].text \in Stood /\ passed[l] \in Stood
    BY <1>1 DEF ListingInv, Edited!TypeOK, Edited!Reading, Stood
  <2> QED
    BY <1>4, <1>5, <2>1
<1> DEFINE j == Edited!Judged(q, m, verdict, status, d)
<1>7. /\ j \in Edited!Row /\ RowPlaced(j) /\ j.text = q.text
      /\ q.dated => j.dated
      /\ (d => q.dated) => RowStands(j, t)
  <2>1. RowPlaced(q)
    <3>1. q # Edited!Absent
      BY DEF Edited!Row, Edited!Absent
    <3> QED
      BY <1>4, <3>1 DEF ListingInv, Edited!Exists
  <2> QED
    BY <1>6, <2>1, JudgedRows
<1>8. /\ Edited!Put(l, j)
      /\ passed' = [passed EXCEPT ![l] = t]
      /\ reading' = [reading EXCEPT ![c] = Edited!Idle]
      /\ UNCHANGED byHand
  BY <1>2, <1>3, <1>4, <1>5
     DEF Edited!FinishModeration, Edited!Stand, ListingInv, Edited!TypeOK
<1> HIDE DEF j
<1>9. /\ reading' \in [Call -> Edited!Reading \cup {Edited!Idle}]
      /\ \A k \in Call : reading'[k] \in {reading[k], Edited!Idle}
  BY <1>8 DEF ListingInv, Edited!TypeOK
<1>10. Marked(l, j)
  BY <1>4, <1>7, <1>9, TextStays
<1>11. byHand' = byHand \cup {} /\ {} \in SUBSET {l}
  BY <1>8
<1>12. l \notin byHand' => RowStands(j, t) /\ (listing[l] \in Edited!Row /\ listing[l].dated => j.dated)
  BY <1>4, <1>7, <1>8
<1> QED
  BY <1>6, <1>7, <1>8, <1>10, <1>11, <1>12, PutKeeps

LEMMA ListedRow ==
  ASSUME ListingInv, NEW l \in Listing, Edited!Exists(l)
  PROVE  /\ listing[l] \in Edited!Row /\ RowPlaced(listing[l])
         /\ l \notin byHand => RowStands(listing[l], passed[l])
BY DEF ListingInv, Edited!TypeOK, Edited!Exists

\* An edit that leaves the text and the verdicts under way alone.
LEMMA PutMarks ==
  ASSUME ListingInv, NEW l \in Listing, NEW r,
         listing[l] \in Edited!Row => r.text = listing[l].text, UNCHANGED reading
  PROVE  Marked(l, r)
<1>1. reading' \in [Call -> Edited!Reading \cup {Edited!Idle}]
  BY DEF ListingInv, Edited!TypeOK
<1>2. \A c \in Call : reading'[c] \in {reading[c], Edited!Idle}
  OBVIOUS
<1> QED
  BY <1>1, <1>2, TextStays

\* Resubmitting a row starts its review again.
LEMMA ResubmittedRows ==
  ASSUME NEW q \in Edited!Row, RowPlaced(q), NEW text \in Text, NEW t
  PROVE  LET r1 == [q EXCEPT !.text = text]
             r  == Edited!Resubmitted(r1)
         IN  /\ r \in Edited!Row /\ RowPlaced(r) /\ RowStands(r, t)
             /\ r.dated = q.dated /\ r.text = text
<1> DEFINE r1 == [q EXCEPT !.text = text]
           r  == Edited!Resubmitted(r1)
<1>1. /\ r1 \in Edited!Row /\ r1.cities = q.cities /\ r1.primary = q.primary
      /\ r1.dated = q.dated /\ r1.text = text
  BY DEF Edited!Row
<1>2. r = [r1 EXCEPT !.status = "PENDING", !.moderation = "PENDING", !.reviewer = None]
  BY DEF Edited!Resubmitted
<1> HIDE DEF r, r1
<1>3. /\ r \in Edited!Row /\ r.cities = q.cities /\ r.primary = q.primary
      /\ r.dated = q.dated /\ r.moderation = "PENDING" /\ r.text = text
  BY <1>1, <1>2 DEF Edited!Row, Edited!Status, Edited!Moderation
<1> QED
  BY <1>3 DEF RowPlaced, RowStands, r, r1

\* A new row is under review, whoever writes it.
LEMMA NewRows ==
  ASSUME NEW u \in Author \cup Admin \cup {None}, NEW text \in Text, NEW cities \in SUBSET Place,
         NEW primary \in Edited!PrimaryOf(cities), NEW dated \in BOOLEAN, NEW t
  PROVE  LET r == Edited!NewRow(u, text, cities, primary, dated)
         IN  /\ r \in Edited!Row /\ RowPlaced(r) /\ RowStands(r, t)
             /\ r.text = text /\ r.archived = FALSE /\ r.reviewer = None /\ r.author = u
             /\ r.cities = cities /\ r.primary = primary
<1>1. primary \in Place \cup {None}
  BY DEF Edited!PrimaryOf
<1> QED
  BY <1>1
     DEF Edited!NewRow, Edited!Row, RowPlaced, RowStands, Edited!Status, Edited!Moderation

LEMMA CreateKeeps ==
  ASSUME ListingInv, NEW u \in Author \cup Admin, NEW l \in Listing, Edited!CreateListing(u, l)
  PROVE  ListingInv'
<1>1. PICK text \in Text, cities \in SUBSET Place, dated \in BOOLEAN :
        \E primary \in Edited!PrimaryOf(cities) :
          Edited!Put(l, Edited!NewRow(u, text, cities, primary, dated /\ u \in Admin))
  BY DEF Edited!CreateListing
<1>2. PICK primary \in Edited!PrimaryOf(cities) :
        Edited!Put(l, Edited!NewRow(u, text, cities, primary, dated /\ u \in Admin))
  BY <1>1
<1>3. PICK d \in BOOLEAN : d = (dated /\ u \in Admin)
  OBVIOUS
<1>4. PICK t \in Stood : t = passed[l]
  BY DEF ListingInv, Edited!TypeOK, Stood
<1> DEFINE r == Edited!NewRow(u, text, cities, primary, d)
<1>5. r \in Edited!Row /\ RowPlaced(r) /\ RowStands(r, t)
  BY NewRows
<1>6. /\ Edited!Put(l, r) /\ UNCHANGED <<reading, passed, byHand>> /\ ~Edited!Exists(l)
  BY <1>2, <1>3 DEF Edited!CreateListing
<1> HIDE DEF r
<1>7. passed' = [passed EXCEPT ![l] = t] /\ byHand' = byHand \cup {}
  BY <1>4, <1>6 DEF ListingInv, Edited!TypeOK
<1>8. listing[l] \notin Edited!Row
  BY <1>6 DEF Edited!Exists, Edited!Row, Edited!Absent
<1>9. Marked(l, r)
  BY <1>6, <1>8, PutMarks
<1> QED
  BY <1>5, <1>6, <1>7, <1>8, <1>9, PutKeeps

LEMMA ResubmitKeeps ==
  ASSUME ListingInv, NEW l \in Listing, NEW q \in Edited!Row, RowPlaced(q),
         q.dated = listing[l].dated, NEW text \in Text,
         Edited!Put(l, Edited!Resubmitted([q EXCEPT !.text = text])),
         Marked(l, Edited!Resubmitted([q EXCEPT !.text = text])),
         UNCHANGED <<passed, byHand>>
  PROVE  ListingInv'
<1> DEFINE r == Edited!Resubmitted([q EXCEPT !.text = text])
<1>1. PICK t \in Stood : t = passed[l]
  BY DEF ListingInv, Edited!TypeOK, Stood
<1>2. r \in Edited!Row /\ RowPlaced(r) /\ RowStands(r, t) /\ r.dated = q.dated
  BY ResubmittedRows
<1>3. Edited!Put(l, r) /\ Marked(l, r)
  OBVIOUS
<1> HIDE DEF r
<1>4. passed' = [passed EXCEPT ![l] = t] /\ byHand' = byHand \cup {}
  BY <1>1 DEF ListingInv, Edited!TypeOK
<1> QED
  BY <1>2, <1>3, <1>4, PutKeeps

LEMMA AdminUpdateKeeps ==
  ASSUME ListingInv, NEW l \in Listing, Edited!Exists(l), Edited!AdminUpdate(l)
  PROVE  ListingInv'
<1> DEFINE q == listing[l]
<1>1. q \in Edited!Row /\ RowPlaced(q) /\ (l \notin byHand => RowStands(q, passed[l]))
  BY ListedRow
<1>2. CASE \E text \in Text, s \in Edited!CitiesSent(q) :
             /\ Edited!Rewrite(l, [s EXCEPT !.text = text])
             /\ Edited!Stand(l, text)
             /\ UNCHANGED byHand
  <2>1. PICK text \in Text, s \in Edited!CitiesSent(q) :
             /\ Edited!Rewrite(l, [s EXCEPT !.text = text])
             /\ Edited!Stand(l, text)
             /\ UNCHANGED byHand
    BY <1>2
  <2> DEFINE r == [s EXCEPT !.text = text]
  <2>2. /\ s \in Edited!Row /\ RowPlaced(s)
        /\ s.author = q.author /\ s.status = q.status /\ s.moderation = q.moderation
        /\ s.archived = q.archived /\ s.dated = q.dated /\ s.reviewer = q.reviewer
    BY <1>1, SentRows
  <2>3. /\ r \in Edited!Row /\ r.text = text /\ r.cities = s.cities /\ r.primary = s.primary
        /\ r.author = s.author /\ r.status = s.status /\ r.moderation = s.moderation
        /\ r.archived = s.archived /\ r.dated = s.dated /\ r.reviewer = s.reviewer
    BY <2>2 DEF Edited!Row
  <2>4. Edited!Put(l, r) /\ Marked(l, r)
    BY <2>1, RewriteMarks
  <2> HIDE DEF r
  <2>5. RowPlaced(r) /\ (l \notin byHand => RowStands(r, text))
    BY <1>1, <2>2, <2>3 DEF RowPlaced, RowStands
  <2>6. passed' = [passed EXCEPT ![l] = text] /\ byHand' = byHand \cup {} /\ text \in Stood
    BY <2>1 DEF Edited!Stand, Stood
  <2>7. UNCHANGED byHand
    BY <2>1
  <2>8. l \notin byHand' => RowStands(r, text) /\ (listing[l].dated => r.dated)
    BY <2>2, <2>3, <2>5, <2>7
  <2> QED
    BY <2>3, <2>4, <2>5, <2>6, <2>8, PutKeeps
<1>3. CASE \E r \in Edited!Overridden(q) :
             /\ Edited!Put(l, r)
             /\ byHand' = byHand \cup {l}
             /\ UNCHANGED <<reading, passed>>
  <2>1. PICK r \in Edited!Overridden(q) :
             /\ Edited!Put(l, r)
             /\ byHand' = byHand \cup {l}
             /\ UNCHANGED <<reading, passed>>
    BY <1>3
  <2>2. r \in Edited!Row /\ r.cities = q.cities /\ r.primary = q.primary /\ r.text = q.text
    <3>1. CASE \E s \in Edited!Status : r = [q EXCEPT !.status = s]
      BY <1>1, <3>1 DEF Edited!Row
    <3>2. CASE \E s \in Edited!Moderation : r = [q EXCEPT !.moderation = s]
      BY <1>1, <3>2 DEF Edited!Row
    <3>3. CASE \E b \in BOOLEAN : r = [q EXCEPT !.archived = b]
      BY <1>1, <3>3 DEF Edited!Row
    <3>4. CASE \E b \in BOOLEAN : r = [q EXCEPT !.dated = b]
      BY <1>1, <3>4 DEF Edited!Row
    <3> QED
      BY <2>1, <3>1, <3>2, <3>3, <3>4 DEF Edited!Overridden
  <2>3. PICK t \in Stood : t = passed[l]
    BY DEF ListingInv, Edited!TypeOK, Stood
  <2>4. passed' = [passed EXCEPT ![l] = t]
    BY <2>1, <2>3 DEF ListingInv, Edited!TypeOK
  <2>5. l \in byHand'
    BY <2>1
  <2>6. RowPlaced(r)
    BY <1>1, <2>2 DEF RowPlaced
  <2>7. Marked(l, r)
    BY <2>1, <2>2, PutMarks
  <2> QED
    BY <2>1, <2>2, <2>4, <2>5, <2>6, <2>7, PutKeeps
<1> QED
  BY <1>2, <1>3 DEF Edited!AdminUpdate

LEMMA UpdateKeeps ==
  ASSUME ListingInv, NEW u \in Author \cup Admin, NEW l \in Listing, Edited!UpdateListing(u, l)
  PROVE  ListingInv'
<1>1. Edited!Exists(l)
  BY DEF Edited!UpdateListing
<1>2. CASE u \in Admin
  BY <1>1, <1>2, AdminUpdateKeeps DEF Edited!UpdateListing
<1>3. CASE u \notin Admin
  <2>1. PICK text \in Text, r \in Edited!CitiesSent(listing[l]) :
          Edited!Rewrite(l, Edited!Resubmitted([r EXCEPT !.text = text]))
    BY <1>3 DEF Edited!UpdateListing, Edited!AuthorUpdate
  <2>2. UNCHANGED <<passed, byHand>>
    BY <1>3 DEF Edited!UpdateListing, Edited!AuthorUpdate
  <2>3. r \in Edited!Row /\ RowPlaced(r) /\ r.dated = listing[l].dated
    BY <1>1, ListedRow, SentRows
  <2>4. /\ Edited!Put(l, Edited!Resubmitted([r EXCEPT !.text = text]))
        /\ Marked(l, Edited!Resubmitted([r EXCEPT !.text = text]))
    BY <2>1, RewriteMarks
  <2> QED
    BY <2>2, <2>3, <2>4, ResubmitKeeps
<1> QED
  BY <1>2, <1>3

LEMMA SubmitKeeps ==
  ASSUME ListingInv, NEW u \in Author \cup Admin, NEW l \in Listing, Edited!SubmitListing(u, l)
  PROVE  ListingInv'
<1>1. Edited!Exists(l) /\ Edited!Put(l, Edited!Resubmitted(listing[l]))
      /\ UNCHANGED <<reading, passed, byHand>>
  BY DEF Edited!SubmitListing
<1>2. PICK q \in Edited!Row : q = listing[l] /\ RowPlaced(q)
  BY <1>1, ListedRow
<1>3. q.text \in Text /\ [q EXCEPT !.text = q.text] = q
  BY DEF Edited!Row
<1> DEFINE r == Edited!Resubmitted([q EXCEPT !.text = q.text])
<1>4. Edited!Put(l, r)
  BY <1>1, <1>2, <1>3
<1>5. r.text = listing[l].text
  BY <1>2, <1>3, ResubmittedRows
<1>6. Marked(l, r)
  <2> HIDE DEF r
  <2> QED
    BY <1>1, <1>5, PutMarks
<1> QED
  BY <1>1, <1>2, <1>3, <1>4, <1>6, ResubmitKeeps

LEMMA ImportKeeps ==
  ASSUME ListingInv, NEW l \in Listing, Edited!CreateImported(l)
  PROVE  ListingInv'
<1>1. PICK text \in Text :
        /\ IF Edited!Exists(l)
           THEN Edited!Rewrite(l, [listing[l] EXCEPT !.text = text])
           ELSE \E cities \in SUBSET Place : \E primary \in Edited!PrimaryOf(cities) :
                  Edited!Rewrite(l, [Edited!NewRow(None, text, cities, primary, FALSE) EXCEPT
                            !.status = "APPROVED", !.moderation = "APPROVED"])
        /\ Edited!Stand(l, text)
  BY DEF Edited!CreateImported
<1>2. /\ passed' = [passed EXCEPT ![l] = text]
      /\ UNCHANGED byHand /\ byHand' = byHand \cup {}
      /\ Edited!Exists(l) => listing[l].author = None
      /\ text \in Stood
  BY <1>1 DEF Edited!CreateImported, Edited!Stand, Stood
<1>3. CASE Edited!Exists(l)
  <2>1. PICK q \in Edited!Row : q = listing[l] /\ RowPlaced(q)
                             /\ (l \notin byHand => RowStands(q, passed[l]))
    BY <1>3, ListedRow
  <2> DEFINE r == [q EXCEPT !.text = text]
  <2>2. /\ r \in Edited!Row /\ r.text = text /\ r.cities = q.cities /\ r.primary = q.primary
        /\ r.author = q.author /\ r.status = q.status /\ r.moderation = q.moderation
        /\ r.archived = q.archived /\ r.dated = q.dated /\ r.reviewer = q.reviewer
    BY DEF Edited!Row
  <2>3. Edited!Put(l, r) /\ Marked(l, r)
    BY <1>1, <1>3, <2>1, RewriteMarks
  <2> HIDE DEF r
  <2>4. RowPlaced(r) /\ (l \notin byHand => RowStands(r, text))
    BY <2>1, <2>2 DEF RowPlaced, RowStands
  <2> QED
    BY <1>2, <2>1, <2>2, <2>3, <2>4, PutKeeps
<1>4. CASE ~Edited!Exists(l)
  <2>1. PICK cities \in SUBSET Place : \E primary \in Edited!PrimaryOf(cities) :
          Edited!Rewrite(l, [Edited!NewRow(None, text, cities, primary, FALSE) EXCEPT
                           !.status = "APPROVED", !.moderation = "APPROVED"])
    BY <1>1, <1>4
  <2>2. PICK primary \in Edited!PrimaryOf(cities) :
          Edited!Rewrite(l, [Edited!NewRow(None, text, cities, primary, FALSE) EXCEPT
                           !.status = "APPROVED", !.moderation = "APPROVED"])
    BY <2>1
  <2> DEFINE q == Edited!NewRow(None, text, cities, primary, FALSE)
             r == [q EXCEPT !.status = "APPROVED", !.moderation = "APPROVED"]
  <2>3. /\ q \in Edited!Row /\ RowPlaced(q) /\ q.text = text /\ q.archived = FALSE
        /\ q.reviewer = None /\ q.author = None
    <3>1. primary \in Place \cup {None}
      BY DEF Edited!PrimaryOf
    <3> QED
      BY <3>1 DEF Edited!NewRow, Edited!Row, RowPlaced, Edited!Status, Edited!Moderation
  <2>4. Edited!Put(l, r) /\ Marked(l, r)
    BY <2>2, RewriteMarks
  <2> HIDE DEF q
  <2>5. /\ r \in Edited!Row /\ r.cities = q.cities /\ r.primary = q.primary
        /\ r.text = text /\ r.archived = FALSE /\ r.reviewer = None /\ r.author = None
        /\ r.moderation = "APPROVED"
    BY <2>3 DEF Edited!Row, Edited!Status, Edited!Moderation
  <2> HIDE DEF r
  <2>6. RowPlaced(r) /\ RowStands(r, text)
    BY <2>3, <2>5 DEF RowPlaced, RowStands
  <2>7. listing[l] \notin Edited!Row
    BY <1>4 DEF Edited!Exists, Edited!Row, Edited!Absent
  <2> QED
    BY <1>2, <2>4, <2>5, <2>6, <2>7, PutKeeps
<1> QED
  BY <1>3, <1>4

\* A moderator is shown a listing, or the date of what was shown is read.
LEMMA ReadKeeps ==
  ASSUME ListingInv, NEW c \in Call, NEW l \in Listing, NEW b \in Edited!Reading,
         b.listing = l, listing[l] \in Edited!Row,
         b.text \in {listing[l].text, Edited!Stale}, b.dated => listing[l].dated,
         reading' = [reading EXCEPT ![c] = b], UNCHANGED <<listing, passed, byHand>>
  PROVE  ListingInv'
<1>1. Edited!TypeOK'
  BY DEF ListingInv, Edited!TypeOK
<1>2. ASSUME NEW k \in Call, reading'[k] # Edited!Idle
      PROVE  /\ listing'[reading'[k].listing] \in Edited!Row
             /\ reading'[k].text \in {listing'[reading'[k].listing].text, Edited!Stale}
             /\ reading'[k].listing \notin byHand' /\ reading'[k].dated =>
                  listing'[reading'[k].listing].dated
  <2>1. CASE k = c
    <3>1. reading'[k] = b
      BY <2>1 DEF ListingInv, Edited!TypeOK
    <3> QED
      BY <3>1
  <2>2. CASE k # c
    <3>1. reading'[k] = reading[k]
      BY <2>2 DEF ListingInv, Edited!TypeOK
    <3> QED
      BY <1>2, <3>1 DEF ListingInv
  <2> QED
    BY <2>1, <2>2
<1> QED
  BY <1>1, <1>2 DEF ListingInv, Edited!Exists, RowPlaced

LEMMA ShowKeeps ==
  ASSUME ListingInv, NEW c \in Call, NEW l \in Listing, Edited!ShowListing(c, l)
  PROVE  ListingInv'
<1> DEFINE b == [at |-> "shown", listing |-> l, text |-> listing[l].text, dated |-> FALSE]
<1>1. /\ Edited!Exists(l) /\ reading' = [reading EXCEPT ![c] = b]
      /\ UNCHANGED <<listing, passed, byHand>>
  BY DEF Edited!ShowListing
<1>2. listing[l] \in Edited!Row
  BY <1>1, ListedRow
<1>3. /\ b \in Edited!Reading /\ b.listing = l /\ b.text = listing[l].text
      /\ b.dated = FALSE
  BY <1>2 DEF Edited!Reading, Edited!Row
<1> HIDE DEF b
<1> QED
  BY <1>1, <1>2, <1>3, ReadKeeps

LEMMA BeginKeeps ==
  ASSUME ListingInv, NEW c \in Call, Edited!BeginModeration(c)
  PROVE  ListingInv'
<1>1. reading[c] # Edited!Idle /\ UNCHANGED <<listing, passed, byHand>>
  BY DEF Edited!BeginModeration
<1>2. PICK q \in Edited!Reading : q = reading[c]
  BY <1>1 DEF ListingInv, Edited!TypeOK
<1>3. PICK l \in Listing : l = q.listing
  BY DEF Edited!Reading
<1>4. listing[l] \in Edited!Row /\ q.text \in {listing[l].text, Edited!Stale}
  BY <1>1, <1>2, <1>3 DEF ListingInv
<1> DEFINE b == [q EXCEPT !.at = "read", !.dated = listing[l].dated]
<1>5. reading' = [reading EXCEPT ![c] = b]
  BY <1>2, <1>3 DEF Edited!BeginModeration, ListingInv, Edited!TypeOK
<1>6. /\ b \in Edited!Reading /\ b.listing = l /\ b.text = q.text
      /\ b.dated = listing[l].dated
  BY <1>3, <1>4 DEF Edited!Reading, Edited!Row
<1> HIDE DEF b
<1> QED
  BY <1>1, <1>4, <1>5, <1>6, ReadKeeps

LEMMA ListingInvStep ==
  ASSUME ListingInv, [Edited!Next]_(Edited!vars)
  PROVE  ListingInv'
<1>1. ASSUME NEW u \in Author \cup Admin, NEW l \in Listing,
             \/ Edited!CreateListing(u, l)
             \/ Edited!UpdateListing(u, l)
      PROVE  ListingInv'
  BY <1>1, CreateKeeps, UpdateKeeps
<1>2. ASSUME NEW c \in Call, NEW m \in Admin,
             \/ Edited!Moderate(c, m)
             \/ Edited!Approve(c, m)
             \/ Edited!RequestChanges(c, m)
             \/ Edited!Reject(c, m)
             \/ Edited!Archive(c, m)
      PROVE  ListingInv'
  <2>1. PICK verdict \in Edited!Moderation :
          \E status \in Edited!Published(verdict) : Edited!FinishModeration(c, m, verdict, status)
    BY <1>2
       DEF Edited!Moderate, Edited!Approve, Edited!RequestChanges, Edited!Reject,
           Edited!Archive, Edited!Moderation, Edited!Published
  <2> QED
    BY <2>1, JudgeKeeps
<1>3. CASE UNCHANGED Edited!vars
  BY <1>3 DEF Edited!vars, ListingInv, Edited!TypeOK, Edited!Exists, RowPlaced
<1>4. ASSUME NEW u \in Author \cup Admin, Edited!SubmitForReview(u)
      PROVE  ListingInv'
  BY <1>4, SubmitKeeps DEF Edited!SubmitForReview
<1>5. ASSUME NEW c \in Call, NEW l \in Listing, Edited!ShowListing(c, l)
      PROVE  ListingInv'
  BY <1>5, ShowKeeps
<1>6. ASSUME NEW c \in Call, Edited!BeginModeration(c)
      PROVE  ListingInv'
  BY <1>6, BeginKeeps
<1> QED
  BY <1>1, <1>2, <1>3, <1>4, <1>5, <1>6, ImportKeeps DEF Edited!Next

\* What is listed stands.
LEMMA ListingsReviewed == ListingInv => Edited!ReviewStands
<1> SUFFICES ASSUME ListingInv PROVE Edited!ReviewStands
  OBVIOUS
<1>1. \A l \in Edited!Reviewed : l \in Listing /\ Edited!Exists(l) /\ listing[l].moderation = "APPROVED"
  BY HostedAssumption
     DEF Edited!Reviewed, Edited!Listed, Edited!Matches, Edited!ListingsAssumption
<1>2. \A l \in Listing \ byHand : Edited!Exists(l) => RowStands(listing[l], passed[l])
  BY DEF ListingInv
<1>3. Edited!ApprovedAsReviewed /\ Edited!ApprovedIsDated
  BY <1>1, <1>2 DEF Edited!ApprovedAsReviewed, Edited!ApprovedIsDated, RowStands
<1>4. Edited!VerdictsAgree
  BY <1>2 DEF Edited!VerdictsAgree, RowStands
<1> QED
  BY <1>3, <1>4 DEF Edited!ReviewStands, ListingInv, RowPlaced

-----------------------------------------------------------------------------
(* EmailTheme *)

\* What is in force is of age 0,
ForceInv == \A v \in Themed!InForce : age[v] = 0

\* a theme in the cache was in force when it was asked for, at most Slow
\* ticks before it came in,
KeptTheme(c) ==
  cache[c] # None /\ cache[c].age <= TTL =>
    age[<<c, cache[c].theme>>] <= cache[c].age + Slow

\* and one that a mail was told was in force since the mail asked.
ToldTheme(k) ==
  mail[k].at = "told" =>
    /\ mail[k].theme \in Themed!Themes(mail[k].city)
    /\ age[<<mail[k].city, mail[k].theme>>] <= mail[k].waited

Entry == [theme : {v[2] : v \in Themed!Value}, age : 0 .. TTL + 1]

ThemeInv ==
  /\ Themed!TypeOK
  /\ metadata = [c \in City |-> metadata[c]] /\ cache \in [City -> Entry \cup {None}]
  /\ ForceInv
  /\ \A c \in City : KeptTheme(c)
  /\ \A k \in Call : ToldTheme(k)

LEMMA ThemeTimes == Themed!Bound \in Nat /\ TTL \in Nat /\ Slow \in Nat /\ Themed!Bound = TTL + Slow
BY HostedAssumption DEF Themed!EmailThemeAssumption, Themed!Bound

LEMMA ThemeValues ==
  ASSUME NEW c \in City
  PROVE  /\ \A t \in Themed!Themes(c) :
              <<c, t>> \in Themed!Value /\ t \in {v[2] : v \in Themed!Value}
         /\ Themed!Default \in Themed!Themes(c)
         /\ <<c, Themed!Default>> \in Themed!InForce
         /\ \A d \in Metadata[c] : Themed!ParseCityMetadata(d) \in Themed!Themes(c)
<1>1. ASSUME NEW t \in Themed!Themes(c)
      PROVE  <<c, t>> \in Themed!Value /\ t \in {v[2] : v \in Themed!Value}
  <2>1. <<c, t>> \in Themed!Value
    BY DEF Themed!Value
  <2>2. <<c, t>>[2] = t
    OBVIOUS
  <2> QED
    BY <2>1, <2>2
<1>2. /\ Themed!Default \in Themed!Themes(c)
      /\ <<c, Themed!Default>> \in Themed!InForce
      /\ \A d \in Metadata[c] : Themed!ParseCityMetadata(d) \in Themed!Themes(c)
  BY DEF Themed!Themes, Themed!InForce
<1> QED
  BY <1>1, <1>2

LEMMA ThemeAges ==
  ASSUME Themed!TypeOK, NEW c \in City, NEW t \in Themed!Themes(c)
  PROVE  <<c, t>> \in Themed!Value /\ age[<<c, t>>] \in Nat
<1>1. <<c, t>> \in Themed!Value
  BY ThemeValues
<1>2. PICK v \in Themed!Value : v = <<c, t>>
  BY <1>1
<1>3. age[v] \in 0 .. Themed!Bound + 1
  BY DEF Themed!TypeOK
<1> QED
  BY <1>1, <1>2, <1>3, ThemeTimes

\* What is in force can be answered.
LEMMA ForceValues ==
  ASSUME Themed!TypeOK PROVE Themed!InForce \subseteq Themed!Value
<1>1. \A c \in City : <<c, Themed!ParseCityMetadata(metadata[c])>> \in Themed!Value
                   /\ <<c, Themed!Default>> \in Themed!Value
  BY ThemeValues DEF Themed!TypeOK
<1> QED
  BY <1>1 DEF Themed!InForce

LEMMA ThemeInit == Themed!Init => ThemeInv
<1> SUFFICES ASSUME Themed!Init PROVE ThemeInv
  OBVIOUS
<1>1. age \in [Themed!Value -> 0 .. Themed!Bound + 1]
  BY ThemeTimes DEF Themed!Init
<1>2. Themed!TypeOK
  BY <1>1 DEF Themed!Init, Themed!TypeOK
<1>3. ForceInv
  BY <1>2, ForceValues DEF Themed!Init, ForceInv
<1>4. metadata = [c \in City |-> metadata[c]] /\ cache \in [City -> Entry \cup {None}]
  BY DEF Themed!Init
<1>5. \A k \in Call : ToldTheme(k)
  BY DEF Themed!Init, ToldTheme, Themed!Idle
<1> QED
  BY <1>2, <1>3, <1>4, <1>5 DEF Themed!Init, ThemeInv, KeptTheme

\* Where a mail is, its record has what it needs.
LEMMA MailAt ==
  ASSUME Themed!TypeOK, NEW k \in Call
  PROVE  /\ Themed!Waiting(k) => mail[k] \in Themed!Asking /\ mail[k].city \in City
         /\ Themed!At(k, "made") => mail[k] \in Themed!Made /\ mail[k].city \in City
BY DEF Themed!TypeOK, Themed!Waiting, Themed!At, Themed!Asking, Themed!Made, Themed!Idle

\* A step of one mail that is told nothing keeps the invariant, if what it
\* does to the cache does.
LEMMA MailKeeps ==
  ASSUME ThemeInv, NEW k \in Call, NEW m \in Themed!Asking \cup Themed!Made \cup {Themed!Idle},
         mail' = [mail EXCEPT ![k] = m], UNCHANGED <<metadata, age>>,
         m.at = "told" => /\ m.theme \in Themed!Themes(m.city)
                          /\ age[<<m.city, m.theme>>] <= m.waited,
         cache' \in [City -> Entry \cup {None}],
         \A c \in City :
           cache'[c] = None
             \/ /\ cache'[c].theme \in Themed!Themes(c) /\ cache'[c].age \in 0 .. TTL + 1
                /\ cache'[c].age <= TTL => age[<<c, cache'[c].theme>>] <= cache'[c].age + Slow
  PROVE  ThemeInv'
<1> USE DEF ThemeInv
<1>1. Themed!TypeOK'
  BY DEF Themed!TypeOK
<1>2. ForceInv'
  BY DEF ForceInv, Themed!InForce
<1>3. \A c \in City : KeptTheme(c)'
  BY DEF KeptTheme
<1>4. \A j \in Call : mail'[j] = IF j = k THEN m ELSE mail[j]
  BY DEF Themed!TypeOK
<1>5. \A j \in Call : ToldTheme(j)'
  BY <1>4 DEF ToldTheme
<1> QED
  BY <1>1, <1>2, <1>3, <1>5

\* What the cache holds may stay.
LEMMA CacheStays ==
  ASSUME ThemeInv, NEW c \in City
  PROVE  cache[c] = None
           \/ /\ cache[c].theme \in Themed!Themes(c) /\ cache[c].age \in 0 .. TTL + 1
              /\ cache[c].age <= TTL => age[<<c, cache[c].theme>>] <= cache[c].age + Slow
BY DEF ThemeInv, KeptTheme, Themed!TypeOK

LEMMA ThemeGetStep ==
  ASSUME ThemeInv, NEW k \in Call, NEW c \in City, Themed!GetCityTheme(k, c)
  PROVE  ThemeInv'
<1> USE DEF ThemeInv
<1>1. cache' = Themed!GetCachedTheme(c) /\ UNCHANGED <<metadata, age>>
  BY DEF Themed!GetCityTheme
<1>2. /\ cache' \in [City -> Entry \cup {None}]
      /\ \A d \in City : cache'[d] = None \/ cache'[d] = cache[d]
  BY <1>1 DEF Themed!GetCachedTheme
<1>3. \A d \in City :
        cache'[d] = None
          \/ /\ cache'[d].theme \in Themed!Themes(d) /\ cache'[d].age \in 0 .. TTL + 1
             /\ cache'[d].age <= TTL => age[<<d, cache'[d].theme>>] <= cache'[d].age + Slow
  BY <1>2, CacheStays
<1>4. CASE cache'[c] # None
  <2> DEFINE m == [at |-> "made", city |-> c, theme |-> cache'[c].theme]
  <2>1. mail' = [mail EXCEPT ![k] = m]
    BY <1>4 DEF Themed!GetCityTheme, Themed!Make
  <2>2. m \in Themed!Made /\ m.at = "made"
    BY <1>3, <1>4, ThemeValues DEF Themed!Made
  <2> HIDE DEF m
  <2> QED
    BY <1>1, <1>2, <1>3, <2>1, <2>2, MailKeeps
<1>5. CASE cache'[c] = None
  <2> DEFINE m == [at |-> "asked", city |-> c, waited |-> 0, theme |-> Themed!Default]
  <2>1. mail' = [mail EXCEPT ![k] = m]
    BY <1>5 DEF Themed!GetCityTheme
  <2>2. m \in Themed!Asking /\ m.at = "asked"
    <3>1. Themed!Default \in {v[2] : v \in Themed!Value}
      BY ThemeValues
    <3>2. 0 \in 0 .. Slow
      BY ThemeTimes
    <3> QED
      BY <3>1, <3>2 DEF Themed!Asking
  <2> HIDE DEF m
  <2> QED
    BY <1>1, <1>2, <1>3, <2>1, <2>2, MailKeeps
<1> QED
  BY <1>4, <1>5

LEMMA ThemeFindStep ==
  ASSUME ThemeInv, NEW k \in Call, Themed!FindCity(k)
  PROVE  ThemeInv'
<1> USE DEF ThemeInv
<1>1. mail[k] \in Themed!Asking /\ mail[k].city \in City /\ mail[k].at = "asked"
  BY MailAt DEF Themed!FindCity, Themed!Waiting, Themed!At
<1>2. PICK c \in City, w \in 0 .. Slow : c = mail[k].city /\ w = mail[k].waited
  BY <1>1 DEF Themed!Asking
<1> DEFINE t == Themed!ParseCityMetadata(metadata[c])
           m1 == [mail[k] EXCEPT !.at = "told"]
           m == [m1 EXCEPT !.theme = t]
<1>3. t \in Themed!Themes(c) /\ <<c, t>> \in Themed!InForce
  BY ThemeValues DEF Themed!InForce, Themed!TypeOK
<1>4. /\ mail' = [mail EXCEPT ![k] = m]
      /\ UNCHANGED <<metadata, cache, age>>
  BY <1>2 DEF Themed!FindCity
<1>5. t \in {v[2] : v \in Themed!Value} /\ age[<<c, t>>] = 0
  BY <1>3, ThemeValues DEF ForceInv
<1> HIDE DEF t
<1>6. m1 \in Themed!Asking /\ m1.at = "told" /\ m1.city = c /\ m1.waited = w
  BY <1>1, <1>2 DEF Themed!Asking
<1> HIDE DEF m1
<1>7. m \in Themed!Asking /\ m.at = "told" /\ m.city = c /\ m.waited = w /\ m.theme = t
  BY <1>5, <1>6 DEF Themed!Asking
<1> HIDE DEF m
<1>8. m.theme \in Themed!Themes(m.city) /\ age[<<m.city, m.theme>>] <= m.waited
  BY <1>2, <1>3, <1>5, <1>7, ThemeTimes
<1>9. cache' \in [City -> Entry \cup {None}]
  BY <1>4
<1>10. \A d \in City :
        cache'[d] = None
          \/ /\ cache'[d].theme \in Themed!Themes(d) /\ cache'[d].age \in 0 .. TTL + 1
             /\ cache'[d].age <= TTL => age[<<d, cache'[d].theme>>] <= cache'[d].age + Slow
  BY <1>4, CacheStays
<1> QED
  BY <1>4, <1>7, <1>8, <1>9, <1>10, MailKeeps

LEMMA ThemeCacheStep ==
  ASSUME ThemeInv, NEW k \in Call, Themed!CacheTheme(k)
  PROVE  ThemeInv'
<1> USE DEF ThemeInv
<1>1. mail[k] \in Themed!Asking /\ mail[k].city \in City /\ mail[k].at = "told"
  BY MailAt DEF Themed!CacheTheme, Themed!Waiting, Themed!At
<1>2. PICK c \in City, w \in 0 .. Slow : c = mail[k].city /\ w = mail[k].waited
  BY <1>1 DEF Themed!Asking
<1>3. PICK t \in Themed!Themes(c) : t = mail[k].theme /\ age[<<c, t>>] <= w
  BY <1>1, <1>2 DEF ToldTheme
<1> DEFINE e == [theme |-> t, age |-> 0]
           m == [at |-> "made", city |-> c, theme |-> t]
<1>4. /\ cache' = [cache EXCEPT ![c] = e]
      /\ mail' = [mail EXCEPT ![k] = m]
      /\ UNCHANGED <<metadata, age>>
  BY <1>2, <1>3 DEF Themed!CacheTheme, Themed!Make
<1>5. m \in Themed!Made /\ m.at = "made"
  BY ThemeValues DEF Themed!Made
<1>6. e.theme = t /\ e.age = 0 /\ e \in Entry
  <2>1. t \in {v[2] : v \in Themed!Value}
    BY ThemeValues
  <2>2. 0 \in 0 .. TTL + 1
    BY ThemeTimes
  <2> QED
    BY <2>1, <2>2 DEF Entry
<1> HIDE DEF e, m
<1>7. /\ cache' \in [City -> Entry \cup {None}] /\ cache'[c] = e
      /\ \A d \in City \ {c} : cache'[d] = cache[d]
  BY <1>4, <1>6
<1>8. age[<<c, t>>] <= 0 + Slow
  <2>1. age[<<c, t>>] \in Nat
    BY ThemeAges
  <2> QED
    BY <1>2, <1>3, <2>1, ThemeTimes
<1>9. ASSUME NEW d \in City
      PROVE  cache'[d] = None
               \/ /\ cache'[d].theme \in Themed!Themes(d) /\ cache'[d].age \in 0 .. TTL + 1
                  /\ cache'[d].age <= TTL => age[<<d, cache'[d].theme>>] <= cache'[d].age + Slow
  <2>1. CASE d = c
    BY <1>6, <1>7, <1>8, <2>1, ThemeTimes
  <2>2. CASE d # c
    BY <1>7, <2>2, CacheStays
  <2> QED
    BY <2>1, <2>2
<1> QED
  BY <1>4, <1>5, <1>7, <1>9, MailKeeps

LEMMA ThemeEndStep ==
  ASSUME ThemeInv, NEW k \in Call, Themed!FallBack(k) \/ Themed!SendVerification(k)
  PROVE  ThemeInv'
<1> USE DEF ThemeInv
<1>1. PICK m \in Themed!Made \cup {Themed!Idle} :
        mail' = [mail EXCEPT ![k] = m] /\ m.at # "told"
  <2>1. CASE Themed!FallBack(k)
    <3>1. mail[k].city \in City
      BY <2>1, MailAt DEF Themed!FallBack
    <3> DEFINE m == [at |-> "made", city |-> mail[k].city, theme |-> Themed!Default]
    <3>2. m \in Themed!Made /\ m.at # "told"
      BY <3>1, ThemeValues DEF Themed!Made
    <3>3. mail' = [mail EXCEPT ![k] = m]
      BY <2>1 DEF Themed!FallBack, Themed!Make
    <3> HIDE DEF m
    <3> QED
      BY <3>2, <3>3
  <2>2. CASE Themed!SendVerification(k)
    <3>1. mail' = [mail EXCEPT ![k] = Themed!Idle] /\ Themed!Idle.at # "told"
      BY <2>2 DEF Themed!SendVerification, Themed!Idle
    <3> QED
      BY <3>1
  <2> QED
    BY <2>1, <2>2
<1>2. UNCHANGED <<metadata, cache, age>>
  BY DEF Themed!FallBack, Themed!SendVerification
<1>3. cache' \in [City -> Entry \cup {None}]
  BY <1>2
<1>4. \A d \in City :
        cache'[d] = None
          \/ /\ cache'[d].theme \in Themed!Themes(d) /\ cache'[d].age \in 0 .. TTL + 1
             /\ cache'[d].age <= TTL => age[<<d, cache'[d].theme>>] <= cache'[d].age + Slow
  BY <1>2, CacheStays
<1> QED
  BY <1>1, <1>2, <1>3, <1>4, MailKeeps

LEMMA ThemeRestartStep == ThemeInv /\ Themed!Restart => ThemeInv'
<1> SUFFICES ASSUME ThemeInv, Themed!Restart PROVE ThemeInv'
  OBVIOUS
<1> USE DEF ThemeInv
<1>1. /\ \A c \in City : cache'[c] = None
      /\ cache' \in [City -> Entry \cup {None}]
      /\ mail' = [k \in Call |-> Themed!Idle] /\ UNCHANGED <<metadata, age>>
  BY DEF Themed!Restart
<1>2. Themed!TypeOK'
  BY <1>1 DEF Themed!TypeOK
<1>3. ForceInv' /\ \A c \in City : KeptTheme(c)'
  BY <1>1 DEF ForceInv, Themed!InForce, KeptTheme
<1>4. \A k \in Call : ToldTheme(k)'
  BY <1>1 DEF ToldTheme, Themed!Idle
<1> QED
  BY <1>1, <1>2, <1>3, <1>4

\* An update makes some ages 0 and no other one less.
LEMMA ThemeUpdateStep ==
  ASSUME ThemeInv, NEW c \in City, NEW d \in Metadata[c], Themed!UpdateCity(c, d)
  PROVE  ThemeInv'
<1> USE DEF ThemeInv
<1>1. /\ metadata' = [metadata EXCEPT ![c] = d] /\ UNCHANGED <<cache, mail>>
      /\ age' = [v \in Themed!Value |-> IF v \in Themed!InForce' THEN 0 ELSE age[v]]
  BY DEF Themed!UpdateCity
<1>2. \A b \in City : metadata'[b] = IF b = c THEN d ELSE metadata[b]
  BY <1>1
<1>3. \A b \in City : metadata'[b] \in Metadata[b]
  BY <1>2 DEF Themed!TypeOK
<1>4. metadata' = [b \in City |-> metadata'[b]]
  BY <1>1
<1>5. \A v \in Themed!Value : age[v] \in Nat /\ age'[v] \in Nat /\ age'[v] <= age[v]
                           /\ age'[v] \in 0 .. Themed!Bound + 1
  BY <1>1, ThemeTimes DEF Themed!TypeOK
<1>6. age' \in [Themed!Value -> 0 .. Themed!Bound + 1]
  BY <1>1, <1>5
<1>7. Themed!TypeOK'
  BY <1>1, <1>3, <1>6 DEF Themed!TypeOK
<1>8. ForceInv'
  <2>1. Themed!InForce' \subseteq Themed!Value
    <3>1. \A b \in City : <<b, Themed!ParseCityMetadata(metadata'[b])>> \in Themed!Value
                       /\ <<b, Themed!Default>> \in Themed!Value
      BY <1>3, ThemeValues
    <3> QED
      BY <3>1 DEF Themed!InForce
  <2> QED
    BY <1>1, <2>1 DEF ForceInv
<1>9. ASSUME NEW b \in City PROVE KeptTheme(b)'
  <2>1. CASE cache[b] # None /\ cache[b].age <= TTL
    <3>1. <<b, cache[b].theme>> \in Themed!Value /\ cache[b].age \in Nat
      <4>1. cache[b].theme \in Themed!Themes(b) /\ cache[b].age \in 0 .. TTL + 1
        BY <2>1 DEF Themed!TypeOK
      <4>2. <<b, cache[b].theme>> \in Themed!Value
        BY <4>1, ThemeValues
      <4>3. cache[b].age \in Nat
        BY <4>1, ThemeTimes
      <4> QED
        BY <4>2, <4>3
    <3>2. age[<<b, cache[b].theme>>] <= cache[b].age + Slow
      BY <2>1 DEF KeptTheme
    <3>3. age'[<<b, cache[b].theme>>] <= cache[b].age + Slow
      BY <1>5, <3>1, <3>2, ThemeTimes
    <3> QED
      BY <1>1, <3>3 DEF KeptTheme
  <2>2. CASE ~(cache[b] # None /\ cache[b].age <= TTL)
    BY <1>1, <2>2 DEF KeptTheme
  <2> QED
    BY <2>1, <2>2
<1>10. ASSUME NEW k \in Call PROVE ToldTheme(k)'
  <2>1. CASE mail[k].at = "told"
    <3>1. PICK b \in City, w \in 0 .. Slow : b = mail[k].city /\ w = mail[k].waited
      BY <2>1, MailAt DEF Themed!Waiting, Themed!At, Themed!Asking
    <3>2. PICK t \in Themed!Themes(b) : t = mail[k].theme /\ age[<<b, t>>] <= w
      BY <2>1, <3>1 DEF ToldTheme
    <3>3. <<b, t>> \in Themed!Value
      BY ThemeValues
    <3>4. age'[<<b, t>>] <= w
      BY <1>5, <3>1, <3>2, <3>3, ThemeTimes
    <3> QED
      BY <1>1, <3>1, <3>2, <3>4 DEF ToldTheme
  <2>2. CASE mail[k].at # "told"
    BY <1>1, <2>2 DEF ToldTheme
  <2> QED
    BY <2>1, <2>2
<1> QED
  BY <1>1, <1>4, <1>7, <1>8, <1>9, <1>10

\* Everything gets older by one tick, and what is in force does not.
LEMMA ThemeTickStep == ThemeInv /\ Themed!Tick => ThemeInv'
<1> SUFFICES ASSUME ThemeInv, Themed!Tick PROVE ThemeInv'
  OBVIOUS
<1>1. UNCHANGED metadata
  BY DEF Themed!Tick
<1>2. Themed!InForce' = Themed!InForce
  BY <1>1 DEF Themed!InForce
<1>3. ASSUME NEW v \in Themed!Value
      PROVE  /\ age[v] \in Nat /\ age'[v] \in 0 .. Themed!Bound + 1 /\ age'[v] <= age[v] + 1
             /\ v \in Themed!InForce => age'[v] = age[v]
  <2>1. age[v] \in 0 .. Themed!Bound + 1
    BY DEF ThemeInv, Themed!TypeOK
  <2>2. age'[v] = IF v \in Themed!InForce \/ age[v] = Themed!Bound + 1 THEN age[v] ELSE age[v] + 1
    BY DEF Themed!Tick
  <2> QED
    BY <2>1, <2>2, ThemeTimes
<1>4. age' \in [Themed!Value -> 0 .. Themed!Bound + 1]
  BY <1>3 DEF Themed!Tick
<1>5. ASSUME NEW c \in City
      PROVE  \/ cache[c] = None /\ cache'[c] = None
             \/ /\ cache[c].theme \in Themed!Themes(c) /\ cache[c].age \in 0 .. TTL + 1
                /\ cache[c].age > TTL /\ cache'[c] = cache[c]
             \/ /\ cache'[c].theme = cache[c].theme /\ cache'[c].theme \in Themed!Themes(c)
                /\ cache'[c].age = cache[c].age + 1 /\ cache[c].age \in 0 .. TTL
                /\ cache[c] # None
  <2>1. cache'[c] = IF cache[c] = None \/ cache[c].age > TTL
                    THEN cache[c] ELSE [cache[c] EXCEPT !.age = @ + 1]
    BY DEF Themed!Tick
  <2>2. CASE cache[c] = None
    BY <2>1, <2>2
  <2>3. CASE cache[c] # None
    <3>1. cache[c].theme \in Themed!Themes(c) /\ cache[c].age \in 0 .. TTL + 1 /\ cache[c] \in Entry
      BY <2>3 DEF ThemeInv, Themed!TypeOK
    <3>2. CASE cache[c].age > TTL
      BY <2>1, <3>1, <3>2
    <3>3. CASE ~(cache[c].age > TTL)
      <4>1. cache[c].age \in 0 .. TTL
        BY <3>1, <3>3, ThemeTimes
      <4>2. cache'[c] = [cache[c] EXCEPT !.age = cache[c].age + 1]
        BY <2>1, <2>3, <3>3
      <4>3. cache'[c].theme = cache[c].theme /\ cache'[c].age = cache[c].age + 1
        BY <3>1, <4>2 DEF Entry
      <4> QED
        BY <2>3, <3>1, <4>1, <4>3
    <3> QED
      BY <3>2, <3>3
  <2> QED
    BY <2>2, <2>3
<1>6. cache' \in [City -> Entry \cup {None}]
  <2>1. ASSUME NEW c \in City, cache[c] # None, ~(cache[c].age > TTL)
        PROVE  [cache[c] EXCEPT !.age = @ + 1] \in Entry
    <3>1. cache[c] \in Entry
      BY <2>1 DEF ThemeInv
    <3>2. cache[c].age + 1 \in 0 .. TTL + 1
      <4>1. cache[c].age \in 0 .. TTL + 1
        BY <3>1 DEF Entry
      <4> QED
        BY <2>1, <4>1, ThemeTimes
    <3> QED
      BY <3>1, <3>2 DEF Entry
  <2>2. cache \in [City -> Entry \cup {None}]
    BY DEF ThemeInv
  <2> QED
    BY <2>1, <2>2 DEF Themed!Tick
<1>7. ASSUME NEW k \in Call
      PROVE  IF Themed!Waiting(k)
             THEN /\ mail'[k] \in Themed!Asking /\ mail'[k].at = mail[k].at
                  /\ mail'[k].waited = mail[k].waited + 1 /\ mail[k].waited \in Nat
                  /\ mail'[k].city = mail[k].city /\ mail[k].city \in City
                  /\ mail'[k].theme = mail[k].theme
             ELSE mail'[k] = mail[k]
  <2>1. CASE Themed!Waiting(k)
    <3>1. mail[k] \in Themed!Asking /\ mail[k].city \in City
      BY <2>1, MailAt DEF ThemeInv
    <3>2. mail'[k] = [mail[k] EXCEPT !.waited = mail[k].waited + 1] /\ mail[k].waited < Slow
      BY <2>1 DEF Themed!Tick
    <3>3. mail[k].waited \in Nat /\ mail[k].waited + 1 \in 0 .. Slow
      <4>1. mail[k].waited \in 0 .. Slow
        BY <3>1 DEF Themed!Asking
      <4> QED
        BY <3>2, <4>1, ThemeTimes
    <3> QED
      BY <2>1, <3>1, <3>2, <3>3 DEF Themed!Asking
  <2>2. CASE ~Themed!Waiting(k)
    BY <2>2 DEF Themed!Tick
  <2> QED
    BY <2>1, <2>2
<1>8. mail' \in [Call -> Themed!Asking \cup Themed!Made \cup {Themed!Idle}]
  <2>1. \A k \in Call : mail'[k] \in Themed!Asking \cup Themed!Made \cup {Themed!Idle}
    BY <1>7 DEF ThemeInv, Themed!TypeOK
  <2> QED
    BY <2>1 DEF Themed!Tick
<1>9. Themed!TypeOK'
  <2>1. ASSUME NEW c \in City
        PROVE  cache'[c] = None \/ (cache'[c].theme \in Themed!Themes(c) /\ cache'[c].age \in 0 .. TTL + 1)
    BY <1>5, ThemeTimes
  <2> QED
    BY <1>1, <1>4, <1>8, <2>1 DEF ThemeInv, Themed!TypeOK
<1>10. ForceInv'
  <2>1. Themed!InForce \subseteq Themed!Value /\ \A v \in Themed!InForce : age[v] = 0
    BY ForceValues DEF ThemeInv, ForceInv
  <2> QED
    BY <1>2, <1>3, <2>1 DEF ForceInv
<1>11. ASSUME NEW c \in City PROVE KeptTheme(c)'
  <2>1. CASE cache[c] = None /\ cache'[c] = None
    BY <2>1 DEF KeptTheme
  <2>2. CASE /\ cache[c].theme \in Themed!Themes(c) /\ cache[c].age \in 0 .. TTL + 1
             /\ cache[c].age > TTL /\ cache'[c] = cache[c]
    BY <2>2, ThemeTimes DEF KeptTheme
  <2>3. CASE /\ cache'[c].theme = cache[c].theme /\ cache'[c].theme \in Themed!Themes(c)
             /\ cache'[c].age = cache[c].age + 1 /\ cache[c].age \in 0 .. TTL
             /\ cache[c] # None
    <3>1. PICK v \in Themed!Value : v = <<c, cache[c].theme>>
      BY <2>3, ThemeValues
    <3>2. age[v] <= cache[c].age + Slow
      BY <2>3, <3>1, ThemeTimes DEF ThemeInv, KeptTheme
    <3>3. age[v] \in Nat /\ age'[v] \in Nat /\ age'[v] <= age[v] + 1
      BY <1>3, ThemeTimes
    <3>4. age'[v] <= cache[c].age + 1 + Slow
      BY <2>3, <3>2, <3>3, ThemeTimes
    <3> QED
      BY <2>3, <3>1, <3>4 DEF KeptTheme
  <2> QED
    BY <1>5, <2>1, <2>2, <2>3
<1>12. ASSUME NEW k \in Call PROVE ToldTheme(k)'
  <2>1. CASE mail[k].at = "told"
    <3>1. Themed!Waiting(k)
      BY <2>1 DEF Themed!Waiting, Themed!At
    <3>2. PICK c \in City : c = mail[k].city
      BY <1>7, <3>1
    <3>3. PICK w \in Nat : w = mail[k].waited
      BY <1>7, <3>1
    <3>4. PICK t \in Themed!Themes(c) : t = mail[k].theme /\ age[<<c, t>>] <= w
      BY <2>1, <3>2, <3>3 DEF ThemeInv, ToldTheme
    <3>5. PICK v \in Themed!Value : v = <<c, t>>
      BY ThemeValues
    <3>6. age'[v] <= w + 1
      BY <1>3, <3>4, <3>5, ThemeTimes
    <3>7. mail'[k].city = c /\ mail'[k].theme = t /\ mail'[k].waited = w + 1
      BY <1>7, <3>1, <3>2, <3>3, <3>4
    <3> QED
      BY <3>4, <3>5, <3>6, <3>7 DEF ToldTheme
  <2>2. CASE mail[k].at # "told"
    <3>1. mail'[k].at # "told"
      BY <1>7, <2>2
    <3> QED
      BY <3>1 DEF ToldTheme
  <2> QED
    BY <2>1, <2>2
<1> QED
  BY <1>1, <1>6, <1>9, <1>10, <1>11, <1>12 DEF ThemeInv

LEMMA ThemeStep == ThemeInv /\ [Themed!Next]_(Themed!themeVars) => ThemeInv'
<1>1. ThemeInv /\ UNCHANGED Themed!themeVars => ThemeInv'
  BY DEF Themed!themeVars, ThemeInv, Themed!TypeOK, ForceInv, Themed!InForce, KeptTheme,
         ToldTheme
<1> QED
  BY <1>1, ThemeGetStep, ThemeFindStep, ThemeCacheStep, ThemeEndStep, ThemeRestartStep,
     ThemeUpdateStep, ThemeTickStep
  DEF Themed!Next

\* A step makes a mail in a theme in force within the bound ...
Makes(k) ==
  /\ mail[k].at # "made" /\ mail'[k].at = "made" /\ mail'[k].city \in City
  /\ mail'[k].theme \in Themed!Themes(mail'[k].city)
  /\ age[<<mail'[k].city, mail'[k].theme>>] <= Themed!Bound
  /\ \A j \in Call \ {k} : mail'[j] = mail[j]

\* ... or makes none.
MakesNone == \A k \in Call : mail'[k].at = "made" => mail'[k] = mail[k]

LEMMA MakeStep ==
  ASSUME Themed!TypeOK, NEW k \in Call, mail[k].at # "made", NEW c \in City,
         NEW t \in Themed!Themes(c), age[<<c, t>>] <= Themed!Bound, Themed!Make(k, c, t)
  PROVE  Makes(k)
<1> DEFINE m == [at |-> "made", city |-> c, theme |-> t]
<1>1. m.at = "made" /\ m.city = c /\ m.theme = t
  OBVIOUS
<1>2. mail' = [mail EXCEPT ![k] = m]
  BY DEF Themed!Make
<1> HIDE DEF m
<1> QED
  BY <1>1, <1>2 DEF Makes, Themed!TypeOK

LEMMA ThemeSteps ==
  ASSUME ThemeInv, [Themed!Next]_(Themed!themeVars)
  PROVE  \/ UNCHANGED <<metadata, age>> /\ (MakesNone \/ \E k \in Call : Makes(k))
         \/ /\ UNCHANGED mail
            /\ age' = [v \in Themed!Value |-> IF v \in Themed!InForce' THEN 0 ELSE age[v]]
         \/ Themed!Tick
<1> USE DEF ThemeInv
<1>1. CASE UNCHANGED Themed!themeVars
  BY <1>1 DEF Themed!themeVars, MakesNone
<1>2. ASSUME NEW k \in Call, NEW m, m.at # "made", mail' = [mail EXCEPT ![k] = m]
      PROVE  MakesNone
  BY <1>2 DEF MakesNone, Themed!TypeOK
<1>3. ASSUME NEW k \in Call, NEW c \in City, Themed!GetCityTheme(k, c)
      PROVE  UNCHANGED <<metadata, age>> /\ (MakesNone \/ Makes(k))
  <2>1. cache' = Themed!GetCachedTheme(c) /\ UNCHANGED <<metadata, age>> /\ mail[k].at = "idle"
    BY <1>3 DEF Themed!GetCityTheme, Themed!At
  <2>2. CASE cache'[c] # None
    <3>1. cache'[c] = cache[c] /\ ~(cache[c].age > TTL) /\ cache[c] # None
      BY <2>1, <2>2 DEF Themed!GetCachedTheme
    <3>2. PICK t \in Themed!Themes(c), a \in 0 .. TTL + 1 : t = cache[c].theme /\ a = cache[c].age
      BY <3>1 DEF Themed!TypeOK
    <3>3. a <= TTL
      BY <3>1, <3>2, ThemeTimes
    <3>4. age[<<c, t>>] <= a + Slow /\ age[<<c, t>>] \in Nat
      BY <3>1, <3>2, <3>3, ThemeAges DEF KeptTheme
    <3>5. age[<<c, t>>] <= Themed!Bound
      BY <3>2, <3>3, <3>4, ThemeTimes
    <3>6. Themed!Make(k, c, t)
      BY <1>3, <2>2, <3>1, <3>2 DEF Themed!GetCityTheme
    <3> QED
      BY <2>1, <3>5, <3>6, MakeStep
  <2>3. CASE cache'[c] = None
    <3> DEFINE m == [at |-> "asked", city |-> c, waited |-> 0, theme |-> Themed!Default]
    <3>1. m.at # "made" /\ mail' = [mail EXCEPT ![k] = m]
      BY <1>3, <2>3 DEF Themed!GetCityTheme
    <3> HIDE DEF m
    <3> QED
      BY <1>2, <2>1, <3>1
  <2> QED
    BY <2>2, <2>3
<1>4. ASSUME NEW k \in Call, Themed!FindCity(k)
      PROVE  UNCHANGED <<metadata, age>> /\ MakesNone
  <2> DEFINE t == Themed!ParseCityMetadata(metadata[mail[k].city])
             m == [mail[k] EXCEPT !.at = "told", !.theme = t]
  <2>1. mail[k] \in Themed!Asking /\ mail' = [mail EXCEPT ![k] = m] /\ UNCHANGED <<metadata, age>>
    BY <1>4, MailAt DEF Themed!FindCity, Themed!Waiting, Themed!At
  <2>2. m.at # "made"
    BY <2>1 DEF Themed!Asking
  <2> HIDE DEF m
  <2> QED
    BY <1>2, <2>1, <2>2
<1>5. ASSUME NEW k \in Call, Themed!CacheTheme(k)
      PROVE  UNCHANGED <<metadata, age>> /\ Makes(k)
  <2>1. mail[k] \in Themed!Asking /\ mail[k].at = "told" /\ UNCHANGED <<metadata, age>>
    BY <1>5, MailAt DEF Themed!CacheTheme, Themed!Waiting, Themed!At
  <2>2. PICK c \in City, w \in 0 .. Slow : c = mail[k].city /\ w = mail[k].waited
    BY <2>1 DEF Themed!Asking
  <2>3. PICK t \in Themed!Themes(c) : t = mail[k].theme /\ age[<<c, t>>] <= w
    BY <2>1, <2>2 DEF ToldTheme
  <2>4. age[<<c, t>>] \in Nat
    BY ThemeAges
  <2>5. age[<<c, t>>] <= Themed!Bound
    BY <2>2, <2>3, <2>4, ThemeTimes
  <2>6. Themed!Make(k, c, t)
    BY <1>5, <2>2, <2>3 DEF Themed!CacheTheme
  <2> QED
    BY <2>1, <2>5, <2>6, MakeStep
<1>6. ASSUME NEW k \in Call, Themed!FallBack(k)
      PROVE  UNCHANGED <<metadata, age>> /\ Makes(k)
  <2>1. PICK c \in City : c = mail[k].city
    BY <1>6, MailAt DEF Themed!FallBack
  <2>2. mail[k].at # "made" /\ UNCHANGED <<metadata, age>> /\ Themed!Make(k, c, Themed!Default)
    BY <1>6, <2>1 DEF Themed!FallBack, Themed!Waiting, Themed!At
  <2>3. Themed!Default \in Themed!Themes(c) /\ age[<<c, Themed!Default>>] = 0
    BY ThemeValues DEF ForceInv
  <2>4. age[<<c, Themed!Default>>] <= Themed!Bound
    BY <2>3, ThemeTimes
  <2> QED
    BY <2>2, <2>3, <2>4, MakeStep
<1>7. ASSUME NEW k \in Call, Themed!SendVerification(k)
      PROVE  UNCHANGED <<metadata, age>> /\ MakesNone
  <2>1. mail' = [mail EXCEPT ![k] = Themed!Idle] /\ Themed!Idle.at # "made" /\ UNCHANGED <<metadata, age>>
    BY <1>7 DEF Themed!SendVerification, Themed!Idle
  <2> QED
    BY <1>2, <2>1
<1>8. CASE Themed!Restart
  BY <1>8 DEF Themed!Restart, MakesNone, Themed!Idle
<1>9. ASSUME NEW c \in City, NEW d \in Metadata[c], Themed!UpdateCity(c, d)
      PROVE  /\ UNCHANGED mail
             /\ age' = [v \in Themed!Value |-> IF v \in Themed!InForce' THEN 0 ELSE age[v]]
  BY <1>9 DEF Themed!UpdateCity
<1> QED
  BY <1>1, <1>3, <1>4, <1>5, <1>6, <1>7, <1>8, <1>9 DEF Themed!Next

LEMMA ThemeReadInit == Themed!Init => Themed!ByTheme!Init
<1> SUFFICES ASSUME Themed!Init PROVE Themed!ByTheme!Init
  OBVIOUS
<1>1. Themed!InForce \subseteq Themed!Value
  BY ThemeInit, ForceValues DEF ThemeInv
<1>2. \A k \in Call : ~Themed!At(k, "made")
  BY DEF Themed!Init, Themed!At, Themed!Idle
<1> QED
  BY <1>1, <1>2 DEF Themed!Init, Themed!ByTheme!Init, Themed!ByTheme!Never, Themed!Bound

LEMMA ThemeReadStep ==
  ASSUME ThemeInv, [Themed!Next]_(Themed!themeVars)
  PROVE  Themed!ByTheme!Next
<1> DEFINE answers ==
      [k \in Call |-> IF Themed!At(k, "made") THEN <<mail[k].city, mail[k].theme>> ELSE None]
<1>1. CASE UNCHANGED <<metadata, age>> /\ MakesNone
  <2>1. PICK over \in SUBSET Call : over = {k \in Call : mail'[k].at # "made"}
    OBVIOUS
  <2>2. answers' = [k \in Call |-> IF k \in over THEN None ELSE answers[k]]
    BY <1>1, <2>1 DEF MakesNone, Themed!At
  <2>3. Themed!InForce' = Themed!InForce
    BY <1>1 DEF Themed!InForce
  <2>4. Themed!ByTheme!Forget(over)
    BY <1>1, <2>2, <2>3 DEF Themed!ByTheme!Forget
  <2> QED
    BY <2>4 DEF Themed!ByTheme!Next
<1>2. ASSUME UNCHANGED <<metadata, age>>, NEW k \in Call, Makes(k) PROVE Themed!ByTheme!Next
  <2>1. PICK c \in City : c = mail'[k].city
    BY <1>2 DEF Makes
  <2>2. PICK t \in Themed!Themes(c) : t = mail'[k].theme /\ age[<<c, t>>] <= Themed!Bound
    BY <1>2, <2>1 DEF Makes
  <2>3. PICK v \in Themed!Value : v = <<c, t>>
    BY ThemeValues
  <2>4. answers[k] = None /\ answers' = [answers EXCEPT ![k] = v]
    BY <1>2, <2>1, <2>2, <2>3 DEF Makes, Themed!At
  <2>5. Themed!InForce' = Themed!InForce
    BY <1>2 DEF Themed!InForce
  <2>6. age[v] <= TTL + Slow
    BY <2>2, <2>3 DEF Themed!Bound
  <2>7. Themed!ByTheme!Answer(k)
    BY <1>2, <2>4, <2>5, <2>6 DEF Themed!ByTheme!Answer
  <2> QED
    BY <2>7 DEF Themed!ByTheme!Next
<1>3. CASE /\ UNCHANGED mail
           /\ age' = [v \in Themed!Value |-> IF v \in Themed!InForce' THEN 0 ELSE age[v]]
  <2>1. answers' = answers
    BY <1>3 DEF Themed!At
  <2>2. Themed!ByTheme!Change
    BY <1>3, <2>1 DEF Themed!ByTheme!Change
  <2> QED
    BY <2>2 DEF Themed!ByTheme!Next
<1>4. CASE Themed!Tick
  <2>1. ASSUME NEW k \in Call
        PROVE  mail'[k].at # "made" /\ mail[k].at # "made"
    <3>1. CASE Themed!Waiting(k)
      <4>1. mail[k] \in Themed!Asking /\ mail'[k] = [mail[k] EXCEPT !.waited = mail[k].waited + 1]
        BY <1>4, <3>1, MailAt DEF ThemeInv, Themed!Tick
      <4> QED
        BY <4>1 DEF Themed!Asking
    <3>2. CASE ~Themed!Waiting(k)
      BY <1>4, <3>2 DEF Themed!Tick, Themed!At
    <3> QED
      BY <3>1, <3>2
  <2>2. answers' = answers
    BY <2>1 DEF Themed!At
  <2>3. Themed!InForce' = Themed!InForce
    BY <1>4 DEF Themed!Tick, Themed!InForce
  <2>4. Themed!ByTheme!Tick
    BY <1>4, <2>2, <2>3
       DEF Themed!Tick, Themed!ByTheme!Tick, Themed!ByTheme!Never, Themed!Bound
  <2> QED
    BY <2>4 DEF Themed!ByTheme!Next
<1> QED
  BY <1>1, <1>2, <1>3, <1>4, ThemeSteps

\* Every mail goes out in a theme that was in force for its city within the
\* hour and the five seconds before: the cache implements StaleRead, step by
\* step, for any cities, themes, mails and times.
THEOREM ThemesRecent == Themed!Spec => Themed!ThemesAreRecent
<1>1. ThemeInv /\ [Themed!Next]_(Themed!themeVars) => ThemeInv' /\ Themed!ByTheme!Next
  BY ThemeStep, ThemeReadStep
<1> QED
  BY <1>1, ThemeInit, ThemeReadInit, PTL
  DEF Themed!Spec, Themed!ThemesAreRecent, Themed!ByTheme!Spec

-----------------------------------------------------------------------------
(* CategoryTree *)

\* The categories of listings exist, and what is filed under one that is
\* about to be deleted was filed after its deletion had counted.
TreeInv ==
  /\ Tree!TypeOK
  /\ \A p \in filed : Tree!Exists(p[2])
  /\ \A k \in Call, p \in filed :
       writer[k].op = "delete" /\ p[2] = writer[k].id => p \in late

LEMMA TreeInit == Tree!Init => TreeInv
BY DEF Tree!Init, TreeInv, Tree!TypeOK, Tree!Job, Tree!Idle

LEMMA TreeJobs ==
  ASSUME Tree!TypeOK, NEW k \in Call
  PROVE  /\ writer[k].op \in {"create", "update"} =>
              /\ writer[k] \in [op : {"create", "update"}, id : Category, slug : Tree!Slug, found : BOOLEAN]
              /\ writer[k].id \in Category /\ writer[k].slug \in Tree!Slug
         /\ writer[k].op = "delete" => writer[k].id \in Category
BY DEF Tree!TypeOK, Tree!Job, Tree!Idle

\* A step of one request that files nothing.
LEMMA TreeGoKeeps ==
  ASSUME TreeInv, NEW k \in Call, NEW j \in Tree!Job, Tree!Go(k, j),
         j.op = "delete" => Tree!Uses(j.id) = {},
         category' \in [Category -> Tree!Row \cup {Tree!Absent}],
         \A c \in Category : Tree!Exists(c) => Tree!Exists(c)',
         UNCHANGED <<filed, late>>
  PROVE  TreeInv'
<1> USE DEF TreeInv
<1>1. /\ writer'[k] = j
      /\ \A i \in Call \ {k} : writer'[i] = writer[i]
  BY DEF Tree!Go, Tree!TypeOK
<1>2. Tree!TypeOK'
  BY DEF Tree!TypeOK, Tree!Go
<1>3. \A p \in filed' : Tree!Exists(p[2])'
  BY DEF Tree!TypeOK
<1>4. ASSUME NEW i \in Call, writer'[i].op = "delete"
      PROVE  \A p \in filed' : p[2] = writer'[i].id => p \in late'
  <2>1. CASE i = k
    BY <1>1, <1>4, <2>1 DEF Tree!Uses
  <2>2. CASE i # k
    BY <1>1, <1>4, <2>2
  <2> QED
    BY <2>1, <2>2
<1> QED
  BY <1>2, <1>3, <1>4

LEMMA RowsExist == Tree!Absent \notin Tree!Row
<1>1. ASSUME NEW r \in Tree!Row PROVE r # Tree!Absent
  <2>1. "parent" \in DOMAIN r /\ "parent" \notin DOMAIN Tree!Absent
    BY DEF Tree!Row, Tree!Absent
  <2> QED
    BY <2>1
<1> QED
  BY <1>1

LEMMA TreeStep ==
  ASSUME TreeInv, [Tree!Next]_(Tree!treeVars)
  PROVE  TreeInv'
<1> USE DEF TreeInv
<1>1. ASSUME NEW k \in Call, Tree!CreateCategory(k) PROVE TreeInv'
  <2>1. PICK c \in Category, b \in Base :
          Tree!Go(k, [op |-> "create", id |-> c, slug |-> <<b, 0>>, found |-> FALSE])
    BY <1>1 DEF Tree!CreateCategory
  <2> DEFINE j == [op |-> "create", id |-> c, slug |-> <<b, 0>>, found |-> FALSE]
  <2>2. <<b, 0>> \in Tree!Slug
    BY HostedAssumption DEF Tree!Slug, Tree!CategoryTreeAssumption
  <2>3. j \in Tree!Job /\ j.op = "create"
    BY <2>2 DEF Tree!Job
  <2>4. Tree!Go(k, j) /\ UNCHANGED <<category, filed, late>>
    BY <1>1, <2>1 DEF Tree!CreateCategory
  <2> HIDE DEF j
  <2>5. category' \in [Category -> Tree!Row \cup {Tree!Absent}]
    BY <2>4 DEF Tree!TypeOK
  <2>6. \A d \in Category : Tree!Exists(d) => Tree!Exists(d)'
    BY <2>4 DEF Tree!Exists
  <2> QED
    BY <2>3, <2>4, <2>5, <2>6, TreeGoKeeps
<1>2. ASSUME NEW k \in Call, NEW c \in Category, Tree!UpdateSlug(k, c) PROVE TreeInv'
  <2>1. PICK b \in Base :
          Tree!Go(k, [op |-> "update", id |-> c, slug |-> <<b, 0>>, found |-> FALSE])
    BY <1>2 DEF Tree!UpdateSlug
  <2> DEFINE j == [op |-> "update", id |-> c, slug |-> <<b, 0>>, found |-> FALSE]
  <2>2. <<b, 0>> \in Tree!Slug
    BY HostedAssumption DEF Tree!Slug, Tree!CategoryTreeAssumption
  <2>3. j \in Tree!Job /\ j.op = "update"
    BY <2>2 DEF Tree!Job
  <2>4. Tree!Go(k, j) /\ UNCHANGED <<category, filed, late>>
    BY <1>2, <2>1 DEF Tree!UpdateSlug
  <2> HIDE DEF j
  <2>5. category' \in [Category -> Tree!Row \cup {Tree!Absent}]
    BY <2>4 DEF Tree!TypeOK
  <2>6. \A d \in Category : Tree!Exists(d) => Tree!Exists(d)'
    BY <2>4 DEF Tree!Exists
  <2> QED
    BY <2>3, <2>4, <2>5, <2>6, TreeGoKeeps
<1>3. ASSUME NEW k \in Call, Tree!TrySlug(k) PROVE TreeInv'
  <2>1. /\ writer[k] \in [op : {"create", "update"}, id : Category, slug : Tree!Slug, found : BOOLEAN]
        /\ UNCHANGED <<category, filed, late>>
    BY <1>3, TreeJobs DEF Tree!TrySlug
  <2>2. PICK j \in Tree!Job : Tree!Go(k, j) /\ j.op # "delete"
    <3>1. CASE Tree!Go(k, [writer[k] EXCEPT !.found = TRUE])
      <4> DEFINE j == [writer[k] EXCEPT !.found = TRUE]
      <4>1. j \in Tree!Job /\ j.op # "delete"
        BY <2>1 DEF Tree!Job
      <4>2. Tree!Go(k, j)
        BY <3>1
      <4> HIDE DEF j
      <4> QED
        BY <4>1, <4>2
    <3>2. CASE writer[k].slug[2] < MaxSuffix /\ Tree!Go(k, [writer[k] EXCEPT !.slug[2] = @ + 1])
      <4>1. PICK b \in Base, n \in 0 .. MaxSuffix : writer[k].slug = <<b, n>>
        BY <2>1 DEF Tree!Slug
      <4> DEFINE j == [writer[k] EXCEPT !.slug = <<b, n + 1>>]
      <4>2. <<b, n + 1>> \in Tree!Slug
        BY <3>2, <4>1, HostedAssumption DEF Tree!Slug, Tree!CategoryTreeAssumption
      <4>3. [writer[k] EXCEPT !.slug[2] = @ + 1] = j
        BY <2>1, <4>1
      <4>4. j \in Tree!Job /\ j.op # "delete"
        BY <2>1, <4>2 DEF Tree!Job
      <4>5. Tree!Go(k, j)
        BY <3>2, <4>3
      <4> HIDE DEF j
      <4> QED
        BY <4>4, <4>5
    <3> QED
      BY <1>3, <3>1, <3>2 DEF Tree!TrySlug
  <2>3. category' \in [Category -> Tree!Row \cup {Tree!Absent}]
    BY <2>1 DEF Tree!TypeOK
  <2>4. \A d \in Category : Tree!Exists(d) => Tree!Exists(d)'
    BY <2>1 DEF Tree!Exists
  <2> QED
    BY <2>1, <2>2, <2>3, <2>4, TreeGoKeeps
<1>4. ASSUME NEW k \in Call, Tree!WriteCategory(k) PROVE TreeInv'
  <2>1. /\ writer[k].id \in Category /\ writer[k].slug \in Tree!Slug
        /\ Tree!Go(k, Tree!Idle) /\ UNCHANGED <<filed, late>>
    BY <1>4, TreeJobs DEF Tree!WriteCategory
  <2>2. Tree!Idle \in Tree!Job /\ Tree!Idle.op # "delete"
    BY DEF Tree!Job, Tree!Idle
  <2>3. /\ category' \in [Category -> Tree!Row \cup {Tree!Absent}]
        /\ \A d \in Category : Tree!Exists(d) => Tree!Exists(d)'
    <3>1. CASE UNCHANGED category
      BY <3>1 DEF Tree!TypeOK, Tree!Exists
    <3>2. CASE ~UNCHANGED category
      <4>1. PICK p \in Tree!Rows \cup {None} :
              category' = [category EXCEPT ![writer[k].id] = [slug |-> writer[k].slug, parent |-> p]]
        BY <1>4, <3>2 DEF Tree!WriteCategory
      <4> DEFINE r == [slug |-> writer[k].slug, parent |-> p]
      <4>2. r \in Tree!Row
        BY <2>1 DEF Tree!Row, Tree!Rows
      <4>3. category' = [category EXCEPT ![writer[k].id] = r]
        BY <4>1
      <4> HIDE DEF r
      <4> QED
        BY <2>1, <4>2, <4>3, RowsExist DEF Tree!TypeOK, Tree!Exists
    <3> QED
      BY <3>1, <3>2
  <2> QED
    BY <2>1, <2>2, <2>3, TreeGoKeeps
<1>5. ASSUME NEW c \in Category, Tree!UpdateParent(c) PROVE TreeInv'
  <2>1. category[c] \in Tree!Row /\ UNCHANGED <<filed, writer, late>>
    BY <1>5 DEF Tree!UpdateParent, Tree!Exists, Tree!TypeOK
  <2>2. PICK p \in Tree!Rows \cup {None} : category' = [category EXCEPT ![c].parent = p]
    BY <1>5 DEF Tree!UpdateParent
  <2> DEFINE r == [category[c] EXCEPT !.parent = p]
  <2>3. r \in Tree!Row
    BY <2>1 DEF Tree!Row, Tree!Rows
  <2>4. category' = [category EXCEPT ![c] = r]
    BY <2>2
  <2> HIDE DEF r
  <2>5. Tree!TypeOK'
    BY <2>1, <2>3, <2>4 DEF Tree!TypeOK
  <2>6. \A d \in Category : Tree!Exists(d) => Tree!Exists(d)'
    BY <2>3, <2>4, RowsExist DEF Tree!TypeOK, Tree!Exists
  <2>7. \A q \in filed : q[2] \in Category
    BY DEF Tree!TypeOK
  <2> QED
    BY <2>1, <2>5, <2>6, <2>7
<1>6. ASSUME NEW k \in Call, NEW c \in Category, Tree!DeleteCategory(k, c) PROVE TreeInv'
  <2> DEFINE j == [op |-> "delete", id |-> c]
  <2>1. /\ Tree!Go(k, j) /\ UNCHANGED <<category, filed, late>>
        /\ Tree!Uses(c) = {}
    BY <1>6 DEF Tree!DeleteCategory
  <2>2. j \in Tree!Job /\ j.id = c
    BY DEF Tree!Job
  <2> HIDE DEF j
  <2>3. category' \in [Category -> Tree!Row \cup {Tree!Absent}]
    BY <2>1 DEF Tree!TypeOK
  <2>4. \A d \in Category : Tree!Exists(d) => Tree!Exists(d)'
    BY <2>1 DEF Tree!Exists
  <2>5. Tree!Uses(j.id) = {}
    BY <2>1, <2>2
  <2> QED
    BY <2>1, <2>2, <2>3, <2>4, <2>5, TreeGoKeeps
<1>7. ASSUME NEW k \in Call, Tree!DeleteRow(k) PROVE TreeInv'
  <2>1. PICK c \in Category : c = writer[k].id /\ Tree!Go(k, Tree!Idle)
    BY <1>7, TreeJobs DEF Tree!DeleteRow
  <2>2. Tree!Idle \in Tree!Job /\ Tree!Idle.op # "delete"
    BY DEF Tree!Job, Tree!Idle
  <2>3. CASE ~Tree!Exists(c)
    <3>1. UNCHANGED <<category, filed, late>>
      BY <1>7, <2>1, <2>3 DEF Tree!DeleteRow
    <3>2. category' \in [Category -> Tree!Row \cup {Tree!Absent}]
      BY <3>1 DEF Tree!TypeOK
    <3>3. \A d \in Category : Tree!Exists(d) => Tree!Exists(d)'
      BY <3>1 DEF Tree!Exists
    <3> QED
      BY <2>1, <2>2, <3>1, <3>2, <3>3, TreeGoKeeps
  <2>4. CASE Tree!Exists(c)
    <3>1. /\ category' = [d \in Category |->
               IF d = c THEN Tree!Absent
               ELSE IF Tree!Exists(d) /\ category[d].parent = c
                    THEN [category[d] EXCEPT !.parent = None] ELSE category[d]]
          /\ filed' = filed \ Tree!Uses(c)
          /\ late' = late \ Tree!Uses(c)
      BY <1>7, <2>1, <2>4 DEF Tree!DeleteRow
    <3>2. ASSUME NEW d \in Category
          PROVE  /\ category'[d] \in Tree!Row \cup {Tree!Absent}
                 /\ d # c /\ Tree!Exists(d) => category'[d] \in Tree!Row
      <4>1. category[d] \in Tree!Row \cup {Tree!Absent}
        BY DEF Tree!TypeOK
      <4>2. category[d] \in Tree!Row => [category[d] EXCEPT !.parent = None] \in Tree!Row
        BY DEF Tree!Row
      <4> QED
        BY <3>1, <4>1, <4>2 DEF Tree!Exists
    <3>3. category' \in [Category -> Tree!Row \cup {Tree!Absent}]
      BY <3>1, <3>2
    <3>4. /\ \A i \in Call \ {k} : writer'[i] = writer[i]
          /\ writer'[k] = Tree!Idle /\ writer' \in [Call -> Tree!Job]
      BY <2>1, <2>2 DEF Tree!TypeOK, Tree!Go
    <3>5. Tree!TypeOK'
      BY <3>1, <3>3, <3>4 DEF Tree!TypeOK
    <3>6. ASSUME NEW p \in filed' PROVE Tree!Exists(p[2])'
      <4>1. p \in filed /\ p[2] \in Category /\ p[2] # c /\ Tree!Exists(p[2])
        BY <3>1 DEF Tree!Uses, Tree!TypeOK
      <4> QED
        BY <3>2, <4>1, RowsExist DEF Tree!Exists
    <3>7. ASSUME NEW i \in Call, writer'[i].op = "delete"
          PROVE  \A p \in filed' : p[2] = writer'[i].id => p \in late'
      <4>1. i # k /\ writer'[i] = writer[i]
        BY <2>2, <3>4, <3>7
      <4> QED
        BY <3>1, <3>7, <4>1 DEF Tree!Uses
    <3> QED
      BY <3>5, <3>6, <3>7
  <2> QED
    BY <2>3, <2>4
<1>8. ASSUME NEW l \in Listing, NEW cs \in SUBSET Category, Tree!FileListing(l, cs) PROVE TreeInv'
  <2> DEFINE links == {l} \X cs
  <2>1. /\ cs \subseteq Tree!Rows /\ UNCHANGED <<category, writer>>
        /\ filed' = {p \in filed : p[1] # l} \cup links
        /\ late' = (late \cap filed') \cup {p \in links \ filed : p[2] \in Tree!BeingDeleted}
    BY <1>8 DEF Tree!FileListing, Tree!Linked
  <2>2. links \subseteq Listing \X Category
    OBVIOUS
  <2>3. Tree!TypeOK'
    BY <2>1, <2>2 DEF Tree!TypeOK
  <2>4. \A p \in filed' : Tree!Exists(p[2])'
    BY <2>1 DEF Tree!Rows, Tree!Exists
  <2>5. ASSUME NEW i \in Call, writer[i].op = "delete", NEW p \in filed', p[2] = writer[i].id
        PROVE  p \in late'
    <3>1. p[2] \in Tree!BeingDeleted
      BY <2>5 DEF Tree!BeingDeleted
    <3>2. p \in filed => p \in late
      BY <2>5
    <3> HIDE DEF links
    <3> QED
      BY <2>1, <3>1, <3>2
  <2>6. \A i \in Call, p \in filed' :
          writer'[i].op = "delete" /\ p[2] = writer'[i].id => p \in late'
    BY <2>1, <2>5
  <2> QED
    BY <2>3, <2>4, <2>6
<1>10. ASSUME NEW l \in Listing, NEW cs \in SUBSET Category, Tree!FileImported(l, cs) PROVE TreeInv'
  <2> DEFINE links == {l} \X cs
  <2>1. /\ cs \subseteq Tree!Rows /\ UNCHANGED <<category, writer>>
        /\ filed' = filed \cup links
        /\ late' = (late \cap filed') \cup {p \in links \ filed : p[2] \in Tree!BeingDeleted}
    BY <1>10 DEF Tree!FileImported, Tree!Linked
  <2>2. links \subseteq Listing \X Category
    OBVIOUS
  <2>3. Tree!TypeOK'
    BY <2>1, <2>2 DEF Tree!TypeOK
  <2>4. \A p \in filed' : Tree!Exists(p[2])'
    BY <2>1 DEF Tree!Rows, Tree!Exists
  <2>5. ASSUME NEW i \in Call, writer[i].op = "delete", NEW p \in filed', p[2] = writer[i].id
        PROVE  p \in late'
    <3>1. p[2] \in Tree!BeingDeleted
      BY <2>5 DEF Tree!BeingDeleted
    <3>2. p \in filed => p \in late
      BY <2>5
    <3> HIDE DEF links
    <3> QED
      BY <2>1, <3>1, <3>2
  <2>6. \A i \in Call, p \in filed' :
          writer'[i].op = "delete" /\ p[2] = writer'[i].id => p \in late'
    BY <2>1, <2>5
  <2> QED
    BY <2>3, <2>4, <2>6
<1>9. CASE UNCHANGED Tree!treeVars
  BY <1>9 DEF Tree!treeVars, Tree!TypeOK, Tree!Exists
<1> QED
  BY <1>1, <1>2, <1>3, <1>4, <1>5, <1>6, <1>7, <1>8, <1>9, <1>10 DEF Tree!Next

\* A link that goes while its category stays was edited away, and the
\* deletion of a category takes no link that it had counted.
LEMMA TreeStays ==
  ASSUME TreeInv, [Tree!Next]_(Tree!treeVars), NEW p \in filed \ filed'
  PROVE  category'[p[2]] # Tree!Absent \/ p \in late
<1>1. ASSUME UNCHANGED category PROVE category'[p[2]] # Tree!Absent
  BY <1>1 DEF TreeInv, Tree!Exists
<1>2. ASSUME NEW k \in Call, Tree!DeleteRow(k) PROVE p \in late
  <2>1. p \in filed /\ p[2] = writer[k].id /\ writer[k].op = "delete"
    BY <1>2 DEF Tree!DeleteRow, Tree!Uses
  <2> QED
    BY <2>1 DEF TreeInv
<1>3. ~UNCHANGED filed /\ ~(filed \subseteq filed')
  OBVIOUS
<1> QED
  BY <1>1, <1>2, <1>3
  DEF Tree!Next, Tree!treeVars, Tree!CreateCategory, Tree!TrySlug, Tree!WriteCategory,
      Tree!UpdateSlug, Tree!DeleteCategory, Tree!UpdateParent, Tree!FileListing,
      Tree!FileImported

-----------------------------------------------------------------------------
(* ListingParts *)

Timed == {"intervals", "exceptions"}

\* The places after the statement that replaces a part.
Later(p) ==
  CASE p = "categories" -> {"intervals", "exceptions", "commit"}
    [] p = "intervals"  -> {"exceptions", "commit"}
    [] p = "exceptions" -> {"commit"}

\* Ids of times are drawn in order, and a client knows drawn ones.
Drawn ==
  \A p \in Timed :
    /\ \A r \in rows[p] : r.id \in 1 .. lastId
    /\ \A e \in Edit : edit[e] \in Parts!Job /\ edit[e].sent[p] # None =>
         edit[e].sent[p] \subseteq 1 .. lastId

OneOpen == \A e, f \in Edit : Parts!Open(e) /\ Parts!Open(f) => e = f

\* An edit beside the import is not alone.
Apart == ~Parts!Quiet => partAlone \subseteq {Import} /\ stands = None

\* What an edit that is alone keeps of a part is in its list.
SweptClean ==
  \A e \in Edit : e \in partAlone => \A p \in Parts!Part :
    edit[e].at \in Later(p) /\ edit[e].sent[p] # None =>
      \A r \in rows[p] : r.id \in edit[e].doomed[p] \cup edit[e].sent[p]

\* Where an import that is alone stands.
ImportAlone ==
  Import \in partAlone =>
    /\ ~Parts!Quiet => \A e \in Edit : ~Parts!Open(e)
    /\ partSync.at = "dropping" => \A r \in rows[partSync.part] : r.id \in partSync.snap
    /\ partSync.at = "add" => rows[partSync.part] = {}
    /\ ~Parts!Quiet /\ partSync.part = "intervals" /\ partSync.cats # {} =>
         Parts!IdsOf("categories") = partSync.cats
    /\ partSync.at = "write" => \A r \in rows["intervals"] : r.by = Import

\* Who stands is through.
StandsOver ==
  /\ stands \in Edit => Parts!At(stands, "done")
  /\ stands = Import => partSync.at = "over"
  /\ partSync.at = "write" => partSync.part = "intervals"

PieceInv ==
  /\ Parts!TypeOK /\ Drawn /\ OneOpen /\ Apart /\ SweptClean /\ ImportAlone /\ StandsOver
  /\ Parts!LastWriterStands /\ Parts!NothingByHalves

LEMMA PieceNames ==
  /\ Import \notin Edit /\ None \notin Edit /\ None # Import
  /\ MaxId \in Nat /\ MaxId >= 2
BY HostedAssumption DEF Parts!PartsAssumption

LEMMA PieceInit == Parts!Init => PieceInv
<1> SUFFICES ASSUME Parts!Init PROVE PieceInv
  OBVIOUS
<1>1. PICK cats \in SUBSET Filing :
        rows = [categories |-> {[id |-> c, by |-> Import] : c \in cats},
                intervals  |-> {[id |-> 1, by |-> Import]},
                exceptions |-> {[id |-> 2, by |-> Import]}]
  BY DEF Parts!Init
<1>2. \A e \in Edit : edit[e] = Parts!Lone /\ Parts!Lone.at = "idle"
  BY DEF Parts!Init, Parts!Lone
<1>3. /\ lastId = 2 /\ partAlone = {} /\ stands = None
      /\ partSync = [at |-> "idle", part |-> "categories", snap |-> {}, cats |-> {}]
  BY DEF Parts!Init
<1>4. Parts!TypeOK
  <2>1. rows \in [Parts!Part -> SUBSET Parts!Row]
    <3>1. /\ \A c \in cats : [id |-> c, by |-> Import] \in Parts!Row
          /\ [id |-> 1, by |-> Import] \in Parts!Row /\ [id |-> 2, by |-> Import] \in Parts!Row
      BY PieceNames DEF Parts!Row, Parts!Id
    <3> QED
      BY <1>1, <3>1 DEF Parts!Part
  <2>2. \A p \in Parts!Part : \A r, q \in rows[p] : r.id = q.id => r = q
    BY <1>1 DEF Parts!Part
  <2>3. edit \in [Edit -> Parts!Job \cup {Parts!Lone, Parts!Over}]
    BY DEF Parts!Init
  <2>4. lastId \in 0 .. MaxId
    BY <1>3, PieceNames
  <2> QED
    BY <1>3, <2>1, <2>2, <2>3, <2>4 DEF Parts!TypeOK
<1>5. Drawn
  <2>1. Parts!Lone \notin Parts!Job
    BY DEF Parts!Lone, Parts!Job
  <2> QED
    BY <1>1, <1>2, <1>3, <2>1 DEF Drawn, Timed
<1>6. OneOpen /\ Apart /\ ImportAlone /\ StandsOver /\ SweptClean
  BY <1>2, <1>3, PieceNames
     DEF OneOpen, Parts!Open, Parts!Part, Apart, Parts!Quiet, ImportAlone, StandsOver,
         SweptClean
<1>7. Parts!LastWriterStands
  BY <1>3, PieceNames DEF Parts!LastWriterStands
<1>8. Parts!NothingByHalves
  BY <1>1, PieceNames DEF Parts!NothingByHalves, Parts!Part
<1> QED
  BY <1>4, <1>5, <1>6, <1>7, <1>8 DEF PieceInv

\* An edit that is under way has sent its lists.
LEMMA PieceJobs ==
  ASSUME Parts!TypeOK, NEW e \in Edit, Parts!Open(e) \/ Parts!At(e, "known")
  PROVE  edit[e] \in Parts!Job
BY DEF Parts!TypeOK, Parts!Open, Parts!At, Parts!Lone, Parts!Over, Parts!Part

\* A step of an edit that writes nothing yet.
LEMMA PieceMoves ==
  ASSUME PieceInv, NEW e \in Edit, NEW j \in Parts!Job \cup {Parts!Lone, Parts!Over},
         edit' = [edit EXCEPT ![e] = j], UNCHANGED <<rows, lastId, partSync, stands>>,
         ~Parts!At(e, "done"),
         j \in Parts!Job => \A p \in Timed : j.sent[p] # None => j.sent[p] \subseteq 1 .. lastId,
         j.at \in Parts!Part \cup {"commit"} =>
           /\ \A o \in Edit \ {e} : ~Parts!Open(o)
           /\ Parts!Quiet \/ Import \notin partAlone',
         \/ partAlone' = partAlone
         \/ Parts!Quiet /\ partAlone' = partAlone \cup {e}
         \/ ~Parts!Quiet /\ partAlone' = partAlone \ {Import},
         e \in partAlone' => \A p \in Parts!Part : j.at \in Later(p) /\ j.sent[p] # None =>
           \A r \in rows[p] : r.id \in j.doomed[p] \cup j.sent[p]
  PROVE  PieceInv'
<1> USE PieceNames DEF PieceInv
<1>1. /\ edit'[e] = j
      /\ \A o \in Edit \ {e} : edit'[o] = edit[o]
      /\ partAlone \subseteq Edit \cup {Import}
  BY DEF Parts!TypeOK
<1>2. /\ Parts!Quiet' <=> Parts!Quiet
      /\ partAlone' \subseteq partAlone \cup {e} /\ (Import \in partAlone' => Import \in partAlone)
      /\ ~Parts!Quiet => partAlone' \subseteq partAlone
  BY DEF Parts!Quiet
<1>3. Parts!TypeOK'
  BY <1>1, <1>2 DEF Parts!TypeOK
<1>4. Drawn'
  <2>1. ASSUME NEW p \in Timed, NEW o \in Edit, edit'[o] \in Parts!Job, edit'[o].sent[p] # None
        PROVE  edit'[o].sent[p] \subseteq 1 .. lastId
    <3>1. CASE o = e
      BY <1>1, <2>1, <3>1
    <3>2. CASE o # e
      BY <1>1, <2>1, <3>2 DEF Drawn
    <3> QED
      BY <3>1, <3>2
  <2> QED
    BY <2>1 DEF Drawn
<1>5. \A o \in Edit \ {e} : Parts!Open(o)' <=> Parts!Open(o)
  BY <1>1 DEF Parts!Open
<1>6. Parts!Open(e)' <=> j.at \in Parts!Part \cup {"commit"}
  BY <1>1 DEF Parts!Open
<1>7. OneOpen'
  BY <1>5, <1>6 DEF OneOpen
<1>8. Apart'
  BY <1>2 DEF Apart
<1>9. SweptClean'
  <2> SUFFICES ASSUME NEW o \in Edit, o \in partAlone', NEW p \in Parts!Part,
                      edit'[o].at \in Later(p), edit'[o].sent[p] # None
               PROVE  \A r \in rows[p] : r.id \in edit'[o].doomed[p] \cup edit'[o].sent[p]
    BY DEF SweptClean
  <2>1. CASE o = e
    BY <1>1, <2>1
  <2>2. CASE o # e
    BY <1>1, <1>2, <2>2 DEF SweptClean
  <2> QED
    BY <2>1, <2>2
<1>10. ImportAlone'
  BY <1>2, <1>5, <1>6 DEF ImportAlone, Parts!IdsOf
<1>11. StandsOver' /\ (stands \in Edit => stands # e)
  BY <1>1 DEF StandsOver, Parts!At
<1>12. Parts!LastWriterStands'
  BY <1>1, <1>11 DEF Parts!LastWriterStands, Parts!IdsOf
<1>13. Parts!NothingByHalves'
  BY <1>1 DEF Parts!NothingByHalves, Parts!At
<1> QED
  BY <1>3, <1>4, <1>7, <1>8, <1>9, <1>10, <1>11, <1>12, <1>13

LEMMA PieceFetches ==
  ASSUME PieceInv, NEW e \in Edit, Parts!Fetch(e)
  PROVE  PieceInv'
<1> DEFINE j == [at |-> "known",
                 sent |-> [p \in Parts!Part |->
                             IF p = "categories" THEN None ELSE Parts!IdsOf(p)],
                 adds |-> {}, doomed |-> [p \in Parts!Part |-> {}]]
<1>1. edit' = [edit EXCEPT ![e] = j] /\ UNCHANGED <<rows, lastId, partSync, partAlone, stands>>
  BY DEF Parts!Fetch
<1>2. j \in Parts!Job /\ j.at = "known"
  <2> DEFINE s == [p \in Parts!Part |-> IF p = "categories" THEN None ELSE Parts!IdsOf(p)]
             d == [p \in Parts!Part |-> {}]
  <2>1. \A p \in Parts!Part : Parts!IdsOf(p) \subseteq Parts!Id
    BY DEF PieceInv, Parts!TypeOK, Parts!IdsOf, Parts!Row
  <2>2. s \in [Parts!Part -> (SUBSET Parts!Id) \cup {None}]
    BY <2>1
  <2>3. d \in [Parts!Part -> SUBSET Parts!Id]
    OBVIOUS
  <2> HIDE DEF s, d
  <2>4. [at |-> "known", sent |-> s, adds |-> {}, doomed |-> d] \in Parts!Job
    BY <2>2, <2>3 DEF Parts!Job
  <2> QED
    BY <2>4 DEF s, d
<1>3. \A p \in Timed : j.sent[p] \subseteq 1 .. lastId
  BY DEF PieceInv, Drawn, Timed, Parts!IdsOf, Parts!Part
<1>4. \A p \in Parts!Part : j.at \notin Later(p)
  BY <1>2 DEF Later, Parts!Part
<1>5. ~Parts!At(e, "done")
  BY DEF Parts!Fetch, Parts!At
<1> HIDE DEF j
<1>6. "known" \notin Parts!Part \cup {"commit"}
  BY DEF Parts!Part
<1> QED
  BY <1>1, <1>2, <1>3, <1>4, <1>5, <1>6, PieceMoves

LEMMA PieceRollsBack ==
  ASSUME PieceInv, NEW e \in Edit, Parts!RollBack(e)
  PROVE  PieceInv'
<1>1. edit' = [edit EXCEPT ![e] = Parts!Over]
      /\ UNCHANGED <<rows, lastId, partSync, partAlone, stands>>
  BY DEF Parts!RollBack
<1>2. Parts!Over \notin Parts!Job /\ Parts!Over.at = "failed"
  BY DEF Parts!Over, Parts!Job
<1>3. \A p \in Parts!Part : Parts!Over.at \notin Later(p)
  BY <1>2 DEF Later, Parts!Part
<1>4. ~Parts!At(e, "done") /\ "failed" \notin Parts!Part \cup {"commit"}
  BY DEF Parts!RollBack, Parts!At, Parts!Open, Parts!Part
<1> QED
  BY <1>1, <1>2, <1>3, <1>4, PieceMoves

LEMMA PieceUpdates ==
  ASSUME PieceInv, NEW e \in Edit, Parts!UpdateListing(e)
  PROVE  PieceInv'
<1> USE PieceNames
<1>1. PICK b \in Body :
        edit' = [edit EXCEPT ![e].at = "categories",
          ![e].sent = [p \in Parts!Part |->
                         IF p = "categories" THEN b.categories
                         ELSE Parts!List(b[p], edit[e].sent[p])],
          ![e].adds = {p \in Parts!Part \ {"categories"} : b[p] = "replaced"}]
  BY DEF Parts!UpdateListing
<1>2. edit[e] \in Parts!Job /\ edit[e].at = "known"
  BY PieceJobs DEF PieceInv, Parts!UpdateListing, Parts!At
<1>3. /\ b.categories \in (SUBSET Filing) \cup {None}
      /\ b.intervals \in {"unsent", "kept", "replaced"}
      /\ b.exceptions \in {"unsent", "kept", "replaced"}
  BY HostedAssumption DEF Parts!PartsAssumption
<1> DEFINE s == [p \in Parts!Part |-> IF p = "categories" THEN b.categories
                                      ELSE Parts!List(b[p], edit[e].sent[p])]
           a == {p \in Parts!Part \ {"categories"} : b[p] = "replaced"}
           moved == [edit[e] EXCEPT !.at = "categories"]
           q == [moved EXCEPT !.sent = s]
           j == [q EXCEPT !.adds = a]
<1>4. s \in [Parts!Part -> (SUBSET Parts!Id) \cup {None}]
  <2>1. edit[e].sent \in [Parts!Part -> (SUBSET Parts!Id) \cup {None}]
    BY <1>2 DEF Parts!Job
  <2>2. \A p \in {"intervals", "exceptions"} :
          Parts!List(b[p], edit[e].sent[p]) \in {None, {}, edit[e].sent[p]}
    BY <1>3 DEF Parts!List
  <2>3. \A p \in Parts!Part : s[p] \in (SUBSET Parts!Id) \cup {None}
    BY <1>3, <2>1, <2>2 DEF Parts!Part, Parts!Id
  <2> QED
    BY <2>3
<1>5. a \in SUBSET {"intervals", "exceptions"}
  BY DEF Parts!Part
<1>6. edit' = [edit EXCEPT ![e] = j]
  <2>1. edit' = [edit EXCEPT ![e].at = "categories", ![e].sent = s, ![e].adds = a]
    BY <1>1
  <2>2. edit \in [Edit -> Parts!Job \cup {Parts!Lone, Parts!Over}]
    BY DEF PieceInv, Parts!TypeOK
  <2> HIDE DEF s, a
  <2> QED
    BY <2>1, <2>2
<1>7. j \in Parts!Job /\ j.at = "categories" /\ j.sent = s
  <2> HIDE DEF s, a
  <2>1. moved \in Parts!Job /\ moved.at = "categories"
    BY <1>2 DEF Parts!Job
  <2> HIDE DEF moved
  <2>2. q \in Parts!Job /\ q.at = "categories" /\ q.sent = s
    BY <1>4, <2>1 DEF Parts!Job
  <2> HIDE DEF q
  <2> QED
    BY <1>5, <2>2 DEF Parts!Job
<1>8. \A p \in Timed : j.sent[p] # None => j.sent[p] \subseteq 1 .. lastId
  <2> SUFFICES ASSUME NEW p \in Timed, j.sent[p] # None PROVE j.sent[p] \subseteq 1 .. lastId
    OBVIOUS
  <2>1. p \in {"intervals", "exceptions"} /\ p \in Parts!Part /\ p # "categories"
    BY DEF Timed, Parts!Part
  <2>2. j.sent[p] = Parts!List(b[p], edit[e].sent[p])
    BY <1>7, <2>1
  <2>3. Parts!List(b[p], edit[e].sent[p]) \in {None, {}, edit[e].sent[p]}
    BY <1>3, <2>1 DEF Parts!List
  <2>4. edit[e].sent[p] # None => edit[e].sent[p] \subseteq 1 .. lastId
    BY <1>2 DEF PieceInv, Drawn
  <2> HIDE DEF j
  <2> QED
    BY <2>2, <2>3, <2>4
<1> HIDE DEF j
<1>9. \A o \in Edit \ {e} : ~Parts!Open(o)
  BY DEF Parts!UpdateListing
<1>10. UNCHANGED <<rows, lastId, partSync, stands>> /\ ~Parts!At(e, "done")
  BY DEF Parts!UpdateListing, Parts!At
<1>11. /\ \/ Parts!Quiet /\ partAlone' = partAlone \cup {e}
          \/ ~Parts!Quiet /\ partAlone' = partAlone \ {Import}
       /\ Parts!Quiet \/ Import \notin partAlone'
  BY DEF Parts!UpdateListing
<1>12. \A p \in Parts!Part : j.at \notin Later(p)
  BY <1>7 DEF Later, Parts!Part
<1> QED
  BY <1>6, <1>7, <1>8, <1>9, <1>10, <1>11, <1>12, PieceMoves

\* The statement that takes what is not in the list of a part, the one after it
\* being the next place.
LEMMA PieceDooms ==
  ASSUME PieceInv, NEW e \in Edit, NEW p \in Parts!Part,
         NEW place \in {"intervals", "exceptions", "commit"},
         Parts!At(e, p), Parts!Doom(e, p, place), place \in Later(p),
         \A q \in Parts!Part : place \in Later(q) => q = p \/ p \in Later(q),
         UNCHANGED <<rows, lastId, partSync, partAlone, stands>>
  PROVE  PieceInv'
<1> USE PieceNames
<1> DEFINE d == [edit[e].doomed EXCEPT ![p] = IF edit[e].sent[p] = None THEN {}
                                              ELSE Parts!IdsOf(p) \ edit[e].sent[p]]
           moved == [edit[e] EXCEPT !.at = place]
           j == [moved EXCEPT !.doomed = d]
<1>1. Parts!Open(e) /\ edit[e] \in Parts!Job /\ edit[e].at = p
  BY PieceJobs DEF PieceInv, Parts!At, Parts!Open
<1>2. d \in [Parts!Part -> SUBSET Parts!Id]
  <2>1. edit[e].doomed \in [Parts!Part -> SUBSET Parts!Id]
    BY <1>1 DEF Parts!Job
  <2>2. Parts!IdsOf(p) \subseteq Parts!Id
    BY DEF PieceInv, Parts!TypeOK, Parts!IdsOf, Parts!Row
  <2> QED
    BY <2>1, <2>2
<1>3. /\ \A q \in Parts!Part \ {p} : d[q] = edit[e].doomed[q]
      /\ edit[e].sent[p] # None => d[p] = Parts!IdsOf(p) \ edit[e].sent[p]
  BY <1>1 DEF Parts!Job
<1>4. edit' = [edit EXCEPT ![e] = j]
  <2>1. edit' = [edit EXCEPT ![e].at = place,
                             ![e].doomed[p] = IF edit[e].sent[p] = None THEN {}
                                              ELSE Parts!IdsOf(p) \ edit[e].sent[p]]
    BY DEF Parts!Doom
  <2>2. edit' = [edit EXCEPT ![e].at = place, ![e].doomed = d]
    BY <2>1
  <2> HIDE DEF d
  <2>3. edit \in [Edit -> Parts!Job \cup {Parts!Lone, Parts!Over}]
    BY DEF PieceInv, Parts!TypeOK
  <2> QED
    BY <2>2, <2>3
<1> HIDE DEF d
<1>5. j \in Parts!Job /\ j.at = place /\ j.sent = edit[e].sent /\ j.doomed = d
  <2>1. moved \in Parts!Job /\ moved.at = place /\ moved.sent = edit[e].sent
    BY <1>1 DEF Parts!Job
  <2> HIDE DEF moved
  <2> QED
    BY <1>2, <2>1 DEF Parts!Job
<1> HIDE DEF j
<1>6. \A q \in Timed : j.sent[q] # None => j.sent[q] \subseteq 1 .. lastId
  BY <1>1, <1>5 DEF PieceInv, Drawn
<1>7. \A o \in Edit \ {e} : ~Parts!Open(o)
  BY <1>1 DEF PieceInv, OneOpen
<1>8. Parts!Quiet \/ Import \notin partAlone
  BY <1>1 DEF PieceInv, ImportAlone
<1>9. e \in partAlone => \A q \in Parts!Part : j.at \in Later(q) /\ j.sent[q] # None =>
        \A r \in rows[q] : r.id \in j.doomed[q] \cup j.sent[q]
  <2> SUFFICES ASSUME e \in partAlone, NEW q \in Parts!Part, place \in Later(q),
                      edit[e].sent[q] # None, NEW r \in rows[q]
               PROVE  r.id \in d[q] \cup edit[e].sent[q]
    BY <1>5
  <2>1. CASE q = p
    <3>1. r.id \in Parts!IdsOf(p)
      BY <2>1 DEF Parts!IdsOf
    <3> QED
      BY <1>3, <2>1, <3>1
  <2>2. CASE q # p
    BY <1>1, <1>3, <2>2 DEF PieceInv, SweptClean
  <2> QED
    BY <2>1, <2>2
<1>10. ~Parts!At(e, "done")
  BY <1>1 DEF Parts!At, Parts!Part
<1>11. UNCHANGED <<rows, lastId, partSync, stands>> /\ partAlone' = partAlone
  OBVIOUS
<1> QED
  BY <1>4, <1>5, <1>6, <1>7, <1>8, <1>9, <1>10, <1>11, PieceMoves

LEMMA PieceSweeps ==
  ASSUME PieceInv, NEW e \in Edit,
         \/ Parts!SyncListingCategories(e)
         \/ Parts!SyncListingTimeIntervals(e)
         \/ Parts!SyncListingTimeIntervalExceptions(e)
  PROVE  PieceInv'
<1>1. CASE Parts!SyncListingCategories(e)
  BY <1>1, PieceDooms, "categories" \in Parts!Part
     DEF Parts!SyncListingCategories, Later, Parts!Part
<1>2. CASE Parts!SyncListingTimeIntervals(e)
  BY <1>2, PieceDooms, "intervals" \in Parts!Part
     DEF Parts!SyncListingTimeIntervals, Later, Parts!Part
<1>3. CASE Parts!SyncListingTimeIntervalExceptions(e)
  BY <1>3, PieceDooms, "exceptions" \in Parts!Part
     DEF Parts!SyncListingTimeIntervalExceptions, Later, Parts!Part
<1> QED
  BY <1>1, <1>2, <1>3

\* The ids a committing edit draws: one for each list with a new item.
LEMMA PieceDraws ==
  ASSUME PieceInv, NEW e \in Edit, edit[e] \in Parts!Job
  PROVE  /\ Cardinality(edit[e].adds) \in Nat
         /\ \A p \in Parts!Part :
              \/ p \notin edit[e].adds /\ Parts!NewIds(e)[p] = {}
              \/ /\ p \in edit[e].adds /\ p \in Timed
                 /\ \E n \in lastId + 1 .. lastId + Cardinality(edit[e].adds) :
                      Parts!NewIds(e)[p] = {n}
<1> DEFINE A == edit[e].adds
<1>1. A \subseteq {"intervals", "exceptions"} /\ lastId \in Nat
  BY DEF Parts!Job, PieceInv, Parts!TypeOK
<1>2. IsFiniteSet(A) /\ Cardinality(A) \in Nat
  <2>1. IsFiniteSet({"intervals", "exceptions"})
    <3>1. IsFiniteSet({"intervals"}) /\ IsFiniteSet({"exceptions"})
      BY FS_Singleton
    <3>2. {"intervals", "exceptions"} = {"intervals"} \cup {"exceptions"}
      OBVIOUS
    <3> QED
      BY <3>1, <3>2, FS_Union
  <2> QED
    BY <1>1, <2>1, FS_Subset, FS_CardinalityType
<1>3. \A p \in Parts!Part : Parts!NewIds(e)[p] =
        IF p \notin A THEN {}
        ELSE {lastId + Cardinality({q \in A : q = "intervals" \/ q = p})}
  BY DEF Parts!NewIds, Parts!Cardinality, Cardinality
<1>4. ASSUME NEW p \in A
      PROVE  Cardinality({q \in A : q = "intervals" \/ q = p}) \in 1 .. Cardinality(A)
  <2> DEFINE B == {q \in A : q = "intervals" \/ q = p}
  <2>1. B \subseteq A /\ p \in B
    OBVIOUS
  <2>2. IsFiniteSet(B) /\ Cardinality(B) <= Cardinality(A)
    BY <1>2, <2>1, FS_Subset
  <2>3. Cardinality(B) \in Nat /\ Cardinality(B) # 0
    BY <2>1, <2>2, FS_CardinalityType, FS_EmptySet
  <2> HIDE DEF B
  <2>4. Cardinality(B) \in 1 .. Cardinality(A)
    BY <1>2, <2>2, <2>3
  <2> QED
    BY <2>4 DEF B
<1> HIDE DEF A
<1>5. ASSUME NEW p \in A
      PROVE  \E n \in lastId + 1 .. lastId + Cardinality(A) :
               n = lastId + Cardinality({q \in A : q = "intervals" \/ q = p})
  <2> DEFINE c == Cardinality({q \in A : q = "intervals" \/ q = p})
  <2>1. c \in 1 .. Cardinality(A)
    BY <1>4
  <2> HIDE DEF c
  <2>2. lastId + c \in lastId + 1 .. lastId + Cardinality(A)
    BY <1>1, <1>2, <2>1
  <2> QED
    BY <2>2 DEF c
<1> QED
  BY <1>1, <1>2, <1>3, <1>5 DEF A, Timed

LEMMA PieceCommits ==
  ASSUME PieceInv, NEW e \in Edit, Parts!Commit(e)
  PROVE  PieceInv'
<1> USE PieceNames DEF PieceInv
<1>1. /\ Parts!At(e, "commit") /\ edit[e] \in Parts!Job /\ Parts!Open(e)
      /\ edit[e].sent \in [Parts!Part -> (SUBSET Parts!Id) \cup {None}]
      /\ edit[e].adds \subseteq {"intervals", "exceptions"}
      /\ edit[e].doomed \in [Parts!Part -> SUBSET Parts!Id]
  BY PieceJobs DEF Parts!Commit, Parts!Open, Parts!At, Parts!Job
<1> DEFINE S == edit[e].sent
           D == edit[e].doomed
           N == Parts!NewIds(e)
           k == Cardinality(edit[e].adds)
<1>2. /\ lastId \in Nat /\ lastId' = lastId + k /\ lastId + k <= MaxId
      /\ rows' = [p \in Parts!Part |-> Parts!Written(e, p)]
      /\ stands' = IF e \in partAlone THEN e ELSE None
      /\ UNCHANGED <<partSync, partAlone>>
  BY DEF Parts!Commit, Parts!TypeOK, Parts!Cardinality, Cardinality
<1>3. /\ k \in Nat
      /\ \A p \in Parts!Part :
           \/ p \notin edit[e].adds /\ N[p] = {}
           \/ /\ p \in edit[e].adds /\ p \in Timed
              /\ \E n \in lastId + 1 .. lastId + k : N[p] = {n}
  BY <1>1, PieceDraws
<1>4. /\ edit'[e] \in Parts!Job /\ edit'[e].at = "done"
      /\ edit'[e].sent = S /\ edit'[e].adds = edit[e].adds
      /\ \A o \in Edit \ {e} : edit'[o] = edit[o]
      /\ edit' \in [Edit -> Parts!Job \cup {Parts!Lone, Parts!Over}]
  <2> DEFINE none == [p \in Parts!Part |-> {}]
             moved == [edit[e] EXCEPT !.at = "done"]
             j == [moved EXCEPT !.doomed = none]
  <2>1. edit \in [Edit -> Parts!Job \cup {Parts!Lone, Parts!Over}]
    BY DEF Parts!TypeOK
  <2>2. edit' = [edit EXCEPT ![e] = j]
    BY <2>1 DEF Parts!Commit
  <2>3. none \in [Parts!Part -> SUBSET Parts!Id]
    OBVIOUS
  <2> HIDE DEF none
  <2>4. /\ moved \in Parts!Job /\ moved.at = "done"
        /\ moved.sent = S /\ moved.adds = edit[e].adds
    BY <1>1 DEF Parts!Job
  <2> HIDE DEF moved
  <2>5. j \in Parts!Job /\ j.at = "done" /\ j.sent = S /\ j.adds = edit[e].adds
    BY <2>3, <2>4 DEF Parts!Job
  <2> HIDE DEF j, S
  <2> QED
    BY <2>1, <2>2, <2>5
<1>5. \A p \in Parts!Part :
        rows'[p] = IF S[p] = None THEN rows[p]
                   ELSE {r \in rows[p] : r.id \notin D[p] \cup S[p]}
                        \cup {[id |-> i, by |-> e] : i \in S[p] \cup N[p]}
  BY <1>2 DEF Parts!Written
<1>6. \A p \in Timed : p \in Parts!Part /\ (S[p] # None => S[p] \subseteq 1 .. lastId)
  BY <1>1 DEF Drawn, Timed, Parts!Part
<1>7. \A p \in Parts!Part : N[p] \subseteq lastId + 1 .. lastId + k
  BY <1>3
<1>8. \A p \in Parts!Part : \A r \in rows[p] : r.id \notin N[p]
  <2> SUFFICES ASSUME NEW p \in Parts!Part, NEW r \in rows[p], r.id \in N[p] PROVE FALSE
    OBVIOUS
  <2>1. p \in Timed /\ r.id >= lastId + 1
    BY <1>2, <1>3, <1>7
  <2>2. r.id \in 1 .. lastId
    BY <2>1 DEF Drawn
  <2> HIDE DEF N
  <2> QED
    BY <1>2, <2>1, <2>2
<1>9. \A p \in Parts!Part : S[p] # None => S[p] \cap N[p] = {}
  <2> SUFFICES ASSUME NEW p \in Parts!Part, S[p] # None, NEW i \in S[p], i \in N[p] PROVE FALSE
    OBVIOUS
  <2>1. p \in Timed /\ i >= lastId + 1
    BY <1>2, <1>3, <1>7
  <2>2. i \in 1 .. lastId
    BY <1>6, <2>1
  <2> HIDE DEF N
  <2> QED
    BY <1>2, <2>1, <2>2
<1>10. \A p \in Parts!Part : N[p] \subseteq Parts!Id
  <2>1. lastId + 1 .. lastId + k \subseteq 1 .. MaxId
    BY <1>2, <1>3
  <2> QED
    BY <1>7, <2>1 DEF Parts!Id
<1> HIDE DEF S, D, N, k
<1>11. /\ \A p \in Parts!Part : S[p] = None => rows'[p] = rows[p]
       /\ \A p \in Parts!Part : S[p] # None => \A r \in rows'[p] :
            \/ r \in rows[p] /\ r.id \notin S[p]
            \/ \E i \in S[p] \cup N[p] : r = [id |-> i, by |-> e]
  <2>1. ASSUME NEW p \in Parts!Part, S[p] # None, NEW r \in rows'[p]
        PROVE  \/ r \in rows[p] /\ r.id \notin S[p]
               \/ \E i \in S[p] \cup N[p] : r = [id |-> i, by |-> e]
    <3>1. r \in {x \in rows[p] : x.id \notin D[p] \cup S[p]}
                \cup {[id |-> i, by |-> e] : i \in S[p] \cup N[p]}
      BY <1>5, <2>1
    <3> QED
      BY <3>1
  <2>2. \A p \in Parts!Part : S[p] = None => rows'[p] = rows[p]
    BY <1>5
  <2> QED
    BY <2>1, <2>2
<1>12. Parts!TypeOK'
  <2>1. rows' \in [Parts!Part -> SUBSET Parts!Row]
    <3> SUFFICES ASSUME NEW p \in Parts!Part PROVE rows'[p] \subseteq Parts!Row
      BY <1>2
    <3>1. rows[p] \subseteq Parts!Row
      BY DEF Parts!TypeOK
    <3>2. CASE S[p] = None
      BY <1>11, <3>1, <3>2
    <3>3. CASE S[p] # None
      <4>1. S[p] \subseteq Parts!Id
        BY <1>1, <3>3 DEF S
      <4>2. \A i \in S[p] \cup N[p] : [id |-> i, by |-> e] \in Parts!Row
        BY <1>10, <4>1 DEF Parts!Row
      <4> QED
        BY <1>11, <3>1, <3>3, <4>2
    <3> QED
      BY <3>2, <3>3
  <2>2. \A p \in Parts!Part : \A r, q \in rows'[p] : r.id = q.id => r = q
    <3> SUFFICES ASSUME NEW p \in Parts!Part, NEW r \in rows'[p], NEW q \in rows'[p],
                        r.id = q.id
                 PROVE  r = q
      OBVIOUS
    <3>1. \A x, y \in rows[p] : x.id = y.id => x = y
      BY DEF Parts!TypeOK
    <3>2. CASE S[p] = None
      BY <1>11, <3>1, <3>2
    <3>3. CASE S[p] # None
      <4>1. \A x \in rows'[p] :
              \/ x \in rows[p] /\ x.id \notin S[p]
              \/ x.id \in S[p] \cup N[p] /\ x = [id |-> x.id, by |-> e]
        BY <1>11, <3>3
      <4> QED
        BY <1>8, <3>1, <4>1
    <3> QED
      BY <3>2, <3>3
  <2>3. lastId' \in 0 .. MaxId
    BY <1>2, <1>3
  <2>4. stands' \in Edit \cup {Import, None}
    BY <1>2
  <2> QED
    BY <1>2, <1>4, <2>1, <2>2, <2>3, <2>4 DEF Parts!TypeOK
<1>13. Drawn'
  <2>1. 1 .. lastId \subseteq 1 .. lastId'
    BY <1>2, <1>3
  <2>2. ASSUME NEW p \in Timed, NEW r \in rows'[p] PROVE r.id \in 1 .. lastId'
    <3>1. \A x \in rows[p] : x.id \in 1 .. lastId
      BY <2>2 DEF Drawn
    <3>2. N[p] \subseteq 1 .. lastId'
      BY <1>2, <1>3, <1>6, <1>7, <2>2
    <3> QED
      BY <1>6, <1>11, <2>1, <2>2, <3>1, <3>2
  <2>3. ASSUME NEW p \in Timed, NEW o \in Edit, edit'[o] \in Parts!Job,
               edit'[o].sent[p] # None
        PROVE  edit'[o].sent[p] \subseteq 1 .. lastId'
    <3>1. CASE o = e
      BY <1>4, <1>6, <2>1, <2>3, <3>1 DEF S
    <3>2. CASE o # e
      BY <1>4, <2>1, <2>3, <3>2 DEF Drawn
    <3> QED
      BY <3>1, <3>2
  <2> QED
    BY <2>2, <2>3 DEF Drawn
<1>14. /\ \A o \in Edit \ {e} : ~Parts!Open(o) /\ ~Parts!Open(o)'
       /\ ~Parts!Open(e)'
  <2>1. "done" \notin Parts!Part \cup {"commit"}
    BY DEF Parts!Part
  <2>2. \A o \in Edit \ {e} : ~Parts!Open(o)
    BY <1>1 DEF OneOpen
  <2> QED
    BY <1>4, <2>1, <2>2 DEF Parts!Open
<1>15. OneOpen'
  BY <1>14 DEF OneOpen
<1>16. Apart'
  BY <1>2 DEF Apart, Parts!Quiet
<1>17. SweptClean'
  <2>1. \A p \in Parts!Part : Later(p) \subseteq Parts!Part \cup {"commit"}
    BY DEF Later, Parts!Part
  <2>2. \A o \in Edit : edit'[o].at \notin Parts!Part \cup {"commit"}
    BY <1>14 DEF Parts!Open
  <2> QED
    BY <2>1, <2>2 DEF SweptClean
<1>18. ImportAlone'
  <2>1. Parts!Quiet \/ Import \notin partAlone
    BY <1>1 DEF ImportAlone
  <2> QED
    BY <1>2, <2>1 DEF ImportAlone, Parts!Quiet
<1>19. StandsOver'
  BY <1>2, <1>4 DEF StandsOver, Parts!At
<1>20. Parts!LastWriterStands'
  <2>1. CASE e \in partAlone
    <3>1. stands' = e
      BY <1>2, <2>1
    <3>2. ASSUME NEW p \in Parts!Part, S[p] # None
          PROVE  /\ \A r \in rows'[p] : r.by = e
                 /\ S[p] \subseteq {r.id : r \in rows'[p]}
                 /\ Cardinality(rows'[p] \ {r \in rows'[p] : r.id \in S[p]})
                      = (IF p \in edit[e].adds THEN 1 ELSE 0)
      <4>1. \A r \in rows[p] : r.id \in D[p] \cup S[p]
        <5>1. "commit" \in Later(p)
          BY DEF Later, Parts!Part
        <5> QED
          BY <1>1, <2>1, <3>2, <5>1 DEF SweptClean, Parts!At, S, D
      <4>2. rows'[p] = {[id |-> i, by |-> e] : i \in S[p] \cup N[p]}
        BY <1>5, <3>2, <4>1
      <4>3. rows'[p] \ {r \in rows'[p] : r.id \in S[p]} = {[id |-> i, by |-> e] : i \in N[p]}
        BY <1>9, <3>2, <4>2
      <4>4. (\A r \in rows'[p] : r.by = e) /\ S[p] \subseteq {r.id : r \in rows'[p]}
        <5>1. \A i \in S[p] \cup N[p] :
                [id |-> i, by |-> e] \in rows'[p] /\ [id |-> i, by |-> e].id = i
          BY <4>2
        <5>2. \A r \in rows'[p] : \E i \in S[p] \cup N[p] : r = [id |-> i, by |-> e]
          BY <4>2
        <5>3. \A r \in rows'[p] : r.by = e
          BY <5>2
        <5>4. ASSUME NEW i \in S[p] PROVE i \in {r.id : r \in rows'[p]}
          BY <5>1
        <5> QED
          BY <5>3, <5>4
      <4>5. CASE p \notin edit[e].adds
        <5>1. {[id |-> i, by |-> e] : i \in N[p]} = {}
          BY <1>3, <4>5
        <5> QED
          BY <4>3, <4>5, <4>4, <5>1, FS_EmptySet
      <4>6. CASE p \in edit[e].adds
        <5>1. PICK n : N[p] = {n}
          BY <1>3, <4>6
        <5>2. {[id |-> i, by |-> e] : i \in N[p]} = {[id |-> n, by |-> e]}
          BY <5>1
        <5> QED
          BY <4>3, <4>6, <4>4, <5>2, FS_Singleton
      <4> QED
        BY <4>5, <4>6
    <3>3. \A X : Parts!Cardinality(X) = Cardinality(X)
      BY DEF Parts!Cardinality, Cardinality
    <3> QED
      BY <1>4, <3>1, <3>2, <3>3 DEF Parts!LastWriterStands, Parts!IdsOf
  <2>2. CASE e \notin partAlone
    BY <1>2, <2>2 DEF Parts!LastWriterStands
  <2> QED
    BY <2>1, <2>2
<1>21. Parts!NothingByHalves'
  <2> SUFFICES ASSUME NEW f \in Edit, NEW p \in Parts!Part, NEW r \in rows'[p], r.by = f
               PROVE  edit'[f].at = "done"
    BY DEF Parts!NothingByHalves, Parts!At
  <2>1. CASE f = e
    BY <1>4, <2>1
  <2>2. CASE f # e
    <3>1. r \in rows[p]
      BY <1>11, <2>2
    <3> QED
      BY <1>4, <2>2, <3>1 DEF Parts!NothingByHalves, Parts!At
  <2> QED
    BY <2>1, <2>2
<1> QED
  BY <1>12, <1>13, <1>15, <1>16, <1>17, <1>18, <1>19, <1>20, <1>21

SyncRec == [at : {"idle", "drop", "dropping", "add", "write", "over", "failed"},
            part : {"categories", "intervals"},
            snap : SUBSET Parts!Id, cats : SUBSET Filing]

\* A step of the import that writes no row.
LEMMA PieceImports ==
  ASSUME PieceInv, UNCHANGED <<rows, lastId, edit>>, partSync' \in SyncRec,
         partAlone' \subseteq partAlone \cup {Import}, stands' \in Edit \cup {Import, None},
         Apart', ImportAlone', StandsOver', Parts!LastWriterStands'
  PROVE  PieceInv'
<1> USE PieceNames DEF PieceInv
<1>1. Parts!TypeOK'
  BY DEF Parts!TypeOK, SyncRec
<1>2. Drawn' /\ OneOpen' /\ Parts!NothingByHalves'
  BY DEF Drawn, OneOpen, Parts!Open, Parts!NothingByHalves, Parts!At
<1>3. SweptClean'
  BY DEF SweptClean
<1> QED
  BY <1>1, <1>2, <1>3

\* A step of the import that does: beside it no edit is alone, and none stands.
LEMMA PieceImportWrites ==
  ASSUME PieceInv, ~Parts!Quiet, UNCHANGED <<edit, partAlone, stands>>,
         rows' \in [Parts!Part -> SUBSET Parts!Row],
         \A p \in Parts!Part : \A r, q \in rows'[p] : r.id = q.id => r = q,
         \A p \in Parts!Part : \A r \in rows'[p] : r \in rows[p] \/ r.by = Import,
         \A p \in Timed : \A r \in rows'[p] : r.id \in 1 .. lastId',
         lastId' \in lastId .. MaxId, partSync' \in SyncRec,
         ImportAlone', partSync'.at = "write" => partSync'.part = "intervals"
  PROVE  PieceInv'
<1> USE PieceNames DEF PieceInv
<1>1. lastId \in Nat /\ lastId' \in 0 .. MaxId /\ 1 .. lastId \subseteq 1 .. lastId'
  BY DEF Parts!TypeOK
<1>2. Parts!TypeOK'
  BY <1>1 DEF Parts!TypeOK, SyncRec
<1>3. Drawn' /\ OneOpen'
  BY <1>1 DEF Drawn, OneOpen, Parts!Open
<1>4. partAlone \subseteq {Import} /\ stands = None
  BY DEF Apart
<1>5. Apart' /\ SweptClean' /\ StandsOver' /\ Parts!LastWriterStands'
  BY <1>4 DEF Apart, SweptClean, StandsOver, Parts!LastWriterStands
<1>6. Parts!NothingByHalves'
  <2> SUFFICES ASSUME NEW f \in Edit, NEW p \in Parts!Part, NEW r \in rows'[p], r.by = f
               PROVE  edit[f].at = "done"
    BY DEF Parts!NothingByHalves, Parts!At
  <2>1. r \in rows[p]
    OBVIOUS
  <2> QED
    BY <2>1 DEF Parts!NothingByHalves, Parts!At
<1> QED
  BY <1>2, <1>3, <1>5, <1>6

LEMMA PieceSyncs ==
  ASSUME PieceInv,
         \/ \E cats \in SUBSET Filing : Parts!StartSync(cats)
         \/ Parts!Drop \/ Parts!WriteListing \/ Parts!SyncFails
  PROVE  PieceInv'
<1> USE PieceNames DEF PieceInv
<1>1. partSync \in SyncRec /\ partAlone \subseteq Edit \cup {Import}
      /\ stands \in Edit \cup {Import, None}
  BY DEF Parts!TypeOK, SyncRec
<1>2. ASSUME NEW cats \in SUBSET Filing, Parts!StartSync(cats) PROVE PieceInv'
  <2> DEFINE first == [[partSync EXCEPT !.at = "drop"] EXCEPT !.cats = cats]
             part == IF cats = {} THEN "intervals" ELSE "categories"
             next == [first EXCEPT !.part = part]
  <2>1. /\ partSync' = next /\ stands' = None /\ UNCHANGED <<rows, lastId, edit>>
        /\ partAlone' = IF \E e \in Edit : Parts!Open(e) THEN {} ELSE {Import}
    BY <1>2 DEF Parts!StartSync
  <2>2. part \in {"categories", "intervals"} /\ (cats # {} => part # "intervals")
    OBVIOUS
  <2> HIDE DEF part
  <2>3. first \in SyncRec /\ first.at = "drop" /\ first.cats = cats
    BY <1>1 DEF SyncRec
  <2> HIDE DEF first
  <2>4. next \in SyncRec /\ next.at = "drop" /\ next.cats = cats /\ next.part = part
    BY <2>2, <2>3 DEF SyncRec
  <2> HIDE DEF next
  <2>5. partSync' \in SyncRec /\ partSync'.at = "drop"
        /\ (partSync'.cats # {} => partSync'.part # "intervals")
    BY <2>1, <2>2, <2>4
  <2>6. Apart' /\ StandsOver' /\ Parts!LastWriterStands'
    BY <2>1, <2>5 DEF Apart, StandsOver, Parts!LastWriterStands
  <2>7. ImportAlone'
    BY <2>1, <2>5 DEF ImportAlone, Parts!Open
  <2>8. partAlone' \subseteq partAlone \cup {Import}
    BY <2>1
  <2> QED
    BY <2>1, <2>5, <2>6, <2>7, <2>8, PieceImports
<1>3. ASSUME Parts!Drop PROVE PieceInv'
  <2> DEFINE first == [partSync EXCEPT !.at = "dropping"]
             next == [first EXCEPT !.snap = Parts!IdsOf(partSync.part)]
  <2>1. /\ partSync' = next /\ UNCHANGED <<rows, lastId, edit, partAlone, stands>>
        /\ partSync.at = "drop"
    BY <1>3 DEF Parts!Drop
  <2>2. Parts!IdsOf(partSync.part) \subseteq Parts!Id
    BY <1>1 DEF Parts!TypeOK, Parts!IdsOf, Parts!Row, SyncRec, Parts!Part
  <2>3. /\ first \in SyncRec /\ first.at = "dropping"
        /\ first.cats = partSync.cats /\ first.part = partSync.part
    BY <1>1 DEF SyncRec
  <2> HIDE DEF first
  <2>4. /\ next \in SyncRec /\ next.at = "dropping" /\ next.cats = partSync.cats
        /\ next.part = partSync.part /\ next.snap = Parts!IdsOf(partSync.part)
    BY <2>2, <2>3 DEF SyncRec
  <2> HIDE DEF next
  <2>5. /\ partSync' \in SyncRec /\ partSync'.at = "dropping"
        /\ partSync'.cats = partSync.cats /\ partSync'.part = partSync.part
        /\ partSync'.snap = Parts!IdsOf(partSync.part) /\ ~Parts!Quiet
    BY <2>1, <2>4 DEF Parts!Quiet
  <2>6. partAlone \subseteq {Import} /\ stands = None
    BY <2>5 DEF Apart
  <2>7. Apart' /\ StandsOver' /\ Parts!LastWriterStands'
    BY <2>1, <2>5, <2>6 DEF Apart, StandsOver, Parts!LastWriterStands
  <2>8. ImportAlone'
    <3>1. \A r \in rows[partSync.part] : r.id \in Parts!IdsOf(partSync.part)
      BY DEF Parts!IdsOf
    <3> QED
      BY <2>1, <2>5, <3>1 DEF ImportAlone, Parts!Open, Parts!IdsOf
  <2> QED
    BY <1>1, <2>1, <2>5, <2>7, <2>8, PieceImports
<1>4. ASSUME Parts!WriteListing PROVE PieceInv'
  <2> DEFINE next == [partSync EXCEPT !.at = "over"]
  <2>1. /\ partSync' = next /\ UNCHANGED <<rows, lastId, edit, partAlone>>
        /\ partSync.at = "write" /\ stands' = IF Import \in partAlone THEN Import ELSE None
    BY <1>4 DEF Parts!WriteListing
  <2>2. /\ next \in SyncRec /\ next.at = "over"
        /\ next.cats = partSync.cats /\ next.part = partSync.part
    BY <1>1 DEF SyncRec
  <2> HIDE DEF next
  <2>3. /\ partSync' \in SyncRec /\ partSync'.at = "over" /\ partSync'.cats = partSync.cats
        /\ ~Parts!Quiet /\ partSync.part = "intervals"
    BY <2>1, <2>2 DEF Parts!Quiet, StandsOver
  <2>4. Apart' /\ StandsOver' /\ ImportAlone'
    BY <2>1, <2>3 DEF Apart, StandsOver, ImportAlone, Parts!Quiet
  <2>5. Parts!LastWriterStands'
    <3>1. Import \in partAlone =>
            /\ \A r \in rows["intervals"] : r.by = Import
            /\ partSync.cats # {} => Parts!IdsOf("categories") = partSync.cats
      BY <2>1, <2>3 DEF ImportAlone
    <3> QED
      BY <2>1, <2>3, <3>1 DEF Parts!LastWriterStands, Parts!IdsOf
  <2>6. stands' \in Edit \cup {Import, None}
    BY <2>1
  <2> QED
    BY <2>1, <2>3, <2>4, <2>5, <2>6, PieceImports
<1>5. ASSUME Parts!SyncFails PROVE PieceInv'
  <2> DEFINE next == [partSync EXCEPT !.at = "failed"]
  <2>1. /\ partSync' = next /\ UNCHANGED <<rows, lastId, edit, partAlone, stands>>
        /\ ~Parts!Quiet
    BY <1>5 DEF Parts!SyncFails
  <2>2. next \in SyncRec /\ next.at = "failed"
    BY <1>1 DEF SyncRec
  <2> HIDE DEF next
  <2>3. stands = None
    BY <2>1 DEF Apart
  <2>4. Apart' /\ StandsOver' /\ ImportAlone' /\ Parts!LastWriterStands'
    BY <2>1, <2>2, <2>3
       DEF Apart, StandsOver, ImportAlone, Parts!Quiet, Parts!LastWriterStands
  <2> QED
    BY <1>1, <2>1, <2>2, <2>4, PieceImports
<1> QED
  BY <1>2, <1>3, <1>4, <1>5

LEMMA PieceDrops ==
  ASSUME PieceInv, Parts!Drops
  PROVE  PieceInv'
<1> USE PieceNames DEF PieceInv
<1> DEFINE first == [partSync EXCEPT !.at = "add"]
           next == [first EXCEPT !.snap = {}]
           p == partSync.part
           spared == {r \in rows[p] : r.id \notin partSync.snap}
<1>1. partSync \in SyncRec /\ p \in Parts!Part /\ rows \in [Parts!Part -> SUBSET Parts!Row]
  BY DEF Parts!TypeOK, SyncRec, Parts!Part
<1>2. /\ partSync' = next /\ UNCHANGED <<lastId, edit, partAlone, stands>>
      /\ partSync.at = "dropping" /\ ~Parts!Quiet
      /\ rows' = [rows EXCEPT ![p] = spared]
  BY DEF Parts!Drops, Parts!Quiet
<1>3. first \in SyncRec /\ first.at = "add" /\ first.cats = partSync.cats /\ first.part = p
  BY <1>1 DEF SyncRec
<1> HIDE DEF first
<1>4. next \in SyncRec /\ next.at = "add" /\ next.cats = partSync.cats /\ next.part = p
  BY <1>3 DEF SyncRec
<1> HIDE DEF next
<1>5. /\ rows'[p] = spared /\ spared \subseteq rows[p]
      /\ \A q \in Parts!Part \ {p} : rows'[q] = rows[q]
  BY <1>1, <1>2
<1>6. spared = {} \/ Import \notin partAlone
  BY <1>2 DEF ImportAlone
<1> HIDE DEF spared
<1>7. \A q \in Parts!Part : rows'[q] \subseteq rows[q]
  BY <1>5
<1>8. rows' \in [Parts!Part -> SUBSET Parts!Row]
  BY <1>1, <1>2, <1>5
<1>9. /\ \A q \in Parts!Part : \A r, s \in rows'[q] : r.id = s.id => r = s
      /\ \A q \in Parts!Part : \A r \in rows'[q] : r \in rows[q] \/ r.by = Import
      /\ \A q \in Timed : \A r \in rows'[q] : r.id \in 1 .. lastId'
  BY <1>2, <1>7 DEF Parts!TypeOK, Drawn, Timed, Parts!Part
<1>10. lastId' \in lastId .. MaxId
  BY <1>2 DEF Parts!TypeOK
<1>11. ImportAlone'
  <2> SUFFICES ASSUME Import \in partAlone
               PROVE  /\ \A e \in Edit : ~Parts!Open(e)
                      /\ rows'[p] = {}
                      /\ p = "intervals" /\ partSync.cats # {} =>
                           {r.id : r \in rows'["categories"]} = partSync.cats
    BY <1>2, <1>4 DEF ImportAlone, Parts!Open, Parts!IdsOf
  <2>1. p = "intervals" => rows'["categories"] = rows["categories"]
    BY <1>5 DEF Parts!Part
  <2> QED
    BY <1>2, <1>5, <1>6, <2>1 DEF ImportAlone, Parts!IdsOf
<1> QED
  BY <1>2, <1>4, <1>8, <1>9, <1>10, <1>11, PieceImportWrites

LEMMA PieceAddsCategories ==
  ASSUME PieceInv, Parts!AddCategories
  PROVE  PieceInv'
<1> USE PieceNames DEF PieceInv
<1>1. partSync \in SyncRec /\ rows \in [Parts!Part -> SUBSET Parts!Row]
      /\ "categories" \in Parts!Part /\ partSync.cats \subseteq Filing
  BY DEF Parts!TypeOK, SyncRec, Parts!Part
<1>2. /\ UNCHANGED <<lastId, edit, partAlone, stands>>
      /\ partSync.at = "add" /\ partSync.part = "categories" /\ ~Parts!Quiet
  BY DEF Parts!AddCategories, Parts!Quiet
<1>3. lastId' \in lastId .. MaxId
  BY <1>2 DEF Parts!TypeOK
<1>4. CASE Parts!IdsOf("categories") \cap partSync.cats = {}
  <2> DEFINE new == {[id |-> c, by |-> Import] : c \in partSync.cats}
             first == [partSync EXCEPT !.at = "drop"]
             next == [first EXCEPT !.part = "intervals"]
             both == rows["categories"] \cup new
  <2>1. partSync' = next /\ rows' = [rows EXCEPT !["categories"] = both]
    BY <1>4 DEF Parts!AddCategories
  <2>2. first \in SyncRec /\ first.at = "drop" /\ first.cats = partSync.cats
    BY <1>1 DEF SyncRec
  <2> HIDE DEF first
  <2>3. next \in SyncRec /\ next.at = "drop" /\ next.cats = partSync.cats
    BY <2>2 DEF SyncRec
  <2> HIDE DEF next
  <2>4. /\ new \subseteq Parts!Row
        /\ \A r \in new : r.by = Import /\ r.id \in partSync.cats
                          /\ r = [id |-> r.id, by |-> Import]
        /\ {r.id : r \in new} = partSync.cats
    <3>1. \A c \in partSync.cats : /\ [id |-> c, by |-> Import] \in Parts!Row
                                   /\ [id |-> c, by |-> Import].id = c
                                   /\ [id |-> c, by |-> Import].by = Import
      BY <1>1 DEF Parts!Row, Parts!Id
    <3>2. \A r \in new : \E c \in partSync.cats : r = [id |-> c, by |-> Import]
      OBVIOUS
    <3>3. \A r \in new : r \in Parts!Row /\ r.by = Import /\ r.id \in partSync.cats
                          /\ r = [id |-> r.id, by |-> Import]
      BY <3>1, <3>2
    <3>4. \A c \in partSync.cats : \E r \in new : r.id = c
      BY <3>1
    <3> HIDE DEF new
    <3> QED
      BY <3>3, <3>4
  <2>5. \A r \in rows["categories"], q \in new : r.id # q.id
    BY <1>4, <2>4 DEF Parts!IdsOf
  <2> HIDE DEF new
  <2>6. /\ rows'["categories"] = both
        /\ \A q \in Parts!Part \ {"categories"} : rows'[q] = rows[q]
    BY <1>1, <2>1
  <2>7. rows' \in [Parts!Part -> SUBSET Parts!Row]
    BY <1>1, <2>1, <2>4
  <2>8. \A q \in Parts!Part : \A r, s \in rows'[q] : r.id = s.id => r = s
    <3>1. \A q \in Parts!Part : \A r, s \in rows[q] : r.id = s.id => r = s
      BY DEF Parts!TypeOK
    <3>2. \A r, s \in new : r.id = s.id => r = s
      BY <2>4
    <3>3. \A r, s \in both : r.id = s.id => r = s
      BY <1>1, <2>5, <3>1, <3>2
    <3> QED
      BY <2>6, <3>1, <3>3
  <2>9. \A q \in Parts!Part : \A r \in rows'[q] : r \in rows[q] \/ r.by = Import
    BY <2>4, <2>6
  <2>10. \A q \in Timed : \A r \in rows'[q] : r.id \in 1 .. lastId'
    BY <1>2, <2>6 DEF Drawn, Timed, Parts!Part
  <2>11. ImportAlone'
    <3> SUFFICES ASSUME Import \in partAlone
                 PROVE  /\ \A e \in Edit : ~Parts!Open(e)
                        /\ {r.id : r \in rows'["categories"]} = partSync.cats
      BY <1>2, <2>1, <2>3 DEF ImportAlone, Parts!Open, Parts!IdsOf
    <3>1. rows["categories"] = {} /\ \A e \in Edit : ~Parts!Open(e)
      BY <1>2 DEF ImportAlone
    <3> QED
      BY <2>4, <2>6, <3>1
  <2> QED
    BY <1>2, <1>3, <2>1, <2>3, <2>7, <2>8, <2>9, <2>10, <2>11, PieceImportWrites
<1>5. CASE Parts!IdsOf("categories") \cap partSync.cats # {}
  <2> DEFINE next == [partSync EXCEPT !.at = "failed"]
  <2>1. partSync' = next /\ rows' = rows
    BY <1>5 DEF Parts!AddCategories
  <2>2. next \in SyncRec /\ next.at = "failed"
    BY <1>1 DEF SyncRec
  <2> HIDE DEF next
  <2>3. stands = None
    BY <1>2 DEF Apart
  <2>4. Apart' /\ StandsOver' /\ ImportAlone' /\ Parts!LastWriterStands'
    BY <1>2, <2>1, <2>2, <2>3
       DEF Apart, StandsOver, ImportAlone, Parts!Quiet, Parts!LastWriterStands
  <2>5. stands \in Edit \cup {Import, None}
    BY <2>3
  <2> QED
    BY <1>2, <2>1, <2>2, <2>4, <2>5, PieceImports
<1> QED
  BY <1>4, <1>5

LEMMA PieceAddsTimes ==
  ASSUME PieceInv, Parts!AddTimes
  PROVE  PieceInv'
<1> USE PieceNames DEF PieceInv
<1> DEFINE fresh == lastId + 1
           new == [id |-> fresh, by |-> Import]
           next == [partSync EXCEPT !.at = "write"]
<1>1. partSync \in SyncRec /\ rows \in [Parts!Part -> SUBSET Parts!Row]
      /\ "intervals" \in Parts!Part /\ lastId \in Nat
  BY DEF Parts!TypeOK, SyncRec, Parts!Part
<1>2. /\ UNCHANGED <<edit, partAlone, stands>> /\ lastId' = fresh /\ fresh <= MaxId
      /\ partSync.at = "add" /\ partSync.part = "intervals" /\ ~Parts!Quiet
      /\ partSync' = next
      /\ rows' = [rows EXCEPT !["intervals"] = rows["intervals"] \cup {new}]
  BY DEF Parts!AddTimes, Parts!Fresh, Parts!Quiet
<1>3. /\ fresh \in 1 .. MaxId /\ fresh \in lastId .. MaxId
      /\ \A i \in 1 .. lastId : i \in 1 .. fresh /\ i # fresh
  BY <1>1, <1>2
<1>4. next \in SyncRec /\ next.at = "write" /\ next.part = "intervals"
      /\ next.cats = partSync.cats
  BY <1>1, <1>2 DEF SyncRec
<1> HIDE DEF next
<1>5. new \in Parts!Row /\ new.id = fresh /\ new.by = Import
  BY <1>3 DEF Parts!Row, Parts!Id
<1> HIDE DEF new
<1>6. /\ rows'["intervals"] = rows["intervals"] \cup {new}
      /\ \A q \in Parts!Part \ {"intervals"} : rows'[q] = rows[q]
  BY <1>1, <1>2
<1>7. rows' \in [Parts!Part -> SUBSET Parts!Row]
  BY <1>1, <1>2, <1>5
<1>8. \A r \in rows["intervals"] : r.id \in 1 .. lastId
  BY DEF Drawn, Timed
<1>9. \A q \in Parts!Part : \A r, s \in rows'[q] : r.id = s.id => r = s
  <2>1. \A q \in Parts!Part : \A r, s \in rows[q] : r.id = s.id => r = s
    BY DEF Parts!TypeOK
  <2>2. \A r \in rows["intervals"] : r.id # fresh
    BY <1>3, <1>8
  <2> HIDE DEF fresh
  <2>3. \A r, s \in rows["intervals"] \cup {new} : r.id = s.id => r = s
    BY <1>1, <1>5, <2>1, <2>2
  <2> QED
    BY <1>6, <2>1, <2>3
<1>10. \A q \in Parts!Part : \A r \in rows'[q] : r \in rows[q] \/ r.by = Import
  BY <1>5, <1>6
<1>11. \A q \in Timed : \A r \in rows'[q] : r.id \in 1 .. fresh
  <2>1. \A q \in Timed : q \in Parts!Part /\ \A r \in rows[q] : r.id \in 1 .. fresh
    BY <1>3 DEF Drawn, Timed, Parts!Part
  <2> HIDE DEF fresh
  <2>2. fresh \in 1 .. fresh
    BY <1>3
  <2> QED
    BY <1>5, <1>6, <2>1, <2>2
<1>12. ImportAlone'
  <2> SUFFICES ASSUME Import \in partAlone
               PROVE  /\ \A e \in Edit : ~Parts!Open(e)
                      /\ \A r \in rows'["intervals"] : r.by = Import
                      /\ partSync.cats # {} =>
                           {r.id : r \in rows'["categories"]} = partSync.cats
    BY <1>2, <1>4 DEF ImportAlone, Parts!Open, Parts!IdsOf
  <2>1. rows'["categories"] = rows["categories"]
    BY <1>6 DEF Parts!Part
  <2>2. rows["intervals"] = {} /\ \A e \in Edit : ~Parts!Open(e)
    BY <1>2 DEF ImportAlone
  <2>3. partSync.cats # {} => {r.id : r \in rows["categories"]} = partSync.cats
    BY <1>2 DEF ImportAlone, Parts!IdsOf
  <2> QED
    BY <1>5, <1>6, <2>1, <2>2, <2>3
<1> HIDE DEF fresh
<1> QED
  BY <1>2, <1>3, <1>4, <1>7, <1>9, <1>10, <1>11, <1>12, PieceImportWrites

LEMMA PieceStep == PieceInv /\ [Parts!Next]_(Parts!partVars) => PieceInv'
<1> SUFFICES ASSUME PieceInv, [Parts!Next]_(Parts!partVars) PROVE PieceInv'
  OBVIOUS
<1>1. ASSUME NEW e \in Edit,
             \/ Parts!Fetch(e) \/ Parts!UpdateListing(e)
             \/ Parts!SyncListingCategories(e) \/ Parts!SyncListingTimeIntervals(e)
             \/ Parts!SyncListingTimeIntervalExceptions(e)
             \/ Parts!Commit(e) \/ Parts!RollBack(e)
      PROVE  PieceInv'
  BY <1>1, PieceFetches, PieceUpdates, PieceSweeps, PieceCommits, PieceRollsBack
<1>2. CASE \/ \E cats \in SUBSET Filing : Parts!StartSync(cats)
           \/ Parts!Drop \/ Parts!WriteListing \/ Parts!SyncFails
  BY <1>2, PieceSyncs
<1>3. CASE Parts!Drops
  BY <1>3, PieceDrops
<1>4. CASE Parts!AddCategories
  BY <1>4, PieceAddsCategories
<1>5. CASE Parts!AddTimes
  BY <1>5, PieceAddsTimes
<1>6. CASE UNCHANGED Parts!partVars
  <2>1. UNCHANGED <<rows, lastId, edit, partSync, partAlone, stands>>
    BY <1>6 DEF Parts!partVars
  <2>2. /\ Parts!TypeOK' <=> Parts!TypeOK
        /\ Drawn' <=> Drawn
        /\ Parts!NothingByHalves' <=> Parts!NothingByHalves
    BY <2>1 DEF Parts!TypeOK, Drawn, Parts!NothingByHalves, Parts!At
  <2>3. /\ OneOpen' <=> OneOpen
        /\ Apart' <=> Apart
        /\ SweptClean' <=> SweptClean
    BY <2>1 DEF OneOpen, Apart, SweptClean, Parts!Open, Parts!Quiet
  <2>4. /\ StandsOver' <=> StandsOver
        /\ Parts!LastWriterStands' <=> Parts!LastWriterStands
    BY <2>1 DEF StandsOver, Parts!LastWriterStands, Parts!IdsOf, Parts!At
  <2>5. ImportAlone' <=> ImportAlone
    BY <2>1 DEF ImportAlone, Parts!Open, Parts!Quiet, Parts!IdsOf
  <2> QED
    BY <2>2, <2>3, <2>4, <2>5 DEF PieceInv
<1> QED
  BY <1>1, <1>2, <1>3, <1>4, <1>5, <1>6 DEF Parts!Next

LEMMA PiecesAsSent == PieceInv => Parts!PartsAsSent
BY DEF PieceInv, Parts!PartsAsSent

-----------------------------------------------------------------------------
(* Parking *)

\* A space that a sync has been told is stored.
Told(s, p) ==
  /\ sync[s].at \in {"next", "waiting"} \/ logs[s] = "sync_completed"
  /\ sync[s].errors = 0 /\ p \notin sync[s].left
  /\ Parked!Storable(sync[s].got[p])
  /\ ~(sync[s].at = "waiting" /\ sync[s].site = p /\ core[s] # "success")

Engaged(s) == Parked!Running(s) \/ Parked!Serving(s)

LotInv ==
  /\ Parked!TypeOK
  \* Only a sync at work, or one that has just crashed, has a call at core.
  /\ \A s \in Sync :
       /\ sync[s].at \in {"idle", "fetch", "next", "over"} => core[s] = "none"
       /\ sync[s].at = "fetch" => sync[s].left = Site
       /\ logs[s] = "sync_completed" => sync[s].at = "over" /\ sync[s].left = {}
  /\ \A p \in Site : space[p] # None =>
       /\ space[p].status = Parked!Status(space[p].from)
       /\ space[p].available = Parked!Available(space[p].from)
  /\ \A s \in Sync, p \in Site : Told(s, p) =>
       space[p] # None /\ (s = newest => space[p].from = sync[s].got[p])
  /\ newest # None => \A s \in Sync \ {newest} : ~Engaged(s)

LEMMA LotNames ==
  /\ Site # {} /\ None \notin Sync /\ None \notin Parked!Row
  /\ None # "sync_completed" /\ None # "sync_failed" /\ None \notin Parked!Word
  /\ MaxNews \in Nat /\ MaxFaults \in Nat
  /\ \A r \in Report :
       /\ r.word \in Parked!Word \cup {None} /\ r.named \in BOOLEAN /\ r.placed \in BOOLEAN
       /\ {r.all, r.four, r.two, r.rest} \subseteq Parked!Counts
BY HostedAssumption DEF Parked!ParkingAssumption

\* What core derives of a report.
LEMMA LotReports ==
  ASSUME NEW r \in Report
  PROVE  /\ Parked!Total(r) \in Nat /\ Parked!Occupied(r) \in Nat
         /\ Parked!Available(r) \in 0 .. Parked!Total(r) \cup {None}
         /\ Parked!Status(r) \in Parked!Word \cup {"unknown"}
<1>1. \A c \in {r.all, r.four, r.two, r.rest} : c.total \in Nat /\ c.occupied \in Nat
  BY LotNames DEF Parked!Counts
<1>2. Parked!Total(r) \in Nat /\ Parked!Occupied(r) \in Nat
  BY <1>1 DEF Parked!Total, Parked!Occupied, Parked!Or
<1>3. Parked!Available(r) \in 0 .. Parked!Total(r) \cup {None}
  BY <1>2 DEF Parked!Available
<1>4. Parked!Status(r) \in Parked!Word \cup {"unknown"}
  <2>1. CASE r.word = None
    BY <2>1 DEF Parked!Status, Parked!Word
  <2>2. CASE r.word \in Parked!Word
    BY <2>2, LotNames DEF Parked!Status, Parked!Word, Parked!Contained
  <2> QED
    BY <2>1, <2>2, LotNames
<1> QED
  BY <1>2, <1>3, <1>4

LEMMA LotInit == Parked!Init => LotInv
<1> SUFFICES ASSUME Parked!Init PROVE LotInv
  OBVIOUS
<1> USE LotNames
<1>1. /\ \A s \in Sync : sync[s] = Parked!Idle /\ core[s] = "none" /\ logs[s] = None
      /\ Parked!Idle.at = "idle" /\ \A p \in Site : space[p] = None
      /\ newest = None
  BY DEF Parked!Init, Parked!Idle
<1>2. Parked!TypeOK
  BY DEF Parked!Init, Parked!TypeOK
<1> QED
  BY <1>1, <1>2 DEF LotInv, Told

\* A sync that is not idle is a run.
LEMMA LotRuns ==
  ASSUME LotInv, NEW s \in Sync, sync[s].at # "idle"
  PROVE  /\ sync[s] \in Parked!Run /\ sync[s].got \in [Site -> Report]
         /\ sync[s].site \in Site /\ sync[s].left \subseteq Site /\ sync[s].errors \in Nat
BY DEF LotInv, Parked!TypeOK, Parked!Idle, Parked!Run

\* A step of one sync, or of the handler of its call, that stores nothing.
LEMMA LotMoves ==
  ASSUME LotInv, NEW s \in Sync, Parked!TypeOK', UNCHANGED <<space, newest>>,
         \A o \in Sync \ {s} :
           sync'[o] = sync[o] /\ core'[o] = core[o] /\ logs'[o] = logs[o],
         sync'[s].at \in {"idle", "fetch", "next", "over"} => core'[s] = "none",
         sync'[s].at = "fetch" => sync'[s].left = Site,
         logs'[s] = "sync_completed" => sync'[s].at = "over" /\ sync'[s].left = {},
         Engaged(s)' => Engaged(s),
         \A p \in Site : Told(s, p)' =>
           space[p] # None /\ (s = newest => space[p].from = sync'[s].got[p])
  PROVE  LotInv'
<1> USE LotNames
<1>1. ASSUME NEW o \in Sync
      PROVE  /\ sync'[o].at \in {"idle", "fetch", "next", "over"} => core'[o] = "none"
             /\ sync'[o].at = "fetch" => sync'[o].left = Site
             /\ logs'[o] = "sync_completed" => sync'[o].at = "over" /\ sync'[o].left = {}
  BY DEF LotInv
<1>2. ASSUME NEW o \in Sync, NEW p \in Site, Told(o, p)'
      PROVE  space[p] # None /\ (o = newest => space[p].from = sync'[o].got[p])
  <2>1. CASE o = s
    BY <1>2, <2>1
  <2>2. CASE o # s
    <3>1. Told(o, p)
      BY <1>2, <2>2 DEF Told, Parked!Storable
    <3> QED
      BY <2>2, <3>1 DEF LotInv
  <2> QED
    BY <2>1, <2>2
<1>3. ASSUME newest # None, NEW o \in Sync \ {newest} PROVE ~Engaged(o)'
  <2>1. ~Engaged(o)
    BY <1>3 DEF LotInv
  <2>2. CASE o = s
    BY <2>1, <2>2
  <2>3. CASE o # s
    BY <2>1, <2>3 DEF Engaged, Parked!Running, Parked!Serving
  <2> QED
    BY <2>2, <2>3
<1>4. \A p \in Site : space'[p] # None =>
        /\ space'[p].status = Parked!Status(space'[p].from)
        /\ space'[p].available = Parked!Available(space'[p].from)
  BY DEF LotInv
<1> QED
  BY <1>1, <1>2, <1>3, <1>4 DEF LotInv

LEMMA LotSync ==
  ASSUME LotInv, NEW s \in Sync,
         \/ Parked!SyncIntegration(s) \/ Parked!FetchParkingData(s)
         \/ \E p \in Site : Parked!SendSpace(s, p)
         \/ Parked!SpaceAnswered(s) \/ Parked!CompleteSync(s)
  PROVE  LotInv'
<1> USE LotNames
<1>1. /\ sync \in [Sync -> Parked!Run \cup {Parked!Idle}]
      /\ core \in [Sync -> {"none", "queued", "upsert", "success", "error"}]
      /\ logs \in [Sync -> {None, "sync_completed", "sync_failed"}]
      /\ served \in [Site -> Report] /\ faults \in 0 .. MaxFaults
      /\ Parked!AnySite \in Site
  BY DEF LotInv, Parked!TypeOK, Parked!AnySite
<1>2. faults' = faults \/ (faults < MaxFaults /\ faults' = faults + 1)
  BY DEF Parked!SyncIntegration, Parked!FetchParkingData, Parked!SendSpace,
         Parked!SpaceAnswered, Parked!CompleteSync, Parked!Fault
<1>3. UNCHANGED <<integration, served, news, space>> /\ faults' \in 0 .. MaxFaults
  <2>1. faults' \in 0 .. MaxFaults
    BY <1>1, <1>2
  <2> QED
    BY <2>1
       DEF Parked!SyncIntegration, Parked!FetchParkingData, Parked!SendSpace,
           Parked!SpaceAnswered, Parked!CompleteSync
<1>4. CASE Parked!SyncIntegration(s)
  <2>1. sync[s].at = "idle" /\ core'[s] = "none" /\ logs[s] # "sync_completed"
        /\ UNCHANGED core /\ core[s] = "none"
    BY <1>4 DEF Parked!SyncIntegration, Parked!At, LotInv
  <2>2. CASE integration = "active"
    <3> DEFINE r == [at |-> "fetch", got |-> served, left |-> Site, site |-> Parked!AnySite,
                     errors |-> 0]
    <3>1. r \in Parked!Run /\ r.at = "fetch" /\ r.left = Site
      BY <1>1 DEF Parked!Run
    <3>2. /\ sync' = [sync EXCEPT ![s] = r] /\ UNCHANGED logs
          /\ newest' = IF \E o \in Sync : Engaged(o) THEN None ELSE s
      BY <1>4, <2>2 DEF Parked!SyncIntegration, Engaged
    <3> HIDE DEF r
    <3>3. /\ sync'[s] = r /\ \A o \in Sync \ {s} : sync'[o] = sync[o]
          /\ sync' \in [Sync -> Parked!Run \cup {Parked!Idle}]
      BY <1>1, <3>1, <3>2
    <3>4. Parked!TypeOK'
      BY <1>3, <2>1, <3>2, <3>3 DEF LotInv, Parked!TypeOK
    <3>5. ASSUME NEW o \in Sync
          PROVE  /\ sync'[o].at \in {"idle", "fetch", "next", "over"} => core'[o] = "none"
                 /\ sync'[o].at = "fetch" => sync'[o].left = Site
                 /\ logs'[o] = "sync_completed" => sync'[o].at = "over" /\ sync'[o].left = {}
      BY <2>1, <3>1, <3>2, <3>3 DEF LotInv
    <3>6. ASSUME NEW o \in Sync, NEW p \in Site, Told(o, p)'
          PROVE  space[p] # None /\ (o = newest' => space[p].from = sync'[o].got[p])
      <4>1. o # s /\ Told(o, p)
        BY <2>1, <3>1, <3>2, <3>3, <3>6 DEF Told, Parked!Storable
      <4>2. newest' \in {None, s}
        BY <3>2
      <4> QED
        BY <4>1, <4>2, LotNames DEF LotInv
    <3>7. ASSUME newest' # None, NEW o \in Sync \ {newest'} PROVE ~Engaged(o)'
      <4>1. ~Engaged(o) /\ newest' = s
        BY <3>2, <3>7
      <4> QED
        BY <2>1, <3>3, <4>1 DEF Engaged, Parked!Running, Parked!Serving
    <3> QED
      BY <1>3, <3>4, <3>5, <3>6, <3>7 DEF LotInv
  <2>3. CASE integration # "active"
    <3> DEFINE r == [at |-> "over", got |-> served, left |-> {}, site |-> Parked!AnySite,
                     errors |-> 0]
    <3>1. r \in Parked!Run /\ r.at = "over" /\ r.left = {}
      BY <1>1 DEF Parked!Run
    <3>2. sync' = [sync EXCEPT ![s] = r] /\ logs' = [logs EXCEPT ![s] = None]
          /\ UNCHANGED newest
      BY <1>4, <2>3 DEF Parked!SyncIntegration, Parked!End, Parked!At
    <3>3. core' = [core EXCEPT ![s] = "none"]
      BY <1>1, <2>1
    <3> HIDE DEF r
    <3>4. /\ sync'[s] = r /\ core'[s] = "none" /\ logs'[s] = None /\ Parked!TypeOK'
          /\ UNCHANGED <<space, newest>>
          /\ \A o \in Sync \ {s} :
               sync'[o] = sync[o] /\ core'[o] = core[o] /\ logs'[o] = logs[o]
      BY <1>1, <1>3, <3>1, <3>2, <3>3 DEF LotInv, Parked!TypeOK
    <3>5. ~Engaged(s)' /\ \A p \in Site : ~Told(s, p)'
      BY <3>1, <3>4 DEF Engaged, Parked!Running, Parked!Serving, Told
    <3> QED
      BY <3>1, <3>4, <3>5, LotMoves
  <2> QED
    BY <2>2, <2>3
<1>5. CASE Parked!FetchParkingData(s)
  <2>1. /\ sync[s].at = "fetch" /\ core[s] = "none" /\ UNCHANGED <<core, newest>>
        /\ logs[s] # "sync_completed" /\ sync[s].left = Site /\ Engaged(s)
    BY <1>5 DEF Parked!FetchParkingData, Parked!At, LotInv, Engaged, Parked!Running
  <2>2. sync[s] \in Parked!Run
    BY <2>1, LotRuns
  <2>3. core' = [core EXCEPT ![s] = "none"]
    BY <1>1, <2>1
  <2>4. CASE sync' = [sync EXCEPT ![s].at = "next", ![s].got = served] /\ UNCHANGED logs
    <3> DEFINE r1 == [sync[s] EXCEPT !.at = "next"]
               r == [r1 EXCEPT !.got = served]
    <3>1. r1 \in Parked!Run /\ r1.at = "next" /\ r1.left = Site
      BY <2>1, <2>2 DEF Parked!Run
    <3>2. sync' = [sync EXCEPT ![s] = r]
      BY <1>1, <2>4
    <3> HIDE DEF r1
    <3>3. r \in Parked!Run /\ r.at = "next" /\ r.left = Site
      BY <1>1, <3>1 DEF Parked!Run
    <3> HIDE DEF r
    <3>4. logs' = [logs EXCEPT ![s] = logs[s]]
      BY <1>1, <2>4
    <3>5. /\ sync'[s] = r /\ core'[s] = "none" /\ logs'[s] = logs[s] /\ Parked!TypeOK'
          /\ UNCHANGED <<space, newest>>
          /\ \A o \in Sync \ {s} :
               sync'[o] = sync[o] /\ core'[o] = core[o] /\ logs'[o] = logs[o]
      BY <1>1, <1>3, <2>1, <2>3, <3>2, <3>3, <3>4 DEF LotInv, Parked!TypeOK
    <3>6. \A p \in Site : ~Told(s, p)'
      BY <3>3, <3>5 DEF Told
    <3> QED
      BY <2>1, <3>3, <3>5, <3>6, LotMoves
  <2>5. CASE Parked!End(s, "sync_failed")
    <3> DEFINE r == [sync[s] EXCEPT !.at = "over"]
    <3>1. r \in Parked!Run /\ r.at = "over"
      BY <2>2 DEF Parked!Run
    <3>2. sync' = [sync EXCEPT ![s] = r] /\ logs' = [logs EXCEPT ![s] = "sync_failed"]
      BY <2>1, <2>5 DEF Parked!End, Parked!At
    <3> HIDE DEF r
    <3>3. /\ sync'[s] = r /\ core'[s] = "none" /\ logs'[s] = "sync_failed" /\ Parked!TypeOK'
          /\ UNCHANGED <<space, newest>>
          /\ \A o \in Sync \ {s} :
               sync'[o] = sync[o] /\ core'[o] = core[o] /\ logs'[o] = logs[o]
      BY <1>1, <1>3, <2>1, <2>3, <3>1, <3>2 DEF LotInv, Parked!TypeOK
    <3>4. \A p \in Site : ~Told(s, p)'
      BY <3>1, <3>3 DEF Told
    <3> QED
      BY <2>1, <3>1, <3>3, <3>4, LotMoves
  <2> QED
    BY <1>5, <2>4, <2>5 DEF Parked!FetchParkingData
<1>6. ASSUME NEW p \in Site, Parked!SendSpace(s, p) PROVE LotInv'
  <2>1. /\ sync[s].at = "next" /\ UNCHANGED <<logs, newest>> /\ Engaged(s)
        /\ logs[s] # "sync_completed" /\ core' = [core EXCEPT ![s] = "queued"]
    BY <1>6 DEF Parked!SendSpace, Parked!At, LotInv, Engaged, Parked!Running
  <2>2. sync[s] \in Parked!Run /\ sync[s].left \subseteq Site
    BY <2>1, LotRuns
  <2> DEFINE r1 == [sync[s] EXCEPT !.at = "waiting"]
             r2 == [r1 EXCEPT !.site = p]
             r == [r2 EXCEPT !.left = sync[s].left \ {p}]
  <2>3. sync' = [sync EXCEPT ![s] = r]
    BY <1>1, <1>6, <2>2 DEF Parked!SendSpace, Parked!Run
  <2>4. r1 \in Parked!Run /\ r1.at = "waiting" /\ r1.got = sync[s].got
        /\ r1.errors = sync[s].errors
    BY <2>2 DEF Parked!Run
  <2> HIDE DEF r1
  <2>5. r2 \in Parked!Run /\ r2.at = "waiting" /\ r2.got = sync[s].got
        /\ r2.errors = sync[s].errors /\ r2.site = p
    BY <2>4 DEF Parked!Run
  <2> HIDE DEF r2
  <2>6. r \in Parked!Run /\ r.at = "waiting" /\ r.got = sync[s].got
        /\ r.errors = sync[s].errors /\ r.site = p /\ r.left = sync[s].left \ {p}
    BY <2>2, <2>5 DEF Parked!Run
  <2> HIDE DEF r
  <2>7. logs' = [logs EXCEPT ![s] = logs[s]] /\ logs[s] \in {None, "sync_failed"}
    BY <1>1, <2>1
  <2>8. /\ sync'[s] = r /\ core'[s] = "queued" /\ logs'[s] = logs[s] /\ Parked!TypeOK'
        /\ UNCHANGED <<space, newest>>
        /\ \A o \in Sync \ {s} :
             sync'[o] = sync[o] /\ core'[o] = core[o] /\ logs'[o] = logs[o]
    BY <1>1, <1>3, <2>1, <2>3, <2>6, <2>7 DEF LotInv, Parked!TypeOK
  <2>9. ASSUME NEW q \in Site, Told(s, q)'
        PROVE  space[q] # None /\ (s = newest => space[q].from = sync'[s].got[q])
    <3>1. p # q /\ r.errors = 0 /\ q \notin r.left /\ Parked!Storable(r.got[q])
      BY <2>6, <2>8, <2>9 DEF Told, Parked!Storable
    <3>2. Told(s, q)
      BY <2>1, <2>6, <3>1 DEF Told
    <3> QED
      BY <2>6, <2>8, <3>2 DEF LotInv
  <2> QED
    BY <2>1, <2>6, <2>8, <2>9, LotMoves
<1>7. CASE Parked!SpaceAnswered(s)
  <2>1. /\ sync[s].at = "waiting" /\ UNCHANGED <<logs, newest>> /\ Engaged(s)
        /\ core[s] \in {"success", "error"}
        /\ logs[s] # "sync_completed" /\ core' = [core EXCEPT ![s] = "none"]
    BY <1>7 DEF Parked!SpaceAnswered, Parked!At, LotInv, Engaged, Parked!Running
  <2>2. sync[s] \in Parked!Run /\ sync[s].errors \in Nat
    BY <2>1, LotRuns
  <2> DEFINE n == IF core[s] = "error" THEN sync[s].errors + 1 ELSE sync[s].errors
             r1 == [sync[s] EXCEPT !.at = "next"]
             r == [r1 EXCEPT !.errors = n]
  <2>3. n \in Nat /\ (n = 0 => core[s] = "success" /\ sync[s].errors = 0)
    BY <2>1, <2>2
  <2>4. sync' = [sync EXCEPT ![s] = r]
    BY <1>1, <1>7, <2>2 DEF Parked!SpaceAnswered, Parked!Run
  <2>5. r1 \in Parked!Run /\ r1.at = "next" /\ r1.got = sync[s].got /\ r1.left = sync[s].left
    BY <2>2 DEF Parked!Run
  <2> HIDE DEF r1, n
  <2>6. r \in Parked!Run /\ r.at = "next" /\ r.got = sync[s].got /\ r.left = sync[s].left
        /\ r.errors = n
    BY <2>3, <2>5 DEF Parked!Run
  <2> HIDE DEF r
  <2>7. logs' = [logs EXCEPT ![s] = logs[s]] /\ logs[s] \in {None, "sync_failed"}
    BY <1>1, <2>1
  <2>8. /\ sync'[s] = r /\ core'[s] = "none" /\ logs'[s] = logs[s] /\ Parked!TypeOK'
        /\ UNCHANGED <<space, newest>>
        /\ \A o \in Sync \ {s} :
             sync'[o] = sync[o] /\ core'[o] = core[o] /\ logs'[o] = logs[o]
    BY <1>1, <1>3, <2>1, <2>4, <2>6, <2>7 DEF LotInv, Parked!TypeOK
  <2>9. ASSUME NEW q \in Site, Told(s, q)'
        PROVE  space[q] # None /\ (s = newest => space[q].from = sync'[s].got[q])
    <3>1. r.errors = 0 /\ q \notin r.left /\ Parked!Storable(r.got[q])
      BY <2>6, <2>8, <2>9 DEF Told, Parked!Storable
    <3>2. Told(s, q)
      BY <2>1, <2>3, <2>6, <3>1 DEF Told
    <3> QED
      BY <2>6, <2>8, <3>2 DEF LotInv
  <2> QED
    BY <2>1, <2>6, <2>8, <2>9, LotMoves
<1>8. CASE Parked!CompleteSync(s)
  <2>1. /\ sync[s].at = "next" /\ sync[s].left = {} /\ UNCHANGED <<core, newest>>
        /\ core[s] = "none"
        /\ Parked!End(s, "sync_completed") \/ Parked!End(s, "sync_failed")
    BY <1>8 DEF Parked!CompleteSync, Parked!At, LotInv
  <2>2. sync[s] \in Parked!Run
    BY <2>1, LotRuns
  <2> DEFINE r == [sync[s] EXCEPT !.at = "over"]
  <2>3. r \in Parked!Run /\ r.at = "over" /\ r.got = sync[s].got /\ r.left = {}
        /\ r.errors = sync[s].errors
    BY <2>1, <2>2 DEF Parked!Run
  <2>4. sync' = [sync EXCEPT ![s] = r]
    BY <2>1 DEF Parked!End, Parked!At
  <2> HIDE DEF r
  <2>5. core' = [core EXCEPT ![s] = "none"]
    BY <1>1, <2>1
  <2>6. PICK l \in {"sync_completed", "sync_failed"} : logs' = [logs EXCEPT ![s] = l]
    BY <2>1 DEF Parked!End
  <2>7. /\ sync'[s] = r /\ core'[s] = "none" /\ logs'[s] = l /\ Parked!TypeOK'
        /\ UNCHANGED <<space, newest>>
        /\ \A o \in Sync \ {s} :
             sync'[o] = sync[o] /\ core'[o] = core[o] /\ logs'[o] = logs[o]
    BY <1>1, <1>3, <2>1, <2>3, <2>4, <2>5, <2>6 DEF LotInv, Parked!TypeOK
  <2>8. ASSUME NEW q \in Site, Told(s, q)'
        PROVE  space[q] # None /\ (s = newest => space[q].from = sync'[s].got[q])
    <3>1. r.errors = 0 /\ Parked!Storable(r.got[q])
      BY <2>3, <2>7, <2>8 DEF Told, Parked!Storable
    <3>2. Told(s, q)
      BY <2>1, <2>3, <3>1 DEF Told
    <3> QED
      BY <2>3, <2>7, <3>2 DEF LotInv
  <2>9. ~Engaged(s)'
    BY <2>3, <2>7 DEF Engaged, Parked!Running, Parked!Serving
  <2> QED
    BY <2>1, <2>3, <2>7, <2>8, <2>9, LotMoves
<1> QED
  BY <1>4, <1>5, <1>6, <1>7, <1>8

\* A report that does not fit, or an error, stores nothing; else the row.
LEMMA LotStored ==
  ASSUME LotInv, NEW s \in Sync, Parked!Serving(s)
  PROVE  /\ sync[s] \in Parked!Run /\ sync[s].site \in Site
         /\ Parked!Reported(s) \in Report /\ Parked!Reported(s) = sync[s].got[sync[s].site]
         /\ \/ Parked!Stored(s) = space /\ ~Parked!Fits(Parked!Reported(s))
            \/ /\ Parked!Fits(Parked!Reported(s))
               /\ \E row \in Parked!Row :
                    /\ Parked!Stored(s) = [space EXCEPT ![sync[s].site] = row]
                    /\ row.status = Parked!Status(row.from)
                    /\ row.available = Parked!Available(row.from)
                    /\ row.from = Parked!Reported(s)
<1> DEFINE r == Parked!Reported(s)
           row == [status |-> Parked!Status(r), available |-> Parked!Available(r), from |-> r]
<1>1. sync[s].at # "idle"
  BY DEF LotInv, Parked!Serving
<1>2. sync[s] \in Parked!Run /\ sync[s].site \in Site /\ r \in Report
  BY <1>1, LotRuns DEF Parked!Reported
<1>3. row \in Parked!Row
  <2>1. 0 .. Parked!Total(r) \subseteq Nat
    BY <1>2, LotReports
  <2> QED
    BY <1>2, <2>1, LotReports DEF Parked!Row
<1>4. Parked!Stored(s) = IF Parked!Fits(r) THEN [space EXCEPT ![sync[s].site] = row] ELSE space
  BY DEF Parked!Stored
<1>5. /\ row.status = Parked!Status(row.from) /\ row.available = Parked!Available(row.from)
      /\ row.from = r
  OBVIOUS
<1> HIDE DEF row
<1> QED
  BY <1>2, <1>3, <1>4, <1>5 DEF Parked!Reported

LEMMA LotTakes ==
  ASSUME LotInv, NEW s \in Sync, Parked!TakeSpace(s)
  PROVE  LotInv'
<1>1. /\ core[s] = "queued" /\ Parked!Serving(s) /\ Engaged(s)
      /\ UNCHANGED <<integration, served, news, sync, space, logs, faults, newest>>
      /\ core' = [core EXCEPT ![s] = IF Parked!Storable(Parked!Reported(s))
                                     THEN "upsert" ELSE "success"]
  BY DEF Parked!TakeSpace, Parked!Become, Parked!Serving, Engaged
<1>2. /\ core \in [Sync -> {"none", "queued", "upsert", "success", "error"}]
      /\ sync[s].at \notin {"idle", "fetch", "next", "over"}
      /\ logs[s] = "sync_completed" => sync[s].at = "over" /\ sync[s].left = {}
  BY <1>1 DEF LotInv, Parked!TypeOK
<1>3. /\ core'[s] \in {"upsert", "success"} /\ \A o \in Sync \ {s} : core'[o] = core[o]
      /\ core'[s] = "success" => ~Parked!Storable(Parked!Reported(s))
  BY <1>1, <1>2
<1>4. Parked!TypeOK'
  BY <1>1, <1>2, <1>3 DEF LotInv, Parked!TypeOK
<1>5. ASSUME NEW p \in Site, Told(s, p)'
      PROVE  space[p] # None /\ (s = newest => space[p].from = sync[s].got[p])
  <2>1. Told(s, p)
    BY <1>1, <1>3, <1>5 DEF Told, Parked!Storable, Parked!Reported
  <2> QED
    BY <2>1 DEF LotInv
<1> QED
  BY <1>1, <1>2, <1>3, <1>4, <1>5, LotMoves

\* What the handler of a call stores, or fails to.
LEMMA LotStores ==
  ASSUME LotInv, NEW s \in Sync, NEW c \in {"success", "error"}, core[s] = "upsert",
         core' = [core EXCEPT ![s] = c], space' \in {space, Parked!Stored(s)},
         c = "success" => Parked!Fits(Parked!Reported(s)) /\ space' = Parked!Stored(s),
         UNCHANGED <<integration, served, news, sync, logs, newest>>, faults' \in 0 .. MaxFaults
  PROVE  LotInv'
<1> USE LotNames
<1> DEFINE site == sync[s].site
           r == Parked!Reported(s)
<1>1. Parked!Serving(s) /\ Engaged(s)
  BY DEF Parked!Serving, Engaged
<1>2. sync[s] \in Parked!Run /\ site \in Site /\ r \in Report /\ r = sync[s].got[site]
  BY <1>1, LotStored
<1>3. /\ core \in [Sync -> {"none", "queued", "upsert", "success", "error"}]
      /\ space \in [Site -> Parked!Row \cup {None}]
      /\ sync[s].at \notin {"idle", "fetch", "next", "over"}
      /\ logs[s] # "sync_completed"
  BY DEF LotInv, Parked!TypeOK
<1>4. /\ core'[s] = c /\ \A o \in Sync \ {s} : core'[o] = core[o]
      /\ core' \in [Sync -> {"none", "queued", "upsert", "success", "error"}]
  BY <1>3
<1>5. \/ space' = space /\ c = "error"
      \/ \E row \in Parked!Row :
           /\ space' = [space EXCEPT ![site] = row] /\ row.from = r
           /\ row.status = Parked!Status(row.from)
           /\ row.available = Parked!Available(row.from)
  BY <1>1, LotStored
<1> HIDE DEF site, r
<1>6. /\ space' \in [Site -> Parked!Row \cup {None}]
      /\ \A p \in Site \ {site} : space'[p] = space[p]
      /\ \/ space'[site] = space[site] /\ c = "error"
         \/ /\ space'[site] # None /\ space'[site].from = r
            /\ space'[site].status = Parked!Status(space'[site].from)
            /\ space'[site].available = Parked!Available(space'[site].from)
  <2>1. CASE space' = space /\ c = "error"
    BY <1>3, <2>1
  <2>2. CASE \E row \in Parked!Row :
               /\ space' = [space EXCEPT ![site] = row] /\ row.from = r
               /\ row.status = Parked!Status(row.from)
               /\ row.available = Parked!Available(row.from)
    <3>1. PICK row \in Parked!Row :
               /\ space' = [space EXCEPT ![site] = row] /\ row.from = r
               /\ row.status = Parked!Status(row.from)
               /\ row.available = Parked!Available(row.from)
      BY <2>2
    <3>2. space'[site] = row /\ row # None
      BY <1>2, <1>3, <3>1
    <3> QED
      BY <1>2, <1>3, <3>1, <3>2
  <2> QED
    BY <1>5, <2>1, <2>2
<1>7. Parked!TypeOK'
  BY <1>4, <1>6 DEF LotInv, Parked!TypeOK
<1>8. ASSUME NEW o \in Sync
      PROVE  /\ sync'[o].at \in {"idle", "fetch", "next", "over"} => core'[o] = "none"
             /\ sync'[o].at = "fetch" => sync'[o].left = Site
             /\ logs'[o] = "sync_completed" => sync'[o].at = "over" /\ sync'[o].left = {}
  BY <1>3, <1>4 DEF LotInv
<1>9. ASSUME NEW p \in Site, space'[p] # None
      PROVE  /\ space'[p].status = Parked!Status(space'[p].from)
             /\ space'[p].available = Parked!Available(space'[p].from)
  <2>1. space'[p] = space[p] \/ p = site
    BY <1>6
  <2> QED
    BY <1>6, <1>9, <2>1 DEF LotInv
<1>10. ASSUME newest # None, NEW o \in Sync \ {newest} PROVE ~Engaged(o)'
  <2>1. ~Engaged(o) /\ o # s
    BY <1>1, <1>10 DEF LotInv
  <2> QED
    BY <1>4, <2>1 DEF Engaged, Parked!Running, Parked!Serving
<1>11. ASSUME NEW o \in Sync, NEW p \in Site, Told(o, p)'
       PROVE  space'[p] # None /\ (o = newest => space'[p].from = sync[o].got[p])
  <2>1. CASE o = s
    <3>1. CASE p = site
      <4>1. Told(s, p) \/ c = "success"
        BY <1>4, <1>11, <2>1, <3>1 DEF Told, Parked!Storable, site
      <4>2. Told(s, p) => space[p] # None /\ (s = newest => space[p].from = sync[s].got[p])
        BY DEF LotInv
      <4> QED
        BY <1>2, <1>6, <2>1, <3>1, <4>1, <4>2
    <3>2. CASE p # site
      <4>1. Told(s, p)
        BY <1>3, <1>4, <1>11, <2>1, <3>2 DEF Told, Parked!Storable, site
      <4> QED
        BY <1>6, <2>1, <3>2, <4>1 DEF LotInv
    <3> QED
      BY <3>1, <3>2
  <2>2. CASE o # s
    <3>1. Told(o, p)
      BY <1>4, <1>11, <2>2 DEF Told, Parked!Storable
    <3>2. o # newest
      BY <1>1, <2>2, LotNames DEF LotInv
    <3>3. space[p] # None
      BY <3>1 DEF LotInv
    <3> QED
      BY <1>6, <3>2, <3>3
  <2> QED
    BY <2>1, <2>2
<1> QED
  BY <1>7, <1>8, <1>9, <1>10, <1>11 DEF LotInv

LEMMA LotUpserts ==
  ASSUME LotInv, NEW s \in Sync, Parked!StoreSpace(s) \/ Parked!StoreFails(s)
  PROVE  LotInv'
<1>1. faults \in 0 .. MaxFaults /\ MaxFaults \in Nat
  BY LotNames DEF LotInv, Parked!TypeOK
<1>2. CASE Parked!StoreSpace(s)
  <2> DEFINE c == IF Parked!Fits(Parked!Reported(s)) THEN "success" ELSE "error"
  <2>1. /\ core[s] = "upsert" /\ core' = [core EXCEPT ![s] = c] /\ space' = Parked!Stored(s)
        /\ UNCHANGED <<integration, served, news, sync, logs, newest>>
        /\ faults' \in 0 .. MaxFaults
    BY <1>1, <1>2 DEF Parked!StoreSpace, Parked!Become
  <2>2. c \in {"success", "error"} /\ (c = "success" => Parked!Fits(Parked!Reported(s)))
    OBVIOUS
  <2> HIDE DEF c
  <2> QED
    BY <2>1, <2>2, LotStores
<1>3. CASE Parked!StoreFails(s)
  <2>1. faults < MaxFaults /\ faults' = faults + 1
    BY <1>3 DEF Parked!StoreFails, Parked!Fault
  <2>2. faults' \in 0 .. MaxFaults
    BY <1>1, <2>1
  <2>3. /\ core[s] = "upsert" /\ core' = [core EXCEPT ![s] = "error"]
        /\ space' \in {space, Parked!Stored(s)}
        /\ UNCHANGED <<integration, served, news, sync, logs, newest>>
    BY <1>3 DEF Parked!StoreFails, Parked!Become
  <2>4. "error" \in {"success", "error"} /\ "error" # "success"
    OBVIOUS
  <2> QED
    BY <2>2, <2>3, <2>4, LotStores
<1> QED
  BY <1>2, <1>3

\* A step that stores nothing, starts nothing and takes nothing on.
LEMMA LotLapses ==
  ASSUME LotInv, Parked!TypeOK', UNCHANGED <<space, newest>>,
         \A s \in Sync :
           /\ logs'[s] = logs[s] /\ (Engaged(s)' => Engaged(s))
           /\ sync'[s] = sync[s] \/ (sync'[s].at = "dead" /\ logs[s] # "sync_completed")
           /\ core'[s] = core[s] \/ (core'[s] = "none" /\ core[s] # "success")
  PROVE  LotInv'
<1>1. ASSUME NEW o \in Sync
      PROVE  /\ sync'[o].at \in {"idle", "fetch", "next", "over"} => core'[o] = "none"
             /\ sync'[o].at = "fetch" => sync'[o].left = Site
             /\ logs'[o] = "sync_completed" => sync'[o].at = "over" /\ sync'[o].left = {}
  BY DEF LotInv
<1>2. ASSUME NEW o \in Sync, NEW p \in Site, Told(o, p)'
      PROVE  space[p] # None /\ (o = newest => space[p].from = sync'[o].got[p])
  <2>1. sync'[o] = sync[o]
    BY <1>2 DEF Told
  <2>2. Told(o, p)
    BY <1>2, <2>1 DEF Told, Parked!Storable
  <2> QED
    BY <2>1, <2>2 DEF LotInv
<1>3. ASSUME newest # None, NEW o \in Sync \ {newest} PROVE ~Engaged(o)'
  BY <1>3 DEF LotInv
<1>4. \A p \in Site : space'[p] # None =>
        /\ space'[p].status = Parked!Status(space'[p].from)
        /\ space'[p].available = Parked!Available(space'[p].from)
  BY DEF LotInv
<1> QED
  BY <1>1, <1>2, <1>3, <1>4 DEF LotInv

LEMMA LotStep == LotInv /\ [Parked!Next]_(Parked!parkingVars) => LotInv'
<1> SUFFICES ASSUME LotInv, [Parked!Next]_(Parked!parkingVars) PROVE LotInv'
  OBVIOUS
<1> USE LotNames
<1>1. /\ sync \in [Sync -> Parked!Run \cup {Parked!Idle}]
      /\ core \in [Sync -> {"none", "queued", "upsert", "success", "error"}]
      /\ faults \in 0 .. MaxFaults /\ news \in 0 .. MaxNews
      /\ served \in [Site -> Report]
  BY DEF LotInv, Parked!TypeOK
<1>2. ASSUME NEW p \in Site, NEW r \in Report, Parked!News(p, r) PROVE LotInv'
  <2>1. UNCHANGED <<integration, sync, core, space, logs, faults, newest>>
    BY <1>2 DEF Parked!News
  <2>2. news' \in 0 .. MaxNews
    BY <1>1, <1>2 DEF Parked!News
  <2>3. served' \in [Site -> Report]
    BY <1>1, <1>2 DEF Parked!News
  <2>4. Parked!TypeOK'
    BY <2>1, <2>2, <2>3 DEF LotInv, Parked!TypeOK
  <2> QED
    BY <2>1, <2>4, LotLapses DEF Engaged, Parked!Running, Parked!Serving
<1>3. CASE Parked!IntegrationCrash
  <2>1. /\ UNCHANGED <<integration, served, news, core, space, logs, newest>>
        /\ sync' = [s \in Sync |-> IF Parked!Running(s) THEN [sync[s] EXCEPT !.at = "dead"]
                                   ELSE sync[s]]
    BY <1>3 DEF Parked!IntegrationCrash
  <2>2. faults' \in 0 .. MaxFaults
    BY <1>1, <1>3 DEF Parked!IntegrationCrash, Parked!Fault
  <2>3. ASSUME NEW s \in Sync
        PROVE  \/ sync'[s] = sync[s] /\ ~Parked!Running(s)
               \/ /\ sync'[s] \in Parked!Run /\ sync'[s].at = "dead"
                  /\ logs[s] # "sync_completed"
    <3>1. CASE Parked!Running(s)
      <4> DEFINE r == [sync[s] EXCEPT !.at = "dead"]
      <4>1. sync[s] \in Parked!Run /\ logs[s] # "sync_completed"
        BY <3>1, LotRuns DEF LotInv, Parked!Running
      <4>2. r \in Parked!Run /\ r.at = "dead"
        BY <4>1 DEF Parked!Run
      <4>3. sync'[s] = r
        BY <2>1, <3>1
      <4> QED
        BY <4>1, <4>2, <4>3
    <3>2. CASE ~Parked!Running(s)
      BY <2>1, <3>2
    <3> QED
      BY <3>1, <3>2
  <2>4. sync' \in [Sync -> Parked!Run \cup {Parked!Idle}]
    <3>1. \A s \in Sync : sync'[s] \in Parked!Run \cup {Parked!Idle}
      BY <1>1, <2>3
    <3> QED
      BY <2>1, <3>1
  <2>5. Parked!TypeOK'
    BY <2>1, <2>2, <2>4 DEF LotInv, Parked!TypeOK
  <2>6. \A s \in Sync : Engaged(s)' => Engaged(s)
    BY <2>1, <2>3 DEF Engaged, Parked!Running, Parked!Serving
  <2> QED
    BY <2>1, <2>3, <2>5, <2>6, LotLapses
<1>4. CASE Parked!CoreCrash
  <2>1. UNCHANGED <<integration, served, news, sync, space, logs, newest>>
    BY <1>4 DEF Parked!CoreCrash
  <2>2. PICK lost \in SUBSET {s \in Sync : core[s] = "queued"} :
          core' = [s \in Sync |-> IF core[s] = "upsert" \/ s \in lost THEN "none" ELSE core[s]]
    BY <1>4 DEF Parked!CoreCrash
  <2>3. faults' \in 0 .. MaxFaults
    BY <1>1, <1>4 DEF Parked!CoreCrash, Parked!Fault
  <2>4. \A s \in Sync : core'[s] = core[s] \/ (core'[s] = "none" /\ core[s] # "success")
    BY <2>2
  <2>5. core' \in [Sync -> {"none", "queued", "upsert", "success", "error"}]
    BY <1>1, <2>2
  <2>6. Parked!TypeOK'
    BY <2>1, <2>3, <2>5 DEF LotInv, Parked!TypeOK
  <2>7. \A s \in Sync : Engaged(s)' => Engaged(s)
    BY <2>1, <2>4 DEF Engaged, Parked!Running, Parked!Serving
  <2> QED
    BY <2>1, <2>4, <2>6, <2>7, LotLapses
<1>5. CASE UNCHANGED Parked!parkingVars
  <2>1. UNCHANGED <<integration, served, news, sync, core, space, logs, faults, newest>>
    BY <1>5 DEF Parked!parkingVars
  <2>2. Parked!TypeOK'
    BY <2>1 DEF LotInv, Parked!TypeOK
  <2> QED
    BY <2>1, <2>2, LotLapses DEF Engaged, Parked!Running, Parked!Serving
<1> QED
  BY <1>2, <1>3, <1>4, <1>5, LotSync, LotTakes, LotUpserts DEF Parked!Next

LEMMA LotsAsReported == LotInv => Parked!SpacesAsReported
<1> SUFFICES ASSUME LotInv PROVE Parked!SpacesAsReported
  OBVIOUS
<1> USE LotNames
<1>1. ASSUME NEW s \in Sync, logs[s] = "sync_completed", sync[s].errors = 0,
             NEW p \in Site, Parked!Storable(sync[s].got[p])
      PROVE  space[p] # None /\ (s = newest => space[p].from = sync[s].got[p])
  <2>1. Told(s, p)
    BY <1>1 DEF LotInv, Told
  <2> QED
    BY <2>1 DEF LotInv
<1>2. newest \in Sync \cup {None} /\ space \in [Site -> Parked!Row \cup {None}]
  BY DEF LotInv, Parked!TypeOK
<1>3. ASSUME NEW p \in Site, space[p] # None
      PROVE  /\ space[p].from.word = None /\ Parked!Sane(space[p].from)
                /\ ~Parked!HasFree(space[p].from) => space[p].status # "open"
             /\ space[p].available \in 0 .. Parked!Total(space[p].from) \cup {None}
  <2> DEFINE r == space[p].from
  <2>1. r \in Report
    BY <1>2, <1>3 DEF Parked!Row
  <2>2. space[p].status = Parked!Status(r) /\ space[p].available = Parked!Available(r)
    BY <1>3 DEF LotInv
  <2> HIDE DEF r
  <2>3. ASSUME r.word = None, Parked!Sane(r), ~Parked!HasFree(r)
        PROVE  Parked!Status(r) # "open"
    <3>1. \A c \in {r.all, r.four, r.two, r.rest} :
            c.total \in Nat /\ c.occupied \in Nat /\ c.occupied = c.total
      <4>1. \A c \in {r.all, r.four, r.two, r.rest} :
              /\ c.total \in Nat /\ c.occupied \in Nat
              /\ c.occupied <= c.total /\ ~(c.occupied < c.total)
        BY <2>1, <2>3 DEF Parked!Counts, Parked!Sane, Parked!HasFree, Parked!Kinds
      <4> QED
        BY <4>1
    <3>2. Parked!Occupied(r) = Parked!Total(r) /\ Parked!Total(r) \in Nat
      BY <3>1 DEF Parked!Occupied, Parked!Total, Parked!Or
    <3>3. Parked!Total(r) # 0 => Parked!Available(r) = 0
      BY <3>2 DEF Parked!Available
    <3> QED
      BY <2>3, <3>3 DEF Parked!Status
  <2> QED
    BY <2>1, <2>2, <2>3, LotReports DEF r
<1> QED
  BY <1>1, <1>2, <1>3
     DEF Parked!SpacesAsReported, Parked!NoErrorMeansStored, Parked!LoneSyncIsCurrent,
         Parked!StatusMatchesCounts

-----------------------------------------------------------------------------
(* Images *)

Pics  == Stored!AllKeys
Meds  == Stored!AllMediaKeys
Addr(k) == Stored!PublicUrl(k)

LEMMA FileNames ==
  /\ Size \subseteq Nat /\ MaxFiles \in Nat /\ MaxTime \in Nat /\ VirtualHosted \in BOOLEAN
  /\ None \notin Pics /\ None \notin Meds /\ None \notin Stored!Address
BY HostedAssumption DEF Stored!ImagesAssumption, Pics, Meds

LEMMA PicShape ==
  /\ \A k \in Pics : \E f \in Stored!Folder, o \in Owner :
       \E n \in Stored!Pictures[f] : k = <<f, o, n>>
  /\ \A f \in Stored!Folder, o \in Owner : \A n \in Stored!Pictures[f] : <<f, o, n>> \in Pics
BY DEF Pics, Stored!AllKeys

LEMMA MedShape ==
  /\ \A k \in Meds : \E o \in Owner, time \in 0 .. MaxTime, i \in 0 .. (MaxFiles - 1) :
       k = <<"listings", o, "media", time, i>>
BY DEF Meds, Stored!AllMediaKeys, Stored!MediaKey

LEMMA KeysApart == \A k \in Pics, m \in Meds : k # m
<1>1. \A f, o, n : Len(<<f, o, n>>) = 3
  OBVIOUS
<1>2. \A o, t, i : Len(<<"listings", o, "media", t, i>>) = 5
  OBVIOUS
<1> QED
  BY <1>1, <1>2, PicShape, MedShape

Segment == {Bucket, "listings", "media"} \cup Stored!Folder \cup Owner
           \cup (UNION {Stored!Pictures[f] : f \in Stored!Folder}) \cup Nat

LEMMA KeySeqs == \A k \in Pics \cup Meds : k \in Seq(Segment) /\ Len(k) \in {3, 5}
<1>1. ASSUME NEW k \in Pics PROVE k \in Seq(Segment) /\ Len(k) = 3
  <2>1. PICK f \in Stored!Folder, o \in Owner : \E n \in Stored!Pictures[f] : k = <<f, o, n>>
    BY <1>1, PicShape
  <2>2. PICK n \in Stored!Pictures[f] : k = <<f, o, n>>
    BY <2>1
  <2>3. f \in Segment /\ o \in Segment /\ n \in Segment
    BY DEF Segment
  <2> HIDE DEF Segment
  <2> QED
    BY <2>2, <2>3
<1>2. ASSUME NEW k \in Meds PROVE k \in Seq(Segment) /\ Len(k) = 5
  <2>1. PICK o \in Owner, time \in 0 .. MaxTime, i \in 0 .. (MaxFiles - 1) :
       k = <<"listings", o, "media", time, i>>
    BY <1>2, MedShape
  <2>2. time \in Segment /\ i \in Segment /\ o \in Segment /\ "listings" \in Segment
        /\ "media" \in Segment
    BY FileNames DEF Segment
  <2> HIDE DEF Segment
  <2> QED
    BY <2>1, <2>2
<1> QED
  BY <1>1, <1>2

LEMMA AddrTaken ==
  \A k \in Pics \cup Meds :
    /\ ~VirtualHosted => Stored!ExtractKey(Addr(k)) = k
    /\ VirtualHosted => Stored!ExtractKey(Addr(k)) \notin Pics \cup Meds
<1> SUFFICES ASSUME NEW k \in Pics \cup Meds
             PROVE  /\ ~VirtualHosted => Stored!ExtractKey(Addr(k)) = k
                    /\ VirtualHosted => Stored!ExtractKey(Addr(k)) \notin Pics \cup Meds
  OBVIOUS
<1>1. k \in Seq(Segment) /\ Len(k) \in {3, 5}
  BY KeySeqs
<1>2. CASE VirtualHosted
  <2>1. Stored!ExtractKey(Addr(k)) = Tail(k)
    BY <1>2 DEF Stored!ExtractKey, Addr, Stored!PublicUrl
  <2>2. Len(Tail(k)) = Len(k) - 1
    BY <1>1
  <2>3. Len(Stored!ExtractKey(Addr(k))) \notin {3, 5}
    <3>1. Len(Tail(k)) \notin {3, 5}
      <4>1. CASE Len(k) = 3
        BY <2>2, <4>1
      <4>2. CASE Len(k) = 5
        <5>1. Len(Tail(k)) = 4
          BY <2>2, <4>2
        <5>2. 4 # 3 /\ 4 # 5
          OBVIOUS
        <5> QED
          BY <5>1, <5>2
      <4> QED
        BY <1>1, <4>1, <4>2
    <3> QED
      BY <2>1, <3>1
  <2> QED
    BY <1>2, <2>3, KeySeqs
<1>3. CASE ~VirtualHosted
  <2>1. Stored!ExtractKey(Addr(k)) = Tail(<<Bucket>> \o k)
    BY <1>3 DEF Stored!ExtractKey, Addr, Stored!PublicUrl
  <2>2. <<Bucket>> \in Seq(Segment)
    BY DEF Segment
  <2> DEFINE u == <<Bucket>> \o k
  <2>3. u \in Seq(Segment) /\ Len(u) = Len(k) + 1
        /\ \A i \in 2 .. Len(u) : u[i] = k[i - 1]
    <3>1. /\ u \in Seq(Segment) /\ Len(u) = Len(<<Bucket>>) + Len(k)
          /\ \A i \in 1 .. Len(<<Bucket>>) + Len(k) :
               u[i] = IF i <= Len(<<Bucket>>) THEN <<Bucket>>[i] ELSE k[i - Len(<<Bucket>>)]
      BY <1>1, <2>2, ConcatProperties
    <3>2. Len(<<Bucket>>) = 1
      OBVIOUS
    <3>3. Len(k) \in Nat
      BY <1>1
    <3> HIDE DEF u
    <3>4. Len(u) = Len(k) + 1
      BY <3>1, <3>2, <3>3
    <3>5. ASSUME NEW i \in 2 .. Len(u) PROVE u[i] = k[i - 1]
      <4>1. i \in 1 .. 1 + Len(k) /\ ~(i <= 1)
        BY <3>3, <3>4
      <4> QED
        BY <3>1, <3>2, <4>1
    <3> QED
      BY <3>1, <3>4, <3>5
  <2> HIDE DEF u
  <2>4. Tail(u) \in Seq(Segment) /\ Len(Tail(u)) = Len(k)
        /\ \A i \in 1 .. Len(k) : Tail(u)[i] = k[i]
    BY <1>1, <2>3
  <2>5. Tail(u) = k
    BY <1>1, <2>4, SeqEqual
  <2> QED
    BY <1>3, <2>1, <2>5 DEF u
<1> QED
  BY <1>2, <1>3

LEMMA AddrApart == \A k, l \in Pics \cup Meds : Addr(k) = Addr(l) => k = l
<1>1. CASE VirtualHosted
  BY <1>1 DEF Addr, Stored!PublicUrl
<1>2. CASE ~VirtualHosted
  BY <1>2, AddrTaken
<1> QED
  BY <1>1, <1>2

LEMMA AddrUrls ==
  \A k \in Pics \cup Meds :
    Addr(k) \in Stored!Urls /\ Addr(k) \in Stored!Address /\ Addr(k) # None
BY FileNames DEF Addr, Stored!Urls, Stored!Address, Pics, Meds

\* An address elsewhere is no key's, and is taken for none.
LEMMA ElsewhereApart ==
  /\ Stored!Elsewhere \in Stored!Address /\ Stored!Elsewhere # None
  /\ \A k \in Pics \cup Meds : Addr(k) # Stored!Elsewhere
  /\ Stored!ExtractKey(Stored!Elsewhere) \notin Pics \cup Meds
<1>1. Stored!Elsewhere \in Stored!Address /\ Stored!Elsewhere # None
  BY FileNames DEF Stored!Address
<1>2. Len(Stored!Elsewhere) = 2 /\ Len(Stored!ExtractKey(Stored!Elsewhere)) = 1
  BY DEF Stored!Elsewhere, Stored!ExtractKey
<1>3. ASSUME NEW k \in Pics \cup Meds PROVE Len(Addr(k)) # 2
  <2>1. k \in Seq(Segment) /\ Len(k) \in {3, 5}
    BY KeySeqs
  <2>2. CASE VirtualHosted
    BY <2>1, <2>2 DEF Addr, Stored!PublicUrl
  <2>3. CASE ~VirtualHosted
    <3>1. <<Bucket>> \in Seq(Segment) /\ Len(<<Bucket>>) = 1
      BY DEF Segment
    <3>2. Len(<<Bucket>> \o k) = Len(<<Bucket>>) + Len(k)
      BY <2>1, <3>1, ConcatProperties
    <3>3. Addr(k) = <<Bucket>> \o k
      BY <2>3 DEF Addr, Stored!PublicUrl
    <3> QED
      BY <2>1, <3>1, <3>2, <3>3
  <2> QED
    BY <2>2, <2>3
<1>4. \A k \in Pics \cup Meds : Len(k) # 1
  BY KeySeqs
<1> QED
  BY <1>1, <1>2, <1>3, <1>4

\* What a job may be, by its op.
PicJob == [op : {"upload", "remove"}, key : Pics, old : Stored!Address \cup {None},
           at : {"old", "put", "write"}, alone : BOOLEAN]
DelJob == [op : {"delete"}, owner : Owner, left : SUBSET Stored!Urls]
MedJob == [op : {"media"}, owner : Owner, i : 0 .. MaxFiles, key : Meds \cup {None}]
UnmJob == [op : {"unmedia"}, id : MediaId, old : Stored!Urls, at : {"old", "write"}]

LEMMA JobKinds ==
  ASSUME NEW j \in Stored!Job
  PROVE  /\ j.op \in {"idle", "upload", "remove", "delete", "media", "unmedia"}
         /\ j.op = "idle" => j = Stored!Idle
         /\ j.op \in {"upload", "remove"} => j \in PicJob
         /\ j.op = "delete" => j \in DelJob
         /\ j.op = "media" => j \in MedJob
         /\ j.op = "unmedia" => j \in UnmJob
BY DEF Stored!Job, Stored!Idle, PicJob, DelJob, MedJob, UnmJob, Pics, Meds

LEMMA KindsAreJobs ==
  Stored!Idle \in Stored!Job /\ PicJob \subseteq Stored!Job /\ DelJob \subseteq Stored!Job
  /\ MedJob \subseteq Stored!Job /\ UnmJob \subseteq Stored!Job
BY DEF Stored!Job, PicJob, DelJob, MedJob, UnmJob, Pics, Meds

\* k is the key of a picture of o.
Owned(o, k) == \E n \in Stored!Pictures[folder[o]] : k = <<folder[o], o, n>>

\* The jobs at work on a picture, or on a further file.
PicBusy(c, k) ==
  \/ job[c].op \in {"upload", "remove"} /\ job[c].key = k
  \/ job[c].op = "delete" /\ Owned(job[c].owner, k)
MedBusy(c, m) ==
  \/ job[c].op = "media" /\ job[c].key = m
  \/ job[c].op = "unmedia" /\ job[c].old = Addr(m)

\* A removal that has deleted the file, or tried to.
Emptied(c, k) ==
  \/ job[c].op = "remove" /\ job[c].at = "write"
  \/ job[c].op = "delete" /\ Addr(k) \notin job[c].left
Writing(c, k) == job[c].op = "upload" /\ job[c].key = k /\ job[c].at = "write"
Putting(c, k) == job[c].op = "upload" /\ job[c].key = k /\ job[c].at = "put"

ShownMed(m) == \E id \in MediaId : media[id] = Addr(m)

\* What a job holds was taken from the rows.
JobShape(c) ==
  /\ job[c].op \in {"upload", "remove"} =>
       /\ \E o \in Owner : Owned(o, job[c].key)
       /\ job[c].old \in {Addr(job[c].key), Stored!Elsewhere, None}
       /\ job[c].at = "old" => job[c].old # None
       /\ job[c].op = "remove" => job[c].at # "put" /\ job[c].old = Addr(job[c].key)
  /\ job[c].op = "delete" =>
       /\ folder[job[c].owner] \notin {"listings", "users"}
       /\ \A u \in job[c].left : \E k \in Pics : Owned(job[c].owner, k) /\ u = Addr(k)
  /\ job[c].op = "media" /\ job[c].key # None => job[c].i < MaxFiles
  /\ job[c].op = "unmedia" =>
       /\ \E m \in Meds : job[c].old = Addr(m)
       /\ media[job[c].id] \in {job[c].old, None}

\* A picture: who is alone at work on it is, and has its file when it writes.
PicAlone(k) ==
  \A c \in Call : job[c].op \in {"upload", "remove"} /\ job[c].key = k /\ job[c].alone =>
    /\ \A d \in Call : PicBusy(d, k) => d = c
    /\ Writing(c, k) => k \in files

\* One that nothing has spoilt is stored or removed, not both at once.
PicClean(k) ==
  /\ \A c, d \in Call : PicBusy(c, k) /\ PicBusy(d, k) =>
       (job[c].op = "upload" <=> job[d].op = "upload")
  /\ \A c \in Call, o \in gone : job[c].op = "upload" /\ job[c].key = k => ~Owned(o, k)
  /\ k \notin files /\ (url[k] # None \/ \E c \in Call : Writing(c, k)) =>
       \E c \in Call : Putting(c, k) \/ (PicBusy(c, k) /\ Emptied(c, k))
  /\ ~VirtualHosted =>
       /\ k \in files /\ url[k] = None => \E c \in Call : Writing(c, k)
       /\ \A c \in Call : PicBusy(c, k) /\ Emptied(c, k) => k \notin files

\* The import and the users spoil what they write; the other columns are the
\* uploads' own.
PicRow(k) ==
  /\ k \notin spoilt \/ k[1] \notin {"listings", "users"} => url[k] \in {None, Addr(k)}
  /\ k[1] = "listings" => url[k] \in {None, Addr(k), Stored!Elsewhere}
  /\ \A o \in gone : Owned(o, k) => url[k] = None

\* A further file that nothing has spoilt has one request that stores it and
\* one row, or requests that remove that row.
MedClean(m) ==
  /\ \A c, d \in Call : MedBusy(c, m) /\ MedBusy(d, m) =>
       job[c].op = job[d].op /\ (job[c].op = "media" => c = d)
  /\ \A a, b \in MediaId : media[a] = Addr(m) /\ media[b] = Addr(m) => a = b
  /\ \A c \in Call : job[c].op = "media" /\ job[c].key = m => m \in files /\ ~ShownMed(m)
  /\ \A c \in Call, a \in MediaId :
       job[c].op = "unmedia" /\ job[c].old = Addr(m) /\ media[a] = Addr(m) => a = job[c].id
  /\ m \notin files /\ ShownMed(m) =>
       \E c \in Call : job[c].op = "unmedia" /\ job[c].old = Addr(m) /\ job[c].at = "write"
  /\ ~VirtualHosted =>
       /\ m \in files /\ ~ShownMed(m) =>
            \E c \in Call : job[c].op = "media" /\ job[c].key = m
       /\ \A c \in Call :
            job[c].op = "unmedia" /\ job[c].old = Addr(m) /\ job[c].at = "write" => m \notin files

FileInv ==
  /\ Stored!TypeOK
  /\ \A c \in Call : JobShape(c)
  /\ \A id \in MediaId : media[id] # None => \E m \in Meds : media[id] = Addr(m)
  /\ \A k \in Pics : PicRow(k) /\ PicAlone(k) /\ (k \notin spoilt => PicClean(k))
  /\ \A m \in Meds \ spoilt : MedClean(m)

LEMMA FileInit == Stored!Init => FileInv
<1> SUFFICES ASSUME Stored!Init PROVE FileInv
  OBVIOUS
<1>1. /\ gone = {} /\ files = {} /\ spoilt = {} /\ now = 0
      /\ \A k \in Pics : url[k] = None
      /\ \A id \in MediaId : media[id] = None
      /\ \A c \in Call : job[c] = Stored!Idle /\ Stored!Idle.op = "idle"
  BY DEF Stored!Init, Stored!Idle, Pics
<1>2. Stored!TypeOK
  BY FileNames, KindsAreJobs DEF Stored!Init, Stored!TypeOK
<1>3. ~\E m \in Meds : ShownMed(m)
  BY <1>1, AddrUrls DEF ShownMed
<1>4. \A c \in Call : JobShape(c)
  BY <1>1 DEF JobShape
<1>5. \A k \in Pics : PicRow(k) /\ PicAlone(k) /\ PicClean(k)
  BY <1>1 DEF PicRow, PicAlone, PicClean, PicBusy, Writing
<1>6. \A m \in Meds : MedClean(m)
  BY <1>1, <1>3, AddrUrls DEF MedClean, MedBusy
<1> QED
  BY <1>1, <1>2, <1>4, <1>5, <1>6 DEF FileInv

\* Where no request is at work, and nothing is spoilt.
LEMMA FilesTell == FileInv => Stored!RowsMatchFiles
<1> SUFFICES ASSUME FileInv, NEW k \in Stored!Settled
             PROVE  /\ Stored!Shown(k) => k \in files
                    /\ ~VirtualHosted /\ k \in files => Stored!Shown(k)
  BY DEF Stored!RowsMatchFiles
<1>1. /\ k \in Pics \cup Meds /\ k \notin spoilt
      /\ \A c \in Call : k \notin Stored!KeysOf(job[c]) /\ job[c] \in Stored!Job
  BY DEF Stored!Settled, Stored!OnKey, Pics, Meds, FileInv, Stored!TypeOK
<1>2. Stored!Shown(k) <=> IF k \in Pics THEN url[k] = Addr(k) ELSE ShownMed(k)
  BY DEF Stored!Shown, ShownMed, Addr, Pics
<1>3. CASE k \in Pics
  <2>1. Stored!Shown(k) <=> url[k] # None
    BY <1>1, <1>2, <1>3, AddrUrls DEF FileInv, PicRow
  <2>2. \A c \in Call : ~PicBusy(c, k)
    BY <1>1, <1>3, JobKinds
       DEF PicBusy, Stored!KeysOf, Stored!PictureKeys, Stored!Key, Owned
  <2>3. \A c \in Call : ~Writing(c, k) /\ ~Putting(c, k)
    BY <2>2 DEF PicBusy, Writing, Putting
  <2> QED
    BY <1>1, <1>3, <2>1, <2>2, <2>3 DEF FileInv, PicClean
<1>4. CASE k \in Meds
  <2>1. Stored!Shown(k) <=> ShownMed(k)
    BY <1>2, <1>4, KeysApart
  <2>2. \A c \in Call : ~MedBusy(c, k)
    BY <1>1, <1>4, JobKinds, FileNames DEF MedBusy, Stored!KeysOf, Addr, Meds
  <2> QED
    BY <1>1, <1>4, <2>1, <2>2 DEF FileInv, MedClean, MedBusy
<1> QED
  BY <1>1, <1>3, <1>4

\* A picture that a step does not touch.
LEMMA PicKept ==
  ASSUME FileInv, NEW k \in Pics, folder' = folder, url'[k] = url[k],
         \A o \in gone' : Owned(o, k) => o \in gone,
         k \in files' <=> k \in files, k \in spoilt => k \in spoilt',
         \A c \in Call :
           \/ job'[c] = job[c]
           \/ ~PicBusy(c, k) /\ ~PicBusy(c, k)'
           \/ /\ job[c].op = "delete" /\ job'[c].op = "delete"
              /\ job'[c].owner = job[c].owner
              /\ Addr(k) \in job'[c].left <=> Addr(k) \in job[c].left
  PROVE  PicRow(k)' /\ PicAlone(k)' /\ (k \notin spoilt' => PicClean(k)')
<1>1. \A o : Owned(o, k)' <=> Owned(o, k)
  BY DEF Owned
<1>2. ASSUME NEW c \in Call
      PROVE  /\ PicBusy(c, k)' <=> PicBusy(c, k)
             /\ Writing(c, k)' <=> Writing(c, k)
             /\ Putting(c, k)' <=> Putting(c, k)
             /\ (PicBusy(c, k) /\ Emptied(c, k))' <=> (PicBusy(c, k) /\ Emptied(c, k))
             /\ PicBusy(c, k) => job'[c].op = job[c].op
             /\ job'[c].op \in {"upload", "remove"} /\ job'[c].key = k => job'[c] = job[c]
  <2>1. CASE job'[c] = job[c]
    BY <1>1, <2>1 DEF PicBusy, Writing, Putting, Emptied
  <2>2. CASE ~PicBusy(c, k) /\ ~PicBusy(c, k)'
    BY <2>2 DEF PicBusy, Writing, Putting
  <2>3. CASE /\ job[c].op = "delete" /\ job'[c].op = "delete"
             /\ job'[c].owner = job[c].owner
             /\ Addr(k) \in job'[c].left <=> Addr(k) \in job[c].left
    BY <1>1, <2>3 DEF PicBusy, Writing, Putting, Emptied
  <2> QED
    BY <2>1, <2>2, <2>3
<1>3. PicRow(k) /\ PicAlone(k) /\ (k \notin spoilt => PicClean(k))
  BY DEF FileInv
<1>4. PicRow(k)'
  BY <1>1, <1>3 DEF PicRow
<1>5. PicAlone(k)'
  BY <1>2, <1>3 DEF PicAlone
<1>6. ASSUME k \notin spoilt' PROVE PicClean(k)'
  <2>1. PicClean(k)
    BY <1>3, <1>6
  <2>2. \A c, d \in Call : PicBusy(c, k)' /\ PicBusy(d, k)' =>
          (job'[c].op = "upload" <=> job'[d].op = "upload")
    BY <1>2, <2>1 DEF PicClean
  <2>3. \A c \in Call, o \in gone' : job'[c].op = "upload" /\ job'[c].key = k => ~Owned(o, k)'
    BY <1>1, <1>2, <2>1 DEF PicClean
  <2>4. k \notin files' /\ (url'[k] # None \/ \E c \in Call : Writing(c, k)') =>
          \E c \in Call : Putting(c, k)' \/ (PicBusy(c, k) /\ Emptied(c, k))'
    BY <1>2, <2>1 DEF PicClean
  <2>5. ~VirtualHosted =>
          /\ k \in files' /\ url'[k] = None => \E c \in Call : Writing(c, k)'
          /\ \A c \in Call : (PicBusy(c, k) /\ Emptied(c, k))' => k \notin files'
    BY <1>2, <2>1 DEF PicClean
  <2> QED
    BY <2>2, <2>3, <2>4, <2>5 DEF PicClean
<1> QED
  BY <1>4, <1>5, <1>6

\* A further file that it does not touch.
LEMMA MedKept ==
  ASSUME FileInv, NEW m \in Meds, m \notin spoilt, m \in files' <=> m \in files,
         \A id \in MediaId : media'[id] = Addr(m) <=> media[id] = Addr(m),
         \A c \in Call : job'[c] = job[c] \/ (~MedBusy(c, m) /\ ~MedBusy(c, m)')
  PROVE  MedClean(m)'
<1>1. MedClean(m)
  BY DEF FileInv
<1>2. ShownMed(m)' <=> ShownMed(m)
  BY DEF ShownMed
<1>3. ASSUME NEW c \in Call
      PROVE  /\ MedBusy(c, m)' <=> MedBusy(c, m)
             /\ MedBusy(c, m) => job'[c] = job[c]
             /\ job[c].op = "media" /\ job[c].key = m => MedBusy(c, m)
             /\ job[c].op = "unmedia" /\ job[c].old = Addr(m) => MedBusy(c, m)
             /\ job'[c].op = "media" /\ job'[c].key = m => MedBusy(c, m)'
             /\ job'[c].op = "unmedia" /\ job'[c].old = Addr(m) => MedBusy(c, m)'
  BY DEF MedBusy
<1>4. /\ \A c, d \in Call : MedBusy(c, m)' /\ MedBusy(d, m)' =>
           job'[c].op = job'[d].op /\ (job'[c].op = "media" => c = d)
      /\ \A a, b \in MediaId : media'[a] = Addr(m) /\ media'[b] = Addr(m) => a = b
      /\ \A c \in Call :
           job'[c].op = "media" /\ job'[c].key = m => m \in files' /\ ~ShownMed(m)'
      /\ \A c \in Call, a \in MediaId :
           job'[c].op = "unmedia" /\ job'[c].old = Addr(m) /\ media'[a] = Addr(m) =>
             a = job'[c].id
  BY <1>1, <1>2, <1>3 DEF MedClean
<1>5. m \notin files' /\ ShownMed(m)' =>
        \E c \in Call : job'[c].op = "unmedia" /\ job'[c].old = Addr(m) /\ job'[c].at = "write"
  BY <1>1, <1>2, <1>3 DEF MedClean
<1>6. ~VirtualHosted =>
        /\ m \in files' /\ ~ShownMed(m)' =>
             \E c \in Call : job'[c].op = "media" /\ job'[c].key = m
        /\ \A c \in Call :
             job'[c].op = "unmedia" /\ job'[c].old = Addr(m) /\ job'[c].at = "write"
               => m \notin files'
  BY <1>1, <1>2, <1>3 DEF MedClean
<1> QED
  BY <1>4, <1>5, <1>6 DEF MedClean

\* The files of the bucket after one was deleted, or not.
LEMMA FilesAfter ==
  ASSUME FileInv, NEW k \in Pics \cup Meds, NEW S, Stored!DeleteFile(Addr(k), S)
  PROVE  /\ \A l \in (Pics \cup Meds) \ {k} : l \in files' <=> l \in files
         /\ k \in files' => k \in files
         /\ VirtualHosted => (k \in files' <=> k \in files)
         /\ spoilt \subseteq spoilt'
         /\ ~VirtualHosted => k \notin files' \/ S \subseteq spoilt'
         /\ files' \subseteq files /\ spoilt' \subseteq spoilt \cup S
<1>1. CASE files' = files \ {Stored!ExtractKey(Addr(k))} /\ UNCHANGED spoilt
  <2> DEFINE x == Stored!ExtractKey(Addr(k))
  <2>1. (~VirtualHosted => x = k) /\ (VirtualHosted => x \notin Pics \cup Meds)
    BY AddrTaken
  <2> HIDE DEF x
  <2>2. files' = files \ {x} /\ spoilt' = spoilt
    BY <1>1 DEF x
  <2> QED
    BY <2>1, <2>2, FileNames
<1>2. CASE UNCHANGED files /\ spoilt' = spoilt \cup S
  BY <1>2
<1> QED
  BY <1>1, <1>2 DEF Stored!DeleteFile

\* An address elsewhere takes no file with it.
LEMMA FilesSpared ==
  ASSUME FileInv, Stored!DeleteFile(Stored!Elsewhere, {})
  PROVE  /\ \A l \in Pics \cup Meds : l \in files' <=> l \in files
         /\ spoilt' = spoilt /\ files' \subseteq files
<1>1. Stored!ExtractKey(Stored!Elsewhere) \notin Pics \cup Meds
  BY ElsewhereApart
<1> QED
  BY <1>1 DEF Stored!DeleteFile

\* The keys a request is about, as requests at work on them.
LEMMA KeysOfJob ==
  ASSUME NEW j \in Stored!Job
  PROVE  /\ \A k \in Pics : k \in Stored!KeysOf(j) <=>
              \/ j.op \in {"upload", "remove"} /\ j.key = k
              \/ j.op = "delete" /\ Owned(j.owner, k)
         /\ \A m \in Meds : m \in Stored!KeysOf(j) <=>
              \/ j.op = "media" /\ j.key = m
              \/ j.op = "unmedia" /\ j.old = Addr(m)
<1>1. j.op \in {"idle", "upload", "remove", "delete", "media", "unmedia"}
  BY JobKinds
<1>2. CASE j.op = "idle"
  BY <1>2 DEF Stored!KeysOf
<1>3. CASE j.op \in {"upload", "remove"}
  <2>1. Stored!KeysOf(j) = {j.key} /\ j.key \in Pics /\ j.op # "idle"
    BY <1>3, JobKinds DEF Stored!KeysOf, PicJob
  <2> QED
    BY <1>3, <2>1, KeysApart
<1>4. CASE j.op = "delete"
  <2>1. Stored!KeysOf(j) = Stored!PictureKeys(j.owner)
    BY <1>4 DEF Stored!KeysOf
  <2>2. \A k : k \in Stored!PictureKeys(j.owner) <=> Owned(j.owner, k)
    BY DEF Stored!PictureKeys, Stored!Key, Owned
  <2>3. ASSUME NEW m \in Meds PROVE ~Owned(j.owner, m)
    <3>1. Len(m) = 5
      BY MedShape
    <3>2. \A n : Len(<<folder[j.owner], j.owner, n>>) = 3
      OBVIOUS
    <3> QED
      BY <3>1, <3>2 DEF Owned
  <2> QED
    BY <1>4, <2>1, <2>2, <2>3
<1>5. CASE j.op = "media"
  <2>1. Stored!KeysOf(j) = {j.key} \ {None} /\ j.key \in Meds \cup {None}
    BY <1>5, JobKinds DEF Stored!KeysOf, MedJob
  <2> QED
    BY <1>5, <2>1, KeysApart, FileNames
<1>6. CASE j.op = "unmedia"
  <2>1. Stored!KeysOf(j) = {k \in Meds : Addr(k) = j.old}
    BY <1>6 DEF Stored!KeysOf, Meds, Addr
  <2> QED
    BY <1>6, <2>1, KeysApart
<1> QED
  BY <1>1, <1>2, <1>3, <1>4, <1>5, <1>6

LEMMA KeysBusy ==
  ASSUME FileInv, NEW c \in Call
  PROVE  /\ \A k \in Pics : k \in Stored!KeysOf(job[c]) <=> PicBusy(c, k)
         /\ \A m \in Meds : m \in Stored!KeysOf(job[c]) <=> MedBusy(c, m)
<1>1. job[c] \in Stored!Job
  BY DEF FileInv, Stored!TypeOK
<1> QED
  BY <1>1, KeysOfJob DEF PicBusy, MedBusy

LEMMA OneOwner ==
  ASSUME NEW o, NEW p, NEW k, Owned(o, k), Owned(p, k) PROVE o = p /\ k[2] = o
BY DEF Owned

\* Time passes, or the process dies.
LEMMA FileTick == FileInv /\ Stored!Tick => FileInv'
<1> SUFFICES ASSUME FileInv, Stored!Tick PROVE FileInv'
  OBVIOUS
<1>1. /\ UNCHANGED <<folder, gone, url, media, files, job, spoilt>>
      /\ now' \in 0 .. MaxTime
  BY FileNames DEF Stored!Tick, FileInv, Stored!TypeOK
<1>2. Stored!TypeOK'
  BY <1>1 DEF FileInv, Stored!TypeOK
<1>3. \A c \in Call : JobShape(c)'
  BY <1>1 DEF FileInv, JobShape, Owned
<1>4. \A k \in Pics : PicRow(k)' /\ PicAlone(k)' /\ (k \notin spoilt' => PicClean(k)')
  BY <1>1, PicKept
<1>5. \A m \in Meds \ spoilt' : MedClean(m)'
  BY <1>1, MedKept
<1> QED
  BY <1>1, <1>2, <1>3, <1>4, <1>5 DEF FileInv

LEMMA FileStill == FileInv /\ UNCHANGED Stored!imageVars => FileInv'
<1> SUFFICES ASSUME FileInv, UNCHANGED Stored!imageVars PROVE FileInv'
  OBVIOUS
<1>1. UNCHANGED <<folder, gone, url, media, files, now, job, spoilt>>
  BY DEF Stored!imageVars
<1>2. Stored!TypeOK'
  BY <1>1 DEF FileInv, Stored!TypeOK
<1>3. \A c \in Call : JobShape(c)'
  BY <1>1 DEF FileInv, JobShape, Owned
<1>4. \A k \in Pics : PicRow(k)' /\ PicAlone(k)' /\ (k \notin spoilt' => PicClean(k)')
  BY <1>1, PicKept
<1>5. \A m \in Meds \ spoilt' : MedClean(m)'
  BY <1>1, MedKept
<1> QED
  BY <1>1, <1>2, <1>3, <1>4, <1>5 DEF FileInv

LEMMA FileCrash == FileInv /\ Stored!Crash => FileInv'
<1> SUFFICES ASSUME FileInv, Stored!Crash PROVE FileInv'
  OBVIOUS
<1>1. /\ UNCHANGED <<folder, gone, url, media, files, now>>
      /\ job' = [c \in Call |-> Stored!Idle]
      /\ spoilt' = spoilt \cup UNION {Stored!KeysOf(job[c]) : c \in Call}
  BY DEF Stored!Crash
<1>2. \A c \in Call : job'[c] = Stored!Idle /\ job'[c].op = "idle"
  BY <1>1 DEF Stored!Idle
<1>3. \A k : k \in spoilt' <=> k \in spoilt \/ \E c \in Call : k \in Stored!KeysOf(job[c])
  BY <1>1
<1>4. /\ \A k \in Pics : k \notin spoilt' => k \notin spoilt /\ \A c \in Call : ~PicBusy(c, k)
      /\ \A m \in Meds : m \notin spoilt' => m \notin spoilt /\ \A c \in Call : ~MedBusy(c, m)
  BY <1>3, KeysBusy
<1>5. Stored!TypeOK'
  <2>1. ASSUME NEW c \in Call PROVE Stored!KeysOf(job[c]) \subseteq Pics \cup Meds
    <3>1. job[c] \in Stored!Job
      BY DEF FileInv, Stored!TypeOK
    <3>2. job[c].op \in {"upload", "remove"} => Stored!KeysOf(job[c]) = {job[c].key}
                                                /\ job[c].key \in Pics
      BY <3>1, JobKinds DEF Stored!KeysOf, PicJob
    <3>3. job[c].op = "delete" => Stored!KeysOf(job[c]) \subseteq Pics
      <4>1. SUFFICES ASSUME job[c].op = "delete", NEW k \in Stored!KeysOf(job[c])
                     PROVE  k \in Pics
        OBVIOUS
      <4>2. job[c].owner \in Owner /\ folder[job[c].owner] \in Stored!Folder
        BY <3>1, <4>1, JobKinds DEF DelJob, FileInv, Stored!TypeOK
      <4>3. \E n \in Stored!Pictures[folder[job[c].owner]] :
              k = <<folder[job[c].owner], job[c].owner, n>>
        BY <4>1 DEF Stored!KeysOf, Stored!PictureKeys, Stored!Key
      <4> QED
        BY <4>2, <4>3, PicShape
    <3>4. job[c].op \in {"media", "unmedia"} => Stored!KeysOf(job[c]) \subseteq Meds
      BY <3>1, JobKinds, FileNames DEF Stored!KeysOf, MedJob, Meds
    <3>5. job[c].op = "idle" => Stored!KeysOf(job[c]) = {}
      BY DEF Stored!KeysOf
    <3> QED
      BY <3>1, <3>2, <3>3, <3>4, <3>5, JobKinds
  <2>2. spoilt' \subseteq Pics \cup Meds
    BY <1>3, <2>1 DEF FileInv, Stored!TypeOK, Pics, Meds
  <2> QED
    BY <1>1, <1>2, <2>2, KindsAreJobs DEF FileInv, Stored!TypeOK, Pics, Meds
<1>6. \A c \in Call : JobShape(c)'
  BY <1>2 DEF JobShape
<1>7. ASSUME NEW k \in Pics PROVE PicRow(k)' /\ PicAlone(k)' /\ (k \notin spoilt' => PicClean(k)')
  <2>1. PicRow(k)'
    BY <1>1, <1>7 DEF FileInv, PicRow, Owned
  <2>2. PicAlone(k)'
    BY <1>2 DEF PicAlone
  <2>3. ASSUME k \notin spoilt' PROVE PicClean(k)'
    <3>1. PicClean(k) /\ \A c \in Call : ~PicBusy(c, k)
      BY <1>4, <2>3 DEF FileInv
    <3>2. \A c \in Call : ~PicBusy(c, k)' /\ ~Writing(c, k)' /\ job'[c].op # "upload"
      BY <1>2 DEF PicBusy, Writing
    <3>3. \A c \in Call : ~Writing(c, k) /\ ~Putting(c, k)
      BY <3>1 DEF PicBusy, Writing, Putting
    <3> QED
      BY <1>1, <3>1, <3>2, <3>3 DEF PicClean
  <2> QED
    BY <2>1, <2>2, <2>3
<1>8. ASSUME NEW m \in Meds \ spoilt' PROVE MedClean(m)'
  <2>1. MedClean(m) /\ \A c \in Call : ~MedBusy(c, m)
    BY <1>4, <1>8 DEF FileInv
  <2>2. \A c \in Call : ~MedBusy(c, m)' /\ job'[c].op \notin {"media", "unmedia"}
    BY <1>2 DEF MedBusy
  <2>3. \A c \in Call : /\ ~(job[c].op = "media" /\ job[c].key = m)
                        /\ ~(job[c].op = "unmedia" /\ job[c].old = Addr(m))
    BY <2>1 DEF MedBusy
  <2>4. ShownMed(m)' <=> ShownMed(m)
    BY <1>1 DEF ShownMed
  <2> QED
    BY <1>1, <2>1, <2>2, <2>3, <2>4 DEF MedClean
<1> QED
  BY <1>1, <1>5, <1>6, <1>7, <1>8 DEF FileInv

\* What the row and the jobs of a picture are, when only one job moves on.
LEMMA FileTyped ==
  ASSUME FileInv
  PROVE  /\ folder \in [Owner -> Stored!Folder] /\ gone \in SUBSET Owner
         /\ url \in [Pics -> Stored!Address \cup {None}]
         /\ media \in [MediaId -> Stored!Urls \cup {None}]
         /\ files \in SUBSET (Pics \cup Meds) /\ now \in 0 .. MaxTime
         /\ job \in [Call -> Stored!Job] /\ spoilt \in SUBSET (Pics \cup Meds)
BY DEF FileInv, Stored!TypeOK, Pics, Meds

LEMMA JobStands ==
  ASSUME FileInv, NEW d \in Call, job'[d] = job[d], folder' = folder,
         job[d].op = "unmedia" => media'[job[d].id] \in {media[job[d].id], None}
  PROVE  JobShape(d)'
<1>1. JobShape(d)
  BY DEF FileInv
<1>2. \A o, k : Owned(o, k)' <=> Owned(o, k)
  BY DEF Owned
<1> QED
  BY <1>1, <1>2 DEF JobShape

\* The file of the URL that was read is deleted, or not.
LEMMA FileRemoveOld ==
  ASSUME FileInv, NEW c \in Call, Stored!RemoveOld(c) PROVE FileInv'
<1>1. /\ job[c].op \in {"upload", "remove", "unmedia"} /\ job[c].at = "old"
      /\ Stored!DeleteFile(job[c].old,
                           IF job[c].op = "upload" THEN {} ELSE Stored!KeysOf(job[c]))
      /\ UNCHANGED <<folder, gone, url, media, now>>
      /\ job' = [job EXCEPT ![c].at = IF job[c].op = "upload" THEN "put" ELSE "write"]
  BY DEF Stored!RemoveOld
<1>2. job[c] \in Stored!Job /\ JobShape(c)
  BY FileTyped DEF FileInv
<1> DEFINE moved == [job[c] EXCEPT !.at = IF job[c].op = "upload" THEN "put" ELSE "write"]
<1>3. job' = [job EXCEPT ![c] = moved]
  BY <1>1, FileTyped
<1>4. job[c].op \in {"upload", "remove"} =>
        /\ moved \in PicJob /\ moved.op = job[c].op /\ moved.key = job[c].key
        /\ moved.old = job[c].old /\ moved.alone = job[c].alone
        /\ moved.at = IF job[c].op = "upload" THEN "put" ELSE "write"
  BY <1>2, JobKinds DEF PicJob
<1>5. job[c].op = "unmedia" =>
        /\ moved \in UnmJob /\ moved.op = job[c].op /\ moved.id = job[c].id
        /\ moved.old = job[c].old /\ moved.at = "write"
  BY <1>2, JobKinds DEF UnmJob
<1> HIDE DEF moved
<1>6. /\ job' \in [Call -> Stored!Job] /\ job'[c] = moved
      /\ \A d \in Call \ {c} : job'[d] = job[d]
  BY <1>1, <1>3, <1>4, <1>5, FileTyped, KindsAreJobs
<1>7. \A o, k : Owned(o, k)' <=> Owned(o, k)
  BY <1>1 DEF Owned
<1>8. \A d \in Call \ {c} : JobShape(d)'
  BY <1>1, <1>6, JobStands
<1>9. JobShape(c)'
  <2>1. CASE job[c].op \in {"upload", "remove"}
    BY <1>2, <1>4, <1>6, <1>7, <2>1 DEF JobShape
  <2>2. CASE job[c].op = "unmedia"
    BY <1>1, <1>2, <1>5, <1>6, <2>2 DEF JobShape
  <2> QED
    BY <1>1, <2>1, <2>2
<1>10. CASE job[c].op \in {"upload", "remove"}
  <2>0. PICK k \in Pics : k = job[c].key
    BY <1>2, <1>10, JobKinds DEF PicJob
  <2> DEFINE S == IF job[c].op = "upload" THEN {} ELSE Stored!KeysOf(job[c])
  <2>1. /\ k \in Pics /\ job[c].old \in {Addr(k), Stored!Elsewhere}
        /\ job[c].op = "remove" => job[c].old = Addr(k)
    BY <1>1, <1>2, <1>10, <2>0 DEF JobShape
  <2>2. S \subseteq {k} /\ (job[c].op = "remove" => k \in S)
    BY <1>10, <2>0 DEF Stored!KeysOf
  <2>3. Stored!DeleteFile(job[c].old, S) /\ (job[c].op = "upload" => S = {})
    BY <1>1
  <2> HIDE DEF S
  <2>4. /\ \A l \in (Pics \cup Meds) \ {k} : l \in files' <=> l \in files
        /\ k \in files' => k \in files
        /\ spoilt \subseteq spoilt'
        /\ ~VirtualHosted => k \notin files' \/ S \subseteq spoilt'
        /\ files' \subseteq files /\ spoilt' \subseteq spoilt \cup S
    <3>1. CASE job[c].old = Addr(k)
      <4>1. Stored!DeleteFile(Addr(k), S)
        BY <2>3, <3>1
      <4> QED
        BY <2>1, <4>1, FilesAfter
    <3>2. CASE job[c].old = Stored!Elsewhere
      <4>1. job[c].op = "upload"
        BY <1>10, <2>1, <3>2, ElsewhereApart
      <4>2. S = {} /\ Stored!DeleteFile(Stored!Elsewhere, {})
        BY <2>3, <3>2, <4>1
      <4> QED
        BY <4>2, FilesSpared
    <3> QED
      BY <2>1, <3>1, <3>2
  <2>5. Stored!TypeOK'
    BY <1>1, <1>6, <2>1, <2>2, <2>4, FileTyped DEF Stored!TypeOK, Pics, Meds
  <2>6. PicBusy(c, k) /\ PicBusy(c, k)'
    BY <1>4, <1>6, <1>10, <2>0 DEF PicBusy
  <2>7. \A l \in Pics \ {k} : ~PicBusy(c, l) /\ ~PicBusy(c, l)'
    BY <1>4, <1>6, <1>10, <2>0 DEF PicBusy
  <2>8. \A m \in Meds : ~MedBusy(c, m) /\ ~MedBusy(c, m)'
    BY <1>4, <1>6, <1>10 DEF MedBusy
  <2>9. ASSUME NEW l \in Pics \ {k}
        PROVE  PicRow(l)' /\ PicAlone(l)' /\ (l \notin spoilt' => PicClean(l)')
    BY <1>1, <1>6, <2>4, <2>7, PicKept
  <2>10. ASSUME NEW m \in Meds \ spoilt' PROVE MedClean(m)'
    BY <1>1, <1>6, <2>1, <2>4, <2>8, KeysApart, MedKept
  <2>11. PicRow(k)'
    BY <1>1, <1>7, <2>1, <2>4 DEF FileInv, PicRow
  <2>12. ASSUME NEW d \in Call \ {c}
         PROVE  /\ PicBusy(d, k)' <=> PicBusy(d, k)
                /\ Writing(d, k)' <=> Writing(d, k)
                /\ Putting(d, k)' <=> Putting(d, k)
                /\ Emptied(d, k)' <=> Emptied(d, k)
    BY <1>6, <1>7 DEF PicBusy, Writing, Putting, Emptied
  <2>13. ~Writing(c, k)' /\ ~Writing(c, k) /\ ~Emptied(c, k)
    BY <1>1, <1>4, <1>6, <1>10 DEF Writing, Emptied
  <2>14. PicAlone(k)'
    <3>1. PicAlone(k)
      BY <2>1 DEF FileInv
    <3>2. ASSUME NEW d \in Call, job'[d].op \in {"upload", "remove"}, job'[d].key = k,
                 job'[d].alone
          PROVE  d = c /\ \A e \in Call : PicBusy(e, k)' => e = c
      <4>1. job[d].op \in {"upload", "remove"} /\ job[d].key = k /\ job[d].alone
        BY <1>4, <1>6, <1>10, <2>0, <3>2
      <4>2. \A e \in Call : PicBusy(e, k) => e = d
        BY <3>1, <4>1 DEF PicAlone
      <4> QED
        BY <2>6, <2>12, <4>2
    <3> QED
      BY <2>13, <3>2 DEF PicAlone
  <2>15. ASSUME k \notin spoilt' PROVE PicClean(k)'
    <3>1. PicClean(k)
      BY <2>1, <2>4, <2>15 DEF FileInv
    <3>2. \A d \in Call : job'[d].op = job[d].op /\ (PicBusy(d, k)' <=> PicBusy(d, k))
                          /\ (job'[d].op = "upload" /\ job'[d].key = k =>
                                job[d].op = "upload" /\ job[d].key = k)
      BY <1>4, <1>6, <1>10, <2>6, <2>12
    <3>3. \A d, e \in Call : PicBusy(d, k)' /\ PicBusy(e, k)' =>
            (job'[d].op = "upload" <=> job'[e].op = "upload")
      BY <3>1, <3>2 DEF PicClean
    <3>4. \A d \in Call, o \in gone' :
            job'[d].op = "upload" /\ job'[d].key = k => ~Owned(o, k)'
      BY <1>1, <1>7, <3>1, <3>2 DEF PicClean
    <3>5. CASE job[c].op = "upload"
      <4>1. Putting(c, k)'
        BY <1>4, <1>6, <2>0, <3>5 DEF Putting
      <4>2. \A d \in Call : PicBusy(d, k)' => job'[d].op = "upload" /\ ~Emptied(d, k)'
        BY <2>6, <3>2, <3>3, <3>5 DEF Emptied
      <4>3. ~VirtualHosted /\ k \in files' /\ url'[k] = None => \E d \in Call : Writing(d, k)'
        BY <1>1, <2>4, <2>12, <2>13, <3>1 DEF PicClean
      <4> QED
        BY <3>3, <3>4, <4>1, <4>2, <4>3 DEF PicClean
    <3>6. CASE job[c].op = "remove"
      <4>1. Emptied(c, k)'
        BY <1>4, <1>6, <3>6 DEF Emptied
      <4>2. ~VirtualHosted => k \notin files'
        BY <2>2, <2>4, <2>15, <3>6
      <4> QED
        BY <2>6, <3>3, <3>4, <4>1, <4>2 DEF PicClean
    <3> QED
      BY <1>10, <3>5, <3>6
  <2> QED
    BY <1>1, <1>8, <1>9, <2>5, <2>9, <2>10, <2>11, <2>14, <2>15 DEF FileInv
<1>11. CASE job[c].op = "unmedia"
  <2> DEFINE S == Stored!KeysOf(job[c])
  <2>1. PICK m \in Meds : job[c].old = Addr(m)
    BY <1>2, <1>11 DEF JobShape
  <2>2. S \subseteq {m} /\ m \in S
    BY <1>11, <2>1, AddrApart DEF Stored!KeysOf, Addr, Meds
  <2>3. Stored!DeleteFile(Addr(m), S)
    BY <1>1, <1>11, <2>1
  <2> HIDE DEF S
  <2>4. /\ \A l \in (Pics \cup Meds) \ {m} : l \in files' <=> l \in files
        /\ m \in files' => m \in files
        /\ spoilt \subseteq spoilt'
        /\ ~VirtualHosted => m \notin files' \/ S \subseteq spoilt'
        /\ files' \subseteq files /\ spoilt' \subseteq spoilt \cup S
    BY <2>1, <2>3, FilesAfter
  <2>5. Stored!TypeOK'
    BY <1>1, <1>6, <2>1, <2>2, <2>4, FileTyped DEF Stored!TypeOK, Pics, Meds
  <2>6. \A k \in Pics : ~PicBusy(c, k) /\ ~PicBusy(c, k)'
    BY <1>5, <1>6, <1>11 DEF PicBusy
  <2>7. \A k \in Pics : PicRow(k)' /\ PicAlone(k)' /\ (k \notin spoilt' => PicClean(k)')
    BY <1>1, <1>6, <2>1, <2>4, <2>6, KeysApart, PicKept
  <2>8. \A l \in Meds \ {m} : ~MedBusy(c, l) /\ ~MedBusy(c, l)'
    BY <1>5, <1>6, <1>11, <2>1, AddrApart DEF MedBusy
  <2>9. ASSUME NEW l \in Meds \ {m}, l \notin spoilt' PROVE MedClean(l)'
    BY <1>1, <1>6, <2>1, <2>4, <2>8, <2>9, MedKept
  <2>10. ASSUME m \notin spoilt' PROVE MedClean(m)'
    <3>1. MedClean(m) /\ MedBusy(c, m)
      BY <1>11, <2>1, <2>4, <2>10 DEF FileInv, MedBusy
    <3>2. \A d \in Call :
            /\ MedBusy(d, m)' <=> MedBusy(d, m)
            /\ job'[d].op = job[d].op
            /\ job[d].op = "unmedia" => job'[d].old = job[d].old /\ job'[d].id = job[d].id
      BY <1>5, <1>6, <1>11 DEF MedBusy
    <3>3. \A d \in Call : ~(job'[d].op = "media" /\ job'[d].key = m)
      BY <1>11, <3>1, <3>2 DEF MedClean, MedBusy
    <3>4. job'[c].op = "unmedia" /\ job'[c].old = Addr(m) /\ job'[c].at = "write"
      BY <1>5, <1>6, <1>11, <2>1
    <3>5. ~VirtualHosted => m \notin files'
      BY <2>2, <2>4, <2>10
    <3> QED
      BY <1>1, <3>1, <3>2, <3>3, <3>4, <3>5 DEF MedClean
  <2> QED
    BY <1>1, <1>8, <1>9, <2>5, <2>7, <2>9, <2>10 DEF FileInv
<1> QED
  BY <1>1, <1>10, <1>11

\* One of the files of a category or tile that is deleted.
LEMMA FileDeleteOf ==
  ASSUME FileInv, NEW c \in Call, Stored!DeleteFileOf(c) PROVE FileInv'
<1>1. PICK u \in job[c].left :
        /\ Stored!DeleteFile(u, {k \in Stored!KeysOf(job[c]) : url[k] = u})
        /\ job' = [job EXCEPT ![c].left = @ \ {u}]
  BY DEF Stored!DeleteFileOf
<1>2. job[c].op = "delete" /\ UNCHANGED <<folder, gone, url, media, now>>
  BY DEF Stored!DeleteFileOf
<1>3. job[c] \in DelJob /\ job[c] \in Stored!Job /\ JobShape(c)
  BY <1>2, FileTyped, JobKinds DEF FileInv
<1>4. PICK k \in Pics : Owned(job[c].owner, k) /\ u = Addr(k)
  BY <1>1, <1>2, <1>3 DEF JobShape
<1> DEFINE S == {l \in Stored!KeysOf(job[c]) : url[l] = u}
           moved == [job[c] EXCEPT !.left = @ \ {u}]
<1>5. Stored!DeleteFile(Addr(k), S) /\ job' = [job EXCEPT ![c] = moved]
  BY <1>1, <1>4, FileTyped
<1>6. moved \in DelJob /\ moved.op = "delete" /\ moved.owner = job[c].owner
      /\ moved.left = job[c].left \ {Addr(k)}
  BY <1>2, <1>3, <1>4 DEF DelJob
<1>7. /\ \A l \in S : l = k
      /\ url[k] # None => k \in S
  <2>0. \A l \in Pics : Owned(job[c].owner, l) => url[l] \in {None, Addr(l)}
    <3>1. \A l : Owned(job[c].owner, l) => l[1] = folder[job[c].owner]
      BY DEF Owned
    <3>2. folder[job[c].owner] \notin {"listings", "users"}
      BY <1>2, <1>3 DEF JobShape
    <3> QED
      BY <3>1, <3>2 DEF FileInv, PicRow
  <2>1. ASSUME NEW l \in S PROVE l = k
    <3>1. l \in Stored!KeysOf(job[c]) /\ url[l] = Addr(k)
      BY <1>4
    <3>2. Owned(job[c].owner, l)
      BY <1>2, <3>1 DEF Stored!KeysOf, Stored!PictureKeys, Stored!Key, Owned
    <3>3. l \in Pics
      BY <1>3, <3>2, PicShape, FileTyped DEF Owned, DelJob
    <3> QED
      BY <1>4, <2>0, <3>1, <3>2, <3>3, AddrApart, AddrUrls
  <2>2. k \in Stored!KeysOf(job[c])
    BY <1>2, <1>3, <1>4, KeysOfJob
  <2>3. url[k] # None => url[k] = u
    BY <1>4, <2>0
  <2> QED
    BY <2>1, <2>2, <2>3
<1> HIDE DEF moved, S
<1>8. /\ job' \in [Call -> Stored!Job] /\ job'[c] = moved
      /\ \A d \in Call \ {c} : job'[d] = job[d]
  BY <1>5, <1>6, FileTyped, KindsAreJobs
<1>9. \A o, l : Owned(o, l)' <=> Owned(o, l)
  BY <1>2 DEF Owned
<1>10. /\ \A l \in (Pics \cup Meds) \ {k} : l \in files' <=> l \in files
       /\ k \in files' => k \in files
       /\ spoilt \subseteq spoilt'
       /\ ~VirtualHosted => k \notin files' \/ S \subseteq spoilt'
       /\ files' \subseteq files /\ spoilt' \subseteq spoilt \cup S
  BY <1>4, <1>5, FilesAfter
<1>11. Stored!TypeOK'
  <2>1. spoilt' \subseteq Pics \cup Meds
    BY <1>4, <1>7, <1>10, FileTyped
  <2> QED
    BY <1>2, <1>8, <1>10, <2>1, FileTyped DEF Stored!TypeOK, Pics, Meds
<1>12. \A d \in Call \ {c} : JobShape(d)'
  BY <1>2, <1>8, JobStands
<1>13. JobShape(c)'
  BY <1>2, <1>3, <1>6, <1>8, <1>9 DEF JobShape
<1>14. PicBusy(c, k) /\ PicBusy(c, k)' /\ Emptied(c, k)'
  BY <1>2, <1>4, <1>6, <1>8, <1>9 DEF PicBusy, Emptied
<1>15. ASSUME NEW l \in Pics \ {k}
       PROVE  PicRow(l)' /\ PicAlone(l)' /\ (l \notin spoilt' => PicClean(l)')
  <2>1. Addr(l) \in job'[c].left <=> Addr(l) \in job[c].left
    BY <1>4, <1>6, <1>8, AddrApart
  <2> QED
    BY <1>2, <1>6, <1>8, <1>10, <2>1, PicKept
<1>16. ASSUME NEW m \in Meds \ spoilt' PROVE MedClean(m)'
  <2>1. ~MedBusy(c, m) /\ ~MedBusy(c, m)'
    BY <1>2, <1>6, <1>8 DEF MedBusy
  <2> QED
    BY <1>2, <1>4, <1>8, <1>10, <2>1, KeysApart, MedKept
<1>17. \A d \in Call :
         /\ job'[d].op = job[d].op
         /\ PicBusy(d, k)' <=> PicBusy(d, k)
         /\ Writing(d, k)' <=> Writing(d, k)
         /\ job'[d].op \in {"upload", "remove"} => job'[d] = job[d]
  BY <1>2, <1>6, <1>8, <1>9, <1>14 DEF PicBusy, Writing
<1>18. PicRow(k)'
  BY <1>2, <1>4, <1>9, <1>10 DEF FileInv, PicRow
<1>19. PicAlone(k)'
  <2>1. PicAlone(k)
    BY <1>4 DEF FileInv
  <2>2. ASSUME NEW d \in Call, job'[d].op \in {"upload", "remove"}, job'[d].key = k,
               job'[d].alone
        PROVE  FALSE
    <3>1. d = c
      BY <1>14, <1>17, <2>1, <2>2 DEF PicAlone
    <3> QED
      BY <1>2, <1>17, <2>2, <3>1
  <2> QED
    BY <2>2 DEF PicAlone
<1>20. ASSUME k \notin spoilt' PROVE PicClean(k)'
  <2>1. PicClean(k)
    BY <1>4, <1>10, <1>20 DEF FileInv
  <2>2. \A d \in Call : ~Writing(d, k)
    BY <1>2, <1>14, <2>1 DEF PicClean, PicBusy, Writing
  <2>3. ~VirtualHosted => k \notin files'
    <3>1. CASE url[k] # None
      BY <1>7, <1>10, <1>20, <3>1
    <3>2. CASE url[k] = None
      BY <1>10, <2>1, <2>2, <3>2 DEF PicClean
    <3> QED
      BY <3>1, <3>2
  <2>4. \A d, e \in Call : PicBusy(d, k)' /\ PicBusy(e, k)' =>
          (job'[d].op = "upload" <=> job'[e].op = "upload")
    BY <1>17, <2>1 DEF PicClean
  <2>5. \A d \in Call, o \in gone' :
          job'[d].op = "upload" /\ job'[d].key = k => ~Owned(o, k)'
    BY <1>2, <1>9, <1>17, <2>1 DEF PicClean
  <2> QED
    BY <1>14, <2>3, <2>4, <2>5 DEF PicClean
<1> QED
  BY <1>2, <1>11, <1>12, <1>13, <1>15, <1>16, <1>18, <1>19, <1>20 DEF FileInv

\* The row of the category or tile goes.
LEMMA FileDeleteRow ==
  ASSUME FileInv, NEW c \in Call, Stored!DeleteRow(c) PROVE FileInv'
<1>1. PICK o \in Owner : o = job[c].owner
  BY FileTyped, JobKinds DEF Stored!DeleteRow, DelJob
<1>2. /\ job[c].op = "delete" /\ job[c].left = {}
      /\ gone' = gone \cup {o}
      /\ url' = [k \in Pics |-> IF Owned(o, k) THEN None ELSE url[k]]
      /\ job' = [job EXCEPT ![c] = Stored!Idle]
      /\ UNCHANGED <<folder, media, files, now, spoilt>>
  BY <1>1 DEF Stored!DeleteRow, Pics, Owned, Stored!PictureKeys, Stored!Key
<1>3. /\ job' \in [Call -> Stored!Job] /\ job'[c] = Stored!Idle /\ job'[c].op = "idle"
      /\ \A d \in Call \ {c} : job'[d] = job[d]
  BY <1>2, FileTyped, KindsAreJobs DEF Stored!Idle
<1>4. \A p, k : Owned(p, k)' <=> Owned(p, k)
  BY <1>2 DEF Owned
<1>5. /\ \A k \in Pics : url'[k] = IF Owned(o, k) THEN None ELSE url[k]
      /\ url' \in [Pics -> Stored!Address \cup {None}]
  BY <1>2, FileTyped
<1>6. Stored!TypeOK'
  BY <1>1, <1>2, <1>3, <1>5, FileTyped DEF Stored!TypeOK, Pics, Meds
<1>7. \A d \in Call \ {c} : JobShape(d)'
  BY <1>2, <1>3, JobStands
<1>8. JobShape(c)'
  BY <1>3 DEF JobShape
<1>9. ASSUME NEW m \in Meds \ spoilt' PROVE MedClean(m)'
  <2>1. ~MedBusy(c, m) /\ ~MedBusy(c, m)'
    BY <1>2, <1>3 DEF MedBusy
  <2> QED
    BY <1>2, <1>3, <2>1, MedKept
<1>10. ASSUME NEW k \in Pics, ~Owned(o, k)
       PROVE  PicRow(k)' /\ PicAlone(k)' /\ (k \notin spoilt' => PicClean(k)')
  <2>1. ~PicBusy(c, k) /\ ~PicBusy(c, k)'
    BY <1>1, <1>2, <1>3, <1>10 DEF PicBusy
  <2>2. \A p \in gone' : Owned(p, k) => p \in gone
    BY <1>2, <1>10
  <2>3. url'[k] = url[k]
    BY <1>5, <1>10
  <2> QED
    BY <1>2, <1>3, <2>1, <2>2, <2>3, PicKept
<1>11. ASSUME NEW k \in Pics, Owned(o, k)
       PROVE  PicRow(k)' /\ PicAlone(k)' /\ (k \notin spoilt' => PicClean(k)')
  <2>1. url'[k] = None
    BY <1>5, <1>11
  <2>2. PicRow(k)'
    BY <2>1 DEF PicRow
  <2>3. PicBusy(c, k) /\ Emptied(c, k)
    BY <1>1, <1>2, <1>11 DEF PicBusy, Emptied
  <2>4. \A d \in Call : /\ PicBusy(d, k)' => PicBusy(d, k) /\ d # c /\ job'[d] = job[d]
                        /\ Writing(d, k)' => Writing(d, k)
                        /\ Emptied(d, k)' => Emptied(d, k)
                        /\ job'[d].op \in {"upload", "remove"} /\ job'[d].key = k =>
                             PicBusy(d, k)'
    BY <1>3, <1>4 DEF PicBusy, Writing, Emptied
  <2>5. PicAlone(k)'
    <3>1. ASSUME NEW d \in Call, job'[d].op \in {"upload", "remove"}, job'[d].key = k,
                 job'[d].alone
          PROVE  FALSE
      <4>1. job'[d] = job[d] /\ d # c
        BY <2>4, <3>1
      <4> QED
        BY <2>3, <3>1, <4>1 DEF FileInv, PicAlone
    <3> QED
      BY <3>1 DEF PicAlone
  <2>6. ASSUME k \notin spoilt' PROVE PicClean(k)'
    <3>1. PicClean(k)
      BY <1>2, <2>6 DEF FileInv
    <3>2. \A d \in Call : PicBusy(d, k) => job[d].op # "upload"
      BY <1>2, <2>3, <3>1 DEF PicClean
    <3>3. \A d \in Call : PicBusy(d, k)' => job'[d].op # "upload"
      BY <2>4, <3>2
    <3>4. \A d \in Call : ~Writing(d, k)' /\ ~(job'[d].op = "upload" /\ job'[d].key = k)
      BY <2>4, <3>3 DEF Writing
    <3>5. ~VirtualHosted => k \notin files'
      BY <1>2, <2>3, <3>1 DEF PicClean
    <3> QED
      BY <2>1, <3>3, <3>4, <3>5 DEF PicClean
  <2> QED
    BY <2>2, <2>5, <2>6
<1> QED
  BY <1>2, <1>6, <1>7, <1>8, <1>9, <1>10, <1>11 DEF FileInv

\* An upload stores its file, or ends with an error.
LEMMA FilePut ==
  ASSUME FileInv, NEW c \in Call, Stored!PutFile(c) PROVE FileInv'
<1>1. PICK k \in Pics : k = job[c].key
  BY FileTyped, JobKinds DEF Stored!PutFile, PicJob
<1>2. /\ job[c].op = "upload" /\ job[c].at = "put"
      /\ UNCHANGED <<folder, gone, url, media, now>>
  BY DEF Stored!PutFile
<1>3. job[c] \in PicJob /\ job[c] \in Stored!Job /\ JobShape(c) /\ PicBusy(c, k)
  BY <1>1, <1>2, FileTyped, JobKinds DEF FileInv, PicBusy
<1>4. \A o, l : Owned(o, l)' <=> Owned(o, l)
  BY <1>2 DEF Owned
<1>5. PicAlone(k)
  BY DEF FileInv
<1>6. CASE /\ files' = files \cup {k} /\ job' = [job EXCEPT ![c].at = "write"]
           /\ UNCHANGED spoilt
  <2> DEFINE moved == [job[c] EXCEPT !.at = "write"]
  <2>1. job' = [job EXCEPT ![c] = moved]
    BY <1>6, FileTyped
  <2>2. /\ moved \in PicJob /\ moved.op = "upload" /\ moved.key = k
        /\ moved.old = job[c].old /\ moved.alone = job[c].alone /\ moved.at = "write"
    BY <1>1, <1>2, <1>3 DEF PicJob
  <2> HIDE DEF moved
  <2>3. /\ job' \in [Call -> Stored!Job] /\ job'[c] = moved
        /\ \A d \in Call \ {c} : job'[d] = job[d]
    BY <2>1, <2>2, FileTyped, KindsAreJobs
  <2>4. Stored!TypeOK'
    BY <1>2, <1>6, <2>3, FileTyped DEF Stored!TypeOK, Pics, Meds
  <2>5. \A d \in Call \ {c} : JobShape(d)'
    BY <1>2, <2>3, JobStands
  <2>6. JobShape(c)'
    BY <1>1, <1>2, <1>3, <1>4, <2>2, <2>3 DEF JobShape
  <2>7. ASSUME NEW l \in Pics \ {k}
        PROVE  PicRow(l)' /\ PicAlone(l)' /\ (l \notin spoilt' => PicClean(l)')
    <3>1. ~PicBusy(c, l) /\ ~PicBusy(c, l)'
      BY <1>1, <1>2, <2>2, <2>3 DEF PicBusy
    <3> QED
      BY <1>2, <1>6, <2>3, <3>1, PicKept
  <2>8. ASSUME NEW m \in Meds \ spoilt' PROVE MedClean(m)'
    <3>1. ~MedBusy(c, m) /\ ~MedBusy(c, m)'
      BY <1>2, <2>2, <2>3 DEF MedBusy
    <3> QED
      BY <1>2, <1>6, <2>3, <3>1, KeysApart, MedKept
  <2>9. PicRow(k)'
    BY <1>2, <1>4, <1>6 DEF FileInv, PicRow
  <2>10. \A d \in Call :
           /\ job'[d].op = job[d].op
           /\ PicBusy(d, k)' <=> PicBusy(d, k)
           /\ job[d].op # "upload" => (Emptied(d, k)' <=> Emptied(d, k))
           /\ job'[d].op \in {"upload", "remove"} =>
                job'[d].key = job[d].key /\ job'[d].alone = job[d].alone
    BY <1>1, <1>2, <1>4, <2>2, <2>3 DEF PicBusy, Emptied
  <2>11. PicAlone(k)'
    BY <1>5, <1>6, <2>10 DEF PicAlone
  <2>12. ASSUME k \notin spoilt' PROVE PicClean(k)'
    <3>1. PicClean(k)
      BY <1>6, <2>12 DEF FileInv
    <3>2. Writing(c, k)'
      BY <2>2, <2>3 DEF Writing
    <3>3. \A d \in Call : PicBusy(d, k)' => job'[d].op = "upload" /\ ~Emptied(d, k)'
      BY <1>2, <1>3, <2>10, <3>1 DEF PicClean, Emptied
    <3>4. \A d \in Call, o \in gone' :
            job'[d].op = "upload" /\ job'[d].key = k => ~Owned(o, k)'
      BY <1>2, <1>4, <2>10, <3>1 DEF PicClean
    <3> QED
      BY <1>6, <3>2, <3>3, <3>4 DEF PicClean
  <2> QED
    BY <1>2, <2>4, <2>5, <2>6, <2>7, <2>8, <2>9, <2>11, <2>12 DEF FileInv
<1>7. CASE /\ job' = [job EXCEPT ![c] = Stored!Idle] /\ spoilt' = spoilt \cup {k}
           /\ UNCHANGED files
  <2>1. /\ job' \in [Call -> Stored!Job] /\ job'[c] = Stored!Idle /\ job'[c].op = "idle"
        /\ \A d \in Call \ {c} : job'[d] = job[d]
    BY <1>7, FileTyped, KindsAreJobs DEF Stored!Idle
  <2>2. Stored!TypeOK'
    BY <1>2, <1>7, <2>1, FileTyped DEF Stored!TypeOK, Pics, Meds
  <2>3. \A d \in Call : JobShape(d)'
    BY <1>2, <2>1, JobStands DEF JobShape
  <2>4. ASSUME NEW l \in Pics \ {k}
        PROVE  PicRow(l)' /\ PicAlone(l)' /\ (l \notin spoilt' => PicClean(l)')
    <3>1. ~PicBusy(c, l) /\ ~PicBusy(c, l)'
      BY <1>1, <1>2, <2>1 DEF PicBusy
    <3> QED
      BY <1>2, <1>7, <2>1, <3>1, PicKept
  <2>5. ASSUME NEW m \in Meds \ spoilt' PROVE MedClean(m)'
    <3>1. ~MedBusy(c, m) /\ ~MedBusy(c, m)'
      BY <1>2, <2>1 DEF MedBusy
    <3> QED
      BY <1>2, <1>7, <2>1, <3>1, KeysApart, MedKept
  <2>6. PicRow(k)'
    BY <1>2, <1>4, <1>7 DEF FileInv, PicRow
  <2>7. PicAlone(k)'
    <3>1. ASSUME NEW d \in Call, job'[d].op \in {"upload", "remove"}, job'[d].key = k,
                 job'[d].alone
          PROVE  FALSE
      <4>1. job'[d] = job[d] /\ d # c
        BY <2>1, <3>1
      <4> QED
        BY <1>3, <1>5, <3>1, <4>1 DEF PicAlone
    <3> QED
      BY <3>1 DEF PicAlone
  <2>8. k \in spoilt'
    BY <1>7
  <2> QED
    BY <1>2, <2>2, <2>3, <2>4, <2>5, <2>6, <2>7, <2>8 DEF FileInv
<1> QED
  BY <1>1, <1>6, <1>7 DEF Stored!PutFile, Stored!Upload

\* The column of the row is written, if there still is a row.
LEMMA FileWrite ==
  ASSUME FileInv, NEW c \in Call, Stored!WriteUrl(c) PROVE FileInv'
<1>1. PICK k \in Pics : k = job[c].key
  BY FileTyped, JobKinds DEF Stored!WriteUrl, PicJob
<1>2. /\ job[c].op \in {"upload", "remove"} /\ job[c].at = "write"
      /\ url' = IF k[2] \notin gone
                THEN [url EXCEPT ![k] = IF job[c].op = "upload" THEN Addr(k) ELSE None]
                ELSE url
      /\ spoilt' = IF k[2] \notin gone /\ job[c].op = "upload" /\ job[c].alone
                   THEN spoilt \ {k} ELSE spoilt
      /\ job' = [job EXCEPT ![c] = Stored!Idle]
      /\ UNCHANGED <<folder, gone, media, files, now>>
  BY <1>1 DEF Stored!WriteUrl, Addr
<1>3. JobShape(c) /\ PicBusy(c, k) /\ PicRow(k) /\ PicAlone(k)
  BY <1>1, <1>2 DEF FileInv, PicBusy
<1>4. \A o, l : Owned(o, l)' <=> Owned(o, l)
  BY <1>2 DEF Owned
<1>5. PICK o \in Owner : Owned(o, k)
  BY <1>1, <1>2, <1>3 DEF JobShape
<1>6. k[2] = o /\ \A p : Owned(p, k) => p = o
  BY <1>5, OneOwner
<1>7. /\ job' \in [Call -> Stored!Job] /\ job'[c] = Stored!Idle /\ job'[c].op = "idle"
      /\ \A d \in Call \ {c} : job'[d] = job[d]
  BY <1>2, FileTyped, KindsAreJobs DEF Stored!Idle
<1>8. /\ url' \in [Pics -> Stored!Address \cup {None}]
      /\ \A l \in Pics \ {k} : url'[l] = url[l]
      /\ o \notin gone => url'[k] = IF job[c].op = "upload" THEN Addr(k) ELSE None
      /\ o \in gone => url'[k] = None
  <2>1. CASE o \notin gone
    <3> DEFINE v == IF job[c].op = "upload" THEN Addr(k) ELSE None
    <3>1. v \in Stored!Address \cup {None} /\ url' = [url EXCEPT ![k] = v]
      BY <1>2, <1>6, <2>1, AddrUrls
    <3> HIDE DEF v
    <3>2. /\ url' \in [Pics -> Stored!Address \cup {None}]
          /\ \A l \in Pics \ {k} : url'[l] = url[l]
          /\ url'[k] = v
      BY <3>1, FileTyped
    <3> QED
      BY <2>1, <3>2 DEF v
  <2>2. CASE o \in gone
    BY <1>2, <1>3, <1>5, <1>6, <2>2, FileTyped DEF PicRow
  <2> QED
    BY <2>1, <2>2
<1>9. Stored!TypeOK'
  BY <1>2, <1>7, <1>8, FileTyped DEF Stored!TypeOK, Pics, Meds
<1>10. \A d \in Call : JobShape(d)'
  BY <1>2, <1>7, JobStands DEF JobShape
<1>11. \A l : l # k => (l \in spoilt' <=> l \in spoilt)
  BY <1>2
<1>12. ASSUME NEW l \in Pics \ {k}
       PROVE  PicRow(l)' /\ PicAlone(l)' /\ (l \notin spoilt' => PicClean(l)')
  <2>1. ~PicBusy(c, l) /\ ~PicBusy(c, l)'
    BY <1>1, <1>2, <1>7 DEF PicBusy
  <2> QED
    BY <1>2, <1>7, <1>8, <1>11, <2>1, PicKept
<1>13. ASSUME NEW m \in Meds \ spoilt' PROVE MedClean(m)'
  <2>1. ~MedBusy(c, m) /\ ~MedBusy(c, m)'
    BY <1>2, <1>7 DEF MedBusy
  <2> QED
    BY <1>2, <1>7, <1>11, <2>1, KeysApart, MedKept
<1>14. PicRow(k)'
  BY <1>2, <1>4, <1>6, <1>8 DEF PicRow
<1>15. \A d \in Call : /\ PicBusy(d, k)' => PicBusy(d, k) /\ d # c /\ job'[d] = job[d]
                       /\ Writing(d, k)' => Writing(d, k)
                       /\ Emptied(d, k)' => Emptied(d, k)
                       /\ job'[d].op \in {"upload", "remove"} /\ job'[d].key = k =>
                            PicBusy(d, k)'
                       /\ d # c => (Putting(d, k)' <=> Putting(d, k))
  BY <1>4, <1>7 DEF PicBusy, Writing, Emptied, Putting
<1>16. PicAlone(k)'
  <2>1. ASSUME NEW d \in Call, job'[d].op \in {"upload", "remove"}, job'[d].key = k,
               job'[d].alone
        PROVE  FALSE
    <3>1. job'[d] = job[d] /\ d # c
      BY <1>15, <2>1
    <3> QED
      BY <1>3, <2>1, <3>1 DEF PicAlone
  <2> QED
    BY <2>1 DEF PicAlone
<1>17. ASSUME k \notin spoilt' PROVE PicClean(k)'
  <2>1. CASE o \notin gone /\ job[c].op = "upload" /\ job[c].alone
    <3>1. Writing(c, k)
      BY <1>1, <1>2, <2>1 DEF Writing
    <3>2. k \in files /\ \A d \in Call : PicBusy(d, k) => d = c
      BY <1>1, <1>2, <1>3, <2>1, <3>1 DEF PicAlone
    <3>3. \A d \in Call : ~PicBusy(d, k)'
      BY <1>15, <3>2
    <3>4. url'[k] # None /\ k \in files'
      BY <1>2, <1>8, <2>1, <3>2, AddrUrls
    <3> QED
      BY <1>15, <3>3, <3>4 DEF PicClean
  <2>2. CASE ~(o \notin gone /\ job[c].op = "upload" /\ job[c].alone)
    <3>1. PicClean(k)
      BY <1>2, <1>6, <1>17, <2>2 DEF FileInv
    <3>2. \A d, e \in Call : PicBusy(d, k)' /\ PicBusy(e, k)' =>
            (job'[d].op = "upload" <=> job'[e].op = "upload")
      BY <1>15, <3>1 DEF PicClean
    <3>3. \A d \in Call, p \in gone' :
            job'[d].op = "upload" /\ job'[d].key = k => ~Owned(p, k)'
      BY <1>2, <1>4, <1>15, <3>1 DEF PicClean, PicBusy
    <3>4. CASE job[c].op = "upload"
      <4>1. o \notin gone
        BY <1>1, <1>5, <3>1, <3>4 DEF PicClean
      <4>2. url'[k] # None
        BY <1>8, <3>4, <4>1, AddrUrls
      <4>3. \A d \in Call : PicBusy(d, k) => job[d].op = "upload" /\ ~Emptied(d, k)
        BY <1>3, <3>1, <3>4 DEF PicClean, Emptied
      <4>4. Writing(c, k) /\ ~Putting(c, k)
        BY <1>1, <1>2, <3>4 DEF Writing, Putting
      <4>5. k \notin files' => \E d \in Call : Putting(d, k)'
        BY <1>2, <1>15, <3>1, <4>3, <4>4 DEF PicClean
      <4>6. \A d \in Call : ~(PicBusy(d, k)' /\ Emptied(d, k)')
        BY <1>15, <4>3
      <4> QED
        BY <3>2, <3>3, <4>2, <4>5, <4>6 DEF PicClean
    <3>5. CASE job[c].op = "remove"
      <4>1. url'[k] = None
        BY <1>8, <3>5
      <4>2. Emptied(c, k)
        BY <1>2, <3>5 DEF Emptied
      <4>3. \A d \in Call : ~Writing(d, k)
        BY <1>3, <3>1, <3>5 DEF PicClean, PicBusy, Writing
      <4>4. ~VirtualHosted => k \notin files'
        BY <1>2, <1>3, <3>1, <4>2 DEF PicClean
      <4> QED
        BY <1>15, <3>2, <3>3, <4>1, <4>3, <4>4 DEF PicClean
    <3> QED
      BY <1>2, <3>4, <3>5
  <2> QED
    BY <2>1, <2>2
<1> QED
  BY <1>2, <1>9, <1>10, <1>12, <1>13, <1>14, <1>16, <1>17 DEF FileInv

\* The next file of a request is stored, or the request ends.
LEMMA FilePutMedia ==
  ASSUME FileInv, NEW c \in Call, Stored!PutMedia(c) PROVE FileInv'
<1> DEFINE key == Stored!MediaKey(job[c].owner, now, job[c].i)
<1>1. /\ job[c].op = "media" /\ job[c].key = None /\ job[c].i < MaxFiles
      /\ UNCHANGED <<folder, gone, url, media, now>>
      /\ \/ /\ files' = files \cup {key}
            /\ job' = [job EXCEPT ![c].key = key]
            /\ spoilt' = IF key \in files \/ Stored!OnKey(key) # {}
                         THEN spoilt \cup {key} ELSE spoilt
         \/ /\ job' = [job EXCEPT ![c] = Stored!Idle]
            /\ UNCHANGED <<files, spoilt>>
  BY DEF Stored!PutMedia, Stored!Upload
<1>2. job[c] \in MedJob /\ job[c].owner \in Owner /\ job[c].i \in 0 .. MaxFiles
  BY <1>1, FileTyped, JobKinds DEF MedJob
<1>3. key \in Meds
  BY <1>1, <1>2, FileTyped, FileNames DEF Meds, Stored!AllMediaKeys
<1>4. PICK k \in Meds : k = key
  BY <1>3
<1> HIDE DEF key
<1>5. CASE /\ files' = files \cup {k} /\ job' = [job EXCEPT ![c].key = k]
           /\ spoilt' = IF k \in files \/ Stored!OnKey(k) # {}
                        THEN spoilt \cup {k} ELSE spoilt
  <2> DEFINE moved == [job[c] EXCEPT !.key = k]
  <2>1. job' = [job EXCEPT ![c] = moved]
    BY <1>5, FileTyped
  <2>2. /\ moved \in MedJob /\ moved.op = "media" /\ moved.key = k /\ moved.i = job[c].i
    BY <1>1, <1>2, <1>4 DEF MedJob
  <2> HIDE DEF moved
  <2>3. /\ job' \in [Call -> Stored!Job] /\ job'[c] = moved
        /\ \A d \in Call \ {c} : job'[d] = job[d]
    BY <2>1, <2>2, FileTyped, KindsAreJobs
  <2>4. spoilt \subseteq spoilt' /\ spoilt' \subseteq Pics \cup Meds
    BY <1>4, <1>5, FileTyped
  <2>5. Stored!TypeOK'
    BY <1>1, <1>4, <1>5, <2>3, <2>4, FileTyped DEF Stored!TypeOK, Pics, Meds
  <2>6. \A d \in Call \ {c} : JobShape(d)'
    BY <1>1, <2>3, JobStands
  <2>7. JobShape(c)'
    BY <1>1, <2>2, <2>3 DEF JobShape
  <2>8. ASSUME NEW l \in Pics
        PROVE  PicRow(l)' /\ PicAlone(l)' /\ (l \notin spoilt' => PicClean(l)')
    <3>1. ~PicBusy(c, l) /\ ~PicBusy(c, l)'
      BY <1>1, <2>2, <2>3 DEF PicBusy
    <3> QED
      BY <1>1, <1>4, <1>5, <2>3, <2>4, <3>1, KeysApart, PicKept
  <2>9. ASSUME NEW m \in Meds \ {k}, m \notin spoilt' PROVE MedClean(m)'
    <3>1. ~MedBusy(c, m) /\ ~MedBusy(c, m)'
      BY <1>1, <2>2, <2>3, <2>9, FileNames DEF MedBusy
    <3> QED
      BY <1>1, <1>5, <2>3, <2>4, <2>9, <3>1, MedKept
  <2>10. ASSUME k \notin spoilt' PROVE MedClean(k)'
    <3>1. k \notin files /\ Stored!OnKey(k) = {} /\ k \notin spoilt
      BY <1>5, <2>10
    <3>2. \A d \in Call : ~MedBusy(d, k)
      BY <1>4, <3>1, KeysBusy DEF Stored!OnKey
    <3>3. MedClean(k) /\ ~ShownMed(k)
      BY <1>4, <3>1, <3>2 DEF FileInv, MedClean, MedBusy
    <3>4. ~ShownMed(k)' /\ \A a \in MediaId : media'[a] # Addr(k)
      BY <1>1, <3>3 DEF ShownMed
    <3>5. \A d \in Call \ {c} : ~MedBusy(d, k)'
      BY <2>3, <3>2 DEF MedBusy
    <3>6. job'[c].op = "media" /\ job'[c].key = k /\ k \in files'
      BY <1>5, <2>2, <2>3
    <3> QED
      BY <3>4, <3>5, <3>6 DEF MedClean, MedBusy
  <2> QED
    BY <1>1, <2>5, <2>6, <2>7, <2>8, <2>9, <2>10 DEF FileInv
<1>6. CASE job' = [job EXCEPT ![c] = Stored!Idle] /\ UNCHANGED <<files, spoilt>>
  <2>1. /\ job' \in [Call -> Stored!Job] /\ job'[c] = Stored!Idle /\ job'[c].op = "idle"
        /\ \A d \in Call \ {c} : job'[d] = job[d]
    BY <1>6, FileTyped, KindsAreJobs DEF Stored!Idle
  <2>2. Stored!TypeOK'
    BY <1>1, <1>6, <2>1, FileTyped DEF Stored!TypeOK, Pics, Meds
  <2>3. \A d \in Call : JobShape(d)'
    BY <1>1, <2>1, JobStands DEF JobShape
  <2>4. ASSUME NEW l \in Pics
        PROVE  PicRow(l)' /\ PicAlone(l)' /\ (l \notin spoilt' => PicClean(l)')
    <3>1. ~PicBusy(c, l) /\ ~PicBusy(c, l)'
      BY <1>1, <2>1 DEF PicBusy
    <3> QED
      BY <1>1, <1>6, <2>1, <3>1, PicKept
  <2>5. ASSUME NEW m \in Meds \ spoilt' PROVE MedClean(m)'
    <3>1. ~MedBusy(c, m) /\ ~MedBusy(c, m)'
      BY <1>1, <2>1, FileNames DEF MedBusy
    <3> QED
      BY <1>1, <1>6, <2>1, <3>1, MedKept
  <2> QED
    BY <1>1, <2>2, <2>3, <2>4, <2>5 DEF FileInv
<1> QED
  BY <1>1, <1>4, <1>5, <1>6

\* The row of a stored file is written.
LEMMA FileCreateMedia ==
  ASSUME FileInv, NEW c \in Call, Stored!CreateListingMedia(c) PROVE FileInv'
<1>1. PICK id \in MediaId : /\ Stored!FreshId(id)
                            /\ media' = [media EXCEPT ![id] = Addr(job[c].key)]
  BY DEF Stored!CreateListingMedia, Addr
<1>2. /\ job[c].op = "media" /\ job[c].key # None
      /\ UNCHANGED <<folder, gone, url, files, now, spoilt>>
      /\ \/ job' = [job EXCEPT ![c].key = None, ![c].i = @ + 1]
         \/ job' = [job EXCEPT ![c] = Stored!Idle]
  BY DEF Stored!CreateListingMedia
<1>3. job[c] \in MedJob /\ job[c].i \in 0 .. MaxFiles /\ job[c].i < MaxFiles
  BY <1>2, FileTyped, JobKinds DEF MedJob, FileInv, JobShape
<1>4. PICK k \in Meds : k = job[c].key
  BY <1>2, <1>3 DEF MedJob
<1>5. /\ media[id] = None /\ media' = [media EXCEPT ![id] = Addr(k)]
      /\ \A d \in Call : job[d].op = "unmedia" => job[d].id # id
  BY <1>1, <1>4 DEF Stored!FreshId
<1>6. /\ media' \in [MediaId -> Stored!Urls \cup {None}] /\ media'[id] = Addr(k)
      /\ \A a \in MediaId \ {id} : media'[a] = media[a]
  BY <1>4, <1>5, FileTyped, AddrUrls
<1>7. /\ job' \in [Call -> Stored!Job]
      /\ job'[c].op \in {"media", "idle"}
      /\ job'[c].op = "media" => job'[c].key = None
      /\ \A d \in Call \ {c} : job'[d] = job[d]
  <2>1. CASE job' = [job EXCEPT ![c].key = None, ![c].i = @ + 1]
    <3> DEFINE moved == [job[c] EXCEPT !.key = None, !.i = @ + 1]
    <3>1. job' = [job EXCEPT ![c] = moved]
      BY <2>1, FileTyped
    <3>2. job[c].i + 1 \in 0 .. MaxFiles
      BY <1>3, FileNames
    <3>3. moved \in MedJob /\ moved.op = "media" /\ moved.key = None
      BY <1>3, <3>2 DEF MedJob
    <3> HIDE DEF moved
    <3> QED
      BY <3>1, <3>3, FileTyped, KindsAreJobs
  <2>2. CASE job' = [job EXCEPT ![c] = Stored!Idle]
    BY <2>2, FileTyped, KindsAreJobs DEF Stored!Idle
  <2> QED
    BY <1>2, <2>1, <2>2
<1>8. Stored!TypeOK'
  BY <1>2, <1>6, <1>7, FileTyped DEF Stored!TypeOK, Pics, Meds
<1>9. ASSUME NEW d \in Call PROVE JobShape(d)'
  <2>1. CASE d = c
    BY <1>7, <2>1 DEF JobShape
  <2>2. CASE d # c
    <3>1. job[d].op = "unmedia" => job[d].id \in MediaId \ {id}
      BY <1>5, FileTyped, JobKinds DEF UnmJob
    <3> QED
      BY <1>2, <1>6, <1>7, <2>2, <3>1, JobStands
  <2> QED
    BY <2>1, <2>2
<1>10. \A a \in MediaId : media'[a] # None => \E m \in Meds : media'[a] = Addr(m)
  BY <1>4, <1>6 DEF FileInv
<1>11. ASSUME NEW l \in Pics
       PROVE  PicRow(l)' /\ PicAlone(l)' /\ (l \notin spoilt' => PicClean(l)')
  <2>1. ~PicBusy(c, l) /\ ~PicBusy(c, l)'
    BY <1>2, <1>7 DEF PicBusy
  <2> QED
    BY <1>2, <1>7, <2>1, PicKept
<1>12. ASSUME NEW m \in Meds \ {k}, m \notin spoilt' PROVE MedClean(m)'
  <2>1. ~MedBusy(c, m) /\ ~MedBusy(c, m)'
    BY <1>2, <1>4, <1>7, <1>12, FileNames DEF MedBusy
  <2>2. \A a \in MediaId : media'[a] = Addr(m) <=> media[a] = Addr(m)
    BY <1>5, <1>6, <1>12, AddrApart, AddrUrls
  <2> QED
    BY <1>2, <1>7, <1>12, <2>1, <2>2, MedKept
<1>13. ASSUME k \notin spoilt' PROVE MedClean(k)'
  <2>1. MedClean(k) /\ MedBusy(c, k)
    BY <1>2, <1>4, <1>13 DEF FileInv, MedBusy
  <2>2. k \in files' /\ ~ShownMed(k) /\ \A d \in Call : MedBusy(d, k) => d = c
    BY <1>2, <1>4, <2>1 DEF MedClean
  <2>3. \A d \in Call : ~MedBusy(d, k)'
    BY <1>2, <1>7, <2>2, FileNames DEF MedBusy
  <2>4. ShownMed(k)' /\ \A a \in MediaId : media'[a] = Addr(k) => a = id
    BY <1>6, <2>2 DEF ShownMed
  <2> QED
    BY <2>2, <2>3, <2>4 DEF MedClean, MedBusy
<1> QED
  BY <1>2, <1>8, <1>9, <1>10, <1>11, <1>12, <1>13 DEF FileInv

LEMMA FileAnswered ==
  ASSUME FileInv, NEW c \in Call, Stored!MediaAnswered(c) PROVE FileInv'
<1>1. /\ job[c].op = "media" /\ job[c].key = None
      /\ job' = [job EXCEPT ![c] = Stored!Idle]
      /\ UNCHANGED <<folder, gone, url, media, files, now, spoilt>>
  BY DEF Stored!MediaAnswered
<1>2. /\ job' \in [Call -> Stored!Job] /\ job'[c] = Stored!Idle /\ job'[c].op = "idle"
      /\ \A d \in Call \ {c} : job'[d] = job[d]
  BY <1>1, FileTyped, KindsAreJobs DEF Stored!Idle
<1>3. Stored!TypeOK'
  BY <1>1, <1>2, FileTyped DEF Stored!TypeOK, Pics, Meds
<1>4. \A d \in Call : JobShape(d)'
  BY <1>1, <1>2, JobStands DEF JobShape
<1>5. ASSUME NEW l \in Pics
      PROVE  PicRow(l)' /\ PicAlone(l)' /\ (l \notin spoilt' => PicClean(l)')
  <2>1. ~PicBusy(c, l) /\ ~PicBusy(c, l)'
    BY <1>1, <1>2 DEF PicBusy
  <2> QED
    BY <1>1, <1>2, <2>1, PicKept
<1>6. ASSUME NEW m \in Meds \ spoilt' PROVE MedClean(m)'
  <2>1. ~MedBusy(c, m) /\ ~MedBusy(c, m)'
    BY <1>1, <1>2, FileNames DEF MedBusy
  <2> QED
    BY <1>1, <1>2, <2>1, MedKept
<1> QED
  BY <1>1, <1>3, <1>4, <1>5, <1>6 DEF FileInv

\* The row of a further file goes.
LEMMA FileDeleteMedia ==
  ASSUME FileInv, NEW c \in Call, Stored!DeleteListingMedia(c) PROVE FileInv'
<1>1. /\ job[c].op = "unmedia" /\ job[c].at = "write"
      /\ job' = [job EXCEPT ![c] = Stored!Idle]
      /\ media' = [media EXCEPT ![job[c].id] = None]
      /\ UNCHANGED <<folder, gone, url, files, now, spoilt>>
  BY DEF Stored!DeleteListingMedia
<1>2. job[c] \in UnmJob /\ JobShape(c)
  BY <1>1, FileTyped, JobKinds DEF FileInv
<1>3. PICK id \in MediaId : id = job[c].id
  BY <1>2 DEF UnmJob
<1>4. PICK k \in Meds : job[c].old = Addr(k)
  BY <1>1, <1>2 DEF JobShape
<1>5. media[id] \in {Addr(k), None}
  BY <1>1, <1>2, <1>3, <1>4 DEF JobShape
<1>6. /\ media' \in [MediaId -> Stored!Urls \cup {None}] /\ media'[id] = None
      /\ \A a \in MediaId \ {id} : media'[a] = media[a]
  BY <1>1, <1>3, FileTyped
<1>7. /\ job' \in [Call -> Stored!Job] /\ job'[c] = Stored!Idle /\ job'[c].op = "idle"
      /\ \A d \in Call \ {c} : job'[d] = job[d]
  BY <1>1, FileTyped, KindsAreJobs DEF Stored!Idle
<1>8. Stored!TypeOK'
  BY <1>1, <1>6, <1>7, FileTyped DEF Stored!TypeOK, Pics, Meds
<1>9. ASSUME NEW d \in Call PROVE JobShape(d)'
  <2>1. CASE d = c
    BY <1>7, <2>1 DEF JobShape
  <2>2. CASE d # c
    <3>1. job[d].op = "unmedia" => job[d].id \in MediaId
      BY FileTyped, JobKinds DEF UnmJob
    <3> QED
      BY <1>1, <1>6, <1>7, <2>2, <3>1, JobStands
  <2> QED
    BY <2>1, <2>2
<1>10. \A a \in MediaId : media'[a] # None => \E m \in Meds : media'[a] = Addr(m)
  BY <1>6 DEF FileInv
<1>11. ASSUME NEW l \in Pics
       PROVE  PicRow(l)' /\ PicAlone(l)' /\ (l \notin spoilt' => PicClean(l)')
  <2>1. ~PicBusy(c, l) /\ ~PicBusy(c, l)'
    BY <1>1, <1>7 DEF PicBusy
  <2> QED
    BY <1>1, <1>7, <2>1, PicKept
<1>12. ASSUME NEW m \in Meds \ {k}, m \notin spoilt' PROVE MedClean(m)'
  <2>1. ~MedBusy(c, m) /\ ~MedBusy(c, m)'
    BY <1>1, <1>4, <1>7, <1>12, AddrApart DEF MedBusy
  <2>2. \A a \in MediaId : media'[a] = Addr(m) <=> media[a] = Addr(m)
    BY <1>5, <1>6, <1>12, AddrApart, AddrUrls
  <2> QED
    BY <1>1, <1>7, <1>12, <2>1, <2>2, MedKept
<1>13. ASSUME k \notin spoilt' PROVE MedClean(k)'
  <2>1. MedClean(k) /\ MedBusy(c, k)
    BY <1>1, <1>4, <1>13 DEF FileInv, MedBusy
  <2>2. \A a \in MediaId : media[a] = Addr(k) => a = id
    BY <1>1, <1>3, <1>4, <2>1 DEF MedClean
  <2>3. \A a \in MediaId : media'[a] # Addr(k)
    BY <1>6, <2>2, AddrUrls
  <2>4. ~ShownMed(k)'
    BY <2>3 DEF ShownMed
  <2>5. ~VirtualHosted => k \notin files'
    BY <1>1, <1>4, <2>1 DEF MedClean
  <2>6. \A d \in Call : /\ MedBusy(d, k)' => MedBusy(d, k) /\ job'[d] = job[d]
                        /\ ~(job'[d].op = "media" /\ job'[d].key = k)
    BY <1>1, <1>7, <2>1 DEF MedClean, MedBusy
  <2> QED
    BY <2>1, <2>3, <2>4, <2>5, <2>6 DEF MedClean
<1> QED
  BY <1>1, <1>8, <1>9, <1>10, <1>11, <1>12, <1>13 DEF FileInv

\* A request starts; what it does to the requests under way.
LEMMA StartFrame ==
  ASSUME FileInv, NEW c \in Call, NEW j \in Stored!Job, Stored!Start(c, j)
  PROVE  /\ job[c] = Stored!Idle /\ job[c].op = "idle"
         /\ UNCHANGED <<folder, gone, url, media, files, now>>
         /\ job' \in [Call -> Stored!Job]
         /\ job'[c].op = j.op
         /\ j.op \notin {"upload", "remove"} => job'[c] = j
         /\ j.op \in {"upload", "remove"} =>
              /\ job'[c].key = j.key /\ job'[c].old = j.old /\ job'[c].at = j.at
              /\ job'[c].alone => Stored!OnKey(j.key) = {}
         /\ \A d \in Call \ {c} :
              \/ job'[d] = job[d]
              \/ /\ job[d].op \in {"upload", "remove"} /\ job[d].key \in Stored!KeysOf(j)
                 /\ job'[d].op = job[d].op /\ job'[d].key = job[d].key
                 /\ job'[d].old = job[d].old /\ job'[d].at = job[d].at /\ ~job'[d].alone
         /\ \A d \in Call \ {c} :
              job'[d].op \in {"upload", "remove"} /\ job'[d].alone =>
                job'[d] = job[d] /\ job[d].key \notin Stored!KeysOf(j)
         /\ spoilt \subseteq spoilt' /\ spoilt' \subseteq spoilt \cup Stored!KeysOf(j)
         /\ \A k \in Stored!KeysOf(j), d \in Call :
              k \in Stored!KeysOf(job[d]) /\ Stored!Stores(job[d]) # Stored!Stores(j) =>
                k \in spoilt'
<1> DEFINE shared == {k \in Stored!KeysOf(j) : Stored!OnKey(k) # {}}
           mine == IF j.op \in {"upload", "remove"} THEN [j EXCEPT !.alone = shared = {}] ELSE j
           loses(d) == job[d].op \in {"upload", "remove"} /\ job[d].key \in Stored!KeysOf(j)
           told(d) == [job[d] EXCEPT !.alone = FALSE]
<1>1. /\ job[c] = Stored!Idle
      /\ job' = [d \in Call |-> IF d = c THEN mine ELSE IF loses(d) THEN told(d) ELSE job[d]]
      /\ spoilt' = spoilt \cup
           {k \in shared : \E d \in Stored!OnKey(k) : Stored!Stores(job[d]) # Stored!Stores(j)}
      /\ UNCHANGED <<folder, gone, url, media, files, now>>
  BY DEF Stored!Start
<1>2. j.op \in {"upload", "remove"} =>
        /\ mine \in PicJob /\ mine.op = j.op /\ mine.key = j.key /\ mine.old = j.old
        /\ mine.at = j.at /\ mine.alone = (shared = {})
  <2>1. SUFFICES ASSUME j.op \in {"upload", "remove"}
                 PROVE  /\ mine \in PicJob /\ mine.op = j.op /\ mine.key = j.key
                        /\ mine.old = j.old /\ mine.at = j.at /\ mine.alone = (shared = {})
    OBVIOUS
  <2>2. j \in PicJob
    BY <2>1, JobKinds
  <2> DEFINE free == (shared = {})
  <2>3. free \in BOOLEAN /\ mine = [j EXCEPT !.alone = free]
    BY <2>1
  <2> HIDE DEF free, mine, shared
  <2>4. /\ mine \in PicJob /\ mine.op = j.op /\ mine.key = j.key
        /\ mine.old = j.old /\ mine.at = j.at /\ mine.alone = free
    BY <2>2, <2>3 DEF PicJob
  <2> QED
    BY <2>4 DEF free
<1>3. j.op \notin {"upload", "remove"} => mine = j
  OBVIOUS
<1>4. mine \in Stored!Job /\ mine.op = j.op
  BY <1>2, <1>3, KindsAreJobs
<1>5. ASSUME NEW d \in Call, loses(d)
      PROVE  /\ told(d) \in PicJob /\ told(d).op = job[d].op /\ told(d).key = job[d].key
             /\ told(d).old = job[d].old /\ told(d).at = job[d].at /\ ~told(d).alone
  <2>1. job[d] \in PicJob
    BY <1>5, FileTyped, JobKinds
  <2> QED
    BY <2>1 DEF PicJob
<1> HIDE DEF mine, loses, told
<1>6. ASSUME NEW d \in Call \ {c}
      PROVE  /\ loses(d) => job'[d] = told(d)
             /\ ~loses(d) => job'[d] = job[d]
  BY <1>1
<1>7. job'[c] = mine
  BY <1>1
<1>8. job' \in [Call -> Stored!Job]
  <2>1. \A d \in Call : job'[d] \in Stored!Job
    BY <1>4, <1>5, <1>6, <1>7, FileTyped, KindsAreJobs
  <2> QED
    BY <1>1, <2>1
<1>9. j.op \in {"upload", "remove"} =>
        /\ job'[c].key = j.key /\ job'[c].old = j.old /\ job'[c].at = j.at
        /\ job'[c].alone => Stored!OnKey(j.key) = {}
  <2>1. SUFFICES ASSUME j.op \in {"upload", "remove"}
                 PROVE  /\ job'[c].key = j.key /\ job'[c].old = j.old /\ job'[c].at = j.at
                        /\ job'[c].alone => Stored!OnKey(j.key) = {}
    OBVIOUS
  <2>2. j.key \in Stored!KeysOf(j)
    BY <2>1 DEF Stored!KeysOf
  <2> QED
    BY <1>2, <1>7, <2>1, <2>2
<1>10. ASSUME NEW d \in Call \ {c}
       PROVE  \/ job'[d] = job[d]
              \/ /\ job[d].op \in {"upload", "remove"} /\ job[d].key \in Stored!KeysOf(j)
                 /\ job'[d].op = job[d].op /\ job'[d].key = job[d].key
                 /\ job'[d].old = job[d].old /\ job'[d].at = job[d].at /\ ~job'[d].alone
  <2>1. CASE loses(d)
    <3>1. job'[d] = told(d) /\ job[d].op \in {"upload", "remove"}
          /\ job[d].key \in Stored!KeysOf(j)
      BY <1>6, <2>1 DEF loses
    <3> QED
      BY <1>5, <2>1, <3>1
  <2>2. CASE ~loses(d)
    BY <1>6, <2>2
  <2> QED
    BY <2>1, <2>2
<1>11. ASSUME NEW d \in Call \ {c}, job'[d].op \in {"upload", "remove"}, job'[d].alone
       PROVE  job'[d] = job[d] /\ job[d].key \notin Stored!KeysOf(j)
  <2>1. ~loses(d)
    BY <1>5, <1>6, <1>11
  <2>2. job'[d] = job[d]
    BY <1>6, <2>1
  <2> QED
    BY <1>11, <2>1, <2>2 DEF loses
<1>12. spoilt \subseteq spoilt' /\ spoilt' \subseteq spoilt \cup Stored!KeysOf(j)
  BY <1>1
<1>13. ASSUME NEW k \in Stored!KeysOf(j), NEW d \in Call, k \in Stored!KeysOf(job[d]),
              Stored!Stores(job[d]) # Stored!Stores(j)
       PROVE  k \in spoilt'
  <2>1. d \in Stored!OnKey(k)
    BY <1>13 DEF Stored!OnKey
  <2> QED
    BY <1>1, <1>13, <2>1
<1>14. job[c].op = "idle"
  BY <1>1 DEF Stored!Idle
<1>15. \A k \in Stored!KeysOf(j), d \in Call :
         k \in Stored!KeysOf(job[d]) /\ Stored!Stores(job[d]) # Stored!Stores(j) =>
           k \in spoilt'
  BY <1>13
<1> QED
  BY <1>1, <1>3, <1>4, <1>7, <1>8, <1>9, <1>10, <1>11, <1>12, <1>14, <1>15

\* What it leaves as it was.
LEMMA StartKeeps ==
  ASSUME FileInv, NEW c \in Call, NEW j \in Stored!Job, Stored!Start(c, j)
  PROVE  /\ Stored!TypeOK'
         /\ \A o, k : Owned(o, k)' <=> Owned(o, k)
         /\ \A d \in Call \ {c} : JobShape(d)'
         /\ \A id \in MediaId : media'[id] # None => \E m \in Meds : media'[id] = Addr(m)
         /\ \A k \in Pics : k \notin Stored!KeysOf(j) =>
              PicRow(k)' /\ PicAlone(k)' /\ (k \notin spoilt' => PicClean(k)')
         /\ \A m \in Meds \ spoilt' : m \notin Stored!KeysOf(j) => MedClean(m)'
         /\ \A k \in Pics : ~PicBusy(c, k) /\ (k \in Stored!KeysOf(j) <=> PicBusy(c, k)')
         /\ \A m \in Meds : ~MedBusy(c, m)
         /\ j.op \in {"upload", "remove", "delete", "media", "unmedia"} =>
              \A m \in Meds : m \in Stored!KeysOf(j) <=> MedBusy(c, m)'
<1> USE StartFrame
<1>1. \A o, k : Owned(o, k)' <=> Owned(o, k)
  BY DEF Owned
<1>2. ASSUME NEW k \in Pics
      PROVE  ~PicBusy(c, k) /\ (k \in Stored!KeysOf(j) <=> PicBusy(c, k)')
  <2>1. job[c].op = "idle" /\ job'[c].op = j.op
    OBVIOUS
  <2>2. j.op \in {"upload", "remove"} => job'[c].key = j.key
    OBVIOUS
  <2>3. j.op \notin {"upload", "remove"} => job'[c] = j
    OBVIOUS
  <2> QED
    BY ONLY <1>1, <2>1, <2>2, <2>3, KeysOfJob DEF PicBusy
<1>3. ASSUME NEW m \in Meds
      PROVE  ~MedBusy(c, m) /\ (m \in Stored!KeysOf(j) <=> MedBusy(c, m)')
  <2>1. job[c].op = "idle" /\ job'[c].op = j.op
    OBVIOUS
  <2>2. j.op \notin {"upload", "remove"} => job'[c] = j
    OBVIOUS
  <2> QED
    BY ONLY <2>1, <2>2, KeysOfJob DEF MedBusy
<1>4. spoilt' \subseteq Pics \cup Meds
  <2>1. Stored!KeysOf(j) \subseteq Pics \cup Meds
    <3>1. j.op \in {"upload", "remove"} => Stored!KeysOf(j) = {j.key} /\ j.key \in Pics
      BY ONLY j \in Stored!Job, JobKinds DEF Stored!KeysOf, PicJob
    <3>2. j.op = "delete" => Stored!KeysOf(j) \subseteq Pics
      <4>1. SUFFICES ASSUME j.op = "delete", NEW k \in Stored!KeysOf(j) PROVE k \in Pics
        OBVIOUS
      <4>2. j.owner \in Owner /\ folder[j.owner] \in Stored!Folder
        BY ONLY <4>1, j \in Stored!Job, FileInv, FileTyped, JobKinds DEF DelJob
      <4>3. \E n \in Stored!Pictures[folder[j.owner]] : k = <<folder[j.owner], j.owner, n>>
        BY ONLY <4>1 DEF Stored!KeysOf, Stored!PictureKeys, Stored!Key
      <4> QED
        BY ONLY <4>2, <4>3, PicShape
    <3>3. j.op \in {"media", "unmedia"} => Stored!KeysOf(j) \subseteq Meds
      BY ONLY j \in Stored!Job, JobKinds, FileNames DEF Stored!KeysOf, MedJob, Meds
    <3>4. j.op = "idle" => Stored!KeysOf(j) = {}
      BY DEF Stored!KeysOf
    <3> QED
      BY ONLY <3>1, <3>2, <3>3, <3>4, j \in Stored!Job, JobKinds
  <2> QED
    BY <2>1, FileTyped
<1>5. Stored!TypeOK'
  BY <1>4, FileTyped DEF Stored!TypeOK, Pics, Meds
<1>6. ASSUME NEW d \in Call \ {c} PROVE JobShape(d)'
  <2>1. CASE job'[d] = job[d]
    BY <2>1, JobStands
  <2>2. CASE /\ job[d].op \in {"upload", "remove"}
             /\ job'[d].op = job[d].op /\ job'[d].key = job[d].key
             /\ job'[d].old = job[d].old /\ job'[d].at = job[d].at
    <3>1. JobShape(d)
      BY DEF FileInv
    <3> QED
      BY ONLY <1>1, <2>2, <3>1 DEF JobShape
  <2> QED
    BY <2>1, <2>2
<1>7. \A id \in MediaId : media'[id] # None => \E m \in Meds : media'[id] = Addr(m)
  BY DEF FileInv
<1>8. ASSUME NEW k \in Pics, k \notin Stored!KeysOf(j)
      PROVE  PicRow(k)' /\ PicAlone(k)' /\ (k \notin spoilt' => PicClean(k)')
  <2>1. ASSUME NEW d \in Call
        PROVE  job'[d] = job[d] \/ (~PicBusy(d, k) /\ ~PicBusy(d, k)')
    <3>1. CASE d = c
      BY <1>2, <1>8, <3>1
    <3>2. CASE d # c
      BY <1>8, <3>2 DEF PicBusy
    <3> QED
      BY <3>1, <3>2
  <2>2. UNCHANGED <<folder, gone, url, files>> /\ spoilt \subseteq spoilt'
    OBVIOUS
  <2> QED
    BY ONLY FileInv, <2>1, <2>2, k \in Pics, PicKept
<1>9. ASSUME NEW m \in Meds \ spoilt', m \notin Stored!KeysOf(j) PROVE MedClean(m)'
  <2>1. ASSUME NEW d \in Call
        PROVE  job'[d] = job[d] \/ (~MedBusy(d, m) /\ ~MedBusy(d, m)')
    <3>1. CASE d = c
      BY <1>3, <1>9, <3>1
    <3>2. CASE d # c
      BY <1>9, <3>2 DEF MedBusy
    <3> QED
      BY <3>1, <3>2
  <2>2. UNCHANGED <<media, files>> /\ m \notin spoilt
    BY <1>9
  <2> QED
    BY ONLY FileInv, <2>1, <2>2, m \in Meds, MedKept
<1> QED
  BY <1>1, <1>2, <1>3, <1>5, <1>6, <1>7, <1>8, <1>9

\* An upload, a removal or a deletion starts on a picture that nothing
\* spoils: the others at work on it all store it, or all remove it.
LEMMA StartPicture ==
  ASSUME FileInv, NEW c \in Call, NEW j \in Stored!Job, Stored!Start(c, j),
         NEW k \in Pics, k \in Stored!KeysOf(j),
         j.op \in {"upload", "remove"} => j.at # "write",
         j.op = "upload" => \A o \in gone : ~Owned(o, k),
         j.op = "delete" => (Addr(k) \in j.left <=> url[k] # None)
  PROVE  PicRow(k)' /\ PicAlone(k)' /\ (k \notin spoilt' => PicClean(k)')
<1>1. /\ UNCHANGED <<folder, gone, url, media, files, now>>
      /\ job'[c].op = j.op
      /\ j.op \notin {"upload", "remove"} => job'[c] = j
      /\ j.op \in {"upload", "remove"} =>
           /\ job'[c].key = j.key /\ job'[c].at = j.at
           /\ job'[c].alone => Stored!OnKey(j.key) = {}
      /\ spoilt \subseteq spoilt'
  BY StartFrame
<1>2. \A d \in Call \ {c} :
        \/ job'[d] = job[d]
        \/ /\ job[d].op \in {"upload", "remove"}
           /\ job'[d].op = job[d].op /\ job'[d].key = job[d].key /\ job'[d].at = job[d].at
  BY StartFrame
<1>3. \A d \in Call \ {c} :
        job'[d].op \in {"upload", "remove"} /\ job'[d].alone =>
          job'[d] = job[d] /\ job[d].key \notin Stored!KeysOf(j)
  BY StartFrame
<1>4. \A d \in Call :
        k \in Stored!KeysOf(job[d]) /\ Stored!Stores(job[d]) # Stored!Stores(j) => k \in spoilt'
  BY StartFrame
<1>5. \A o : Owned(o, k)' <=> Owned(o, k)
  BY <1>1 DEF Owned
<1>6. ~PicBusy(c, k) /\ PicBusy(c, k)'
  BY StartKeeps
<1>7. \A d \in Call \ {c} :
        /\ job'[d].op = job[d].op
        /\ PicBusy(d, k)' <=> PicBusy(d, k)
        /\ Writing(d, k)' <=> Writing(d, k)
        /\ Putting(d, k)' <=> Putting(d, k)
        /\ Emptied(d, k)' <=> Emptied(d, k)
        /\ job[d].op \in {"upload", "remove"} => job'[d].key = job[d].key
  BY <1>2, <1>5 DEF PicBusy, Writing, Putting, Emptied
<1>8. ~Writing(c, k)' /\ ~Writing(c, k) /\ ~Putting(c, k)
  BY <1>1, <1>6 DEF Writing, Putting, PicBusy
<1>9. PicRow(k)'
  BY <1>1, <1>5 DEF FileInv, PicRow
<1>10. PicAlone(k)'
  <2>1. PicAlone(k)
    BY DEF FileInv
  <2>2. ASSUME NEW d \in Call, job'[d].op \in {"upload", "remove"}, job'[d].key = k,
               job'[d].alone
        PROVE  d = c /\ \A e \in Call : PicBusy(e, k)' => e = c
    <3>1. d = c
      <4>1. ASSUME d # c PROVE FALSE
        <5>1. job'[d] = job[d] /\ job[d].key \notin Stored!KeysOf(j)
          BY <1>3, <2>2, <4>1
        <5> QED
          BY <2>2, <5>1
      <4> QED
        BY <4>1
    <3>2. Stored!OnKey(k) = {}
      BY <1>1, <2>2, <3>1
    <3>3. \A e \in Call : ~PicBusy(e, k)
      BY <3>2, KeysBusy DEF Stored!OnKey
    <3> QED
      BY <1>7, <3>1, <3>3
  <2> QED
    BY <1>8, <2>2 DEF PicAlone
<1>11. ASSUME k \notin spoilt' PROVE PicClean(k)'
  <2>1. PicClean(k)
    BY <1>1, <1>11 DEF FileInv
  <2>2. j.op \in {"upload", "remove", "delete"}
    BY KeysOfJob
  <2>3. \A d \in Call : PicBusy(d, k) => (job[d].op = "upload" <=> j.op = "upload")
    <3>1. ASSUME NEW d \in Call, PicBusy(d, k)
          PROVE  job[d].op = "upload" <=> j.op = "upload"
      <4>1. Stored!Stores(job[d]) = Stored!Stores(j)
        BY <1>4, <1>11, <3>1, KeysBusy
      <4>2. job[d].op \in {"upload", "remove", "delete"}
        BY <3>1 DEF PicBusy
      <4> QED
        BY <2>2, <4>1, <4>2 DEF Stored!Stores
    <3> QED
      BY <3>1
  <2>4. \A d, e \in Call : PicBusy(d, k)' /\ PicBusy(e, k)' =>
          (job'[d].op = "upload" <=> job'[e].op = "upload")
    <3>1. \A d \in Call : PicBusy(d, k)' => (job'[d].op = "upload" <=> j.op = "upload")
      BY <1>1, <1>7, <2>3
    <3> QED
      BY <3>1
  <2>5. ASSUME NEW d \in Call, NEW o \in gone', job'[d].op = "upload", job'[d].key = k
        PROVE  ~Owned(o, k)'
    <3>1. CASE d = c
      BY <1>1, <1>5, <2>5, <3>1
    <3>2. CASE d # c
      BY <1>1, <1>5, <1>7, <2>1, <2>5, <3>2 DEF PicClean
    <3> QED
      BY <3>1, <3>2
  <2>6. k \notin files' /\ (url'[k] # None \/ \E d \in Call : Writing(d, k)') =>
          \E d \in Call : Putting(d, k)' \/ (PicBusy(d, k)' /\ Emptied(d, k)')
    BY <1>1, <1>6, <1>7, <1>8, <2>1 DEF PicClean
  <2>7. ASSUME ~VirtualHosted, k \in files', url'[k] = None
        PROVE  \E d \in Call : Writing(d, k)'
    BY <1>1, <1>7, <1>8, <2>1, <2>7 DEF PicClean
  <2>8. ASSUME ~VirtualHosted, NEW d \in Call, PicBusy(d, k)', Emptied(d, k)'
        PROVE  k \notin files'
    <3>1. CASE d # c
      BY <1>1, <1>7, <2>1, <2>8, <3>1 DEF PicClean
    <3>2. CASE d = c
      <4>1. j.op = "delete" /\ job'[c] = j
        BY <1>1, <2>2, <2>8, <3>2 DEF Emptied
      <4>2. url[k] = None
        BY <2>8, <3>2, <4>1 DEF Emptied
      <4>3. \A e \in Call : ~Writing(e, k)
        BY <2>3, <4>1 DEF PicBusy, Writing
      <4> QED
        BY <1>1, <2>1, <2>8, <4>2, <4>3 DEF PicClean
    <3> QED
      BY <3>1, <3>2
  <2> QED
    BY <2>4, <2>5, <2>6, <2>7, <2>8 DEF PicClean
<1> QED
  BY <1>9, <1>10, <1>11

\* What is left to show of a request that starts: its own shape, and the
\* keys it is about.
LEMMA StartStep ==
  ASSUME FileInv, NEW c \in Call, NEW j \in Stored!Job, Stored!Start(c, j),
         JobShape(c)',
         \A k \in Pics : k \in Stored!KeysOf(j) =>
           PicRow(k)' /\ PicAlone(k)' /\ (k \notin spoilt' => PicClean(k)'),
         \A m \in Meds \ spoilt' : m \in Stored!KeysOf(j) => MedClean(m)'
  PROVE  FileInv'
<1>1. /\ Stored!TypeOK'
      /\ \A d \in Call \ {c} : JobShape(d)'
      /\ \A id \in MediaId : media'[id] # None => \E m \in Meds : media'[id] = Addr(m)
      /\ \A k \in Pics : k \notin Stored!KeysOf(j) =>
           PicRow(k)' /\ PicAlone(k)' /\ (k \notin spoilt' => PicClean(k)')
      /\ \A m \in Meds \ spoilt' : m \notin Stored!KeysOf(j) => MedClean(m)'
  BY StartKeeps
<1> QED
  BY <1>1 DEF FileInv

LEMMA PictureOf ==
  ASSUME FileInv, NEW o \in Owner, NEW n \in Stored!Pictures[folder[o]]
  PROVE  Stored!Key(o, n) \in Pics /\ Owned(o, Stored!Key(o, n))
BY FileTyped, PicShape DEF Stored!Key, Owned

\* An upload or a removal starts.
LEMMA FileStartOne ==
  ASSUME FileInv, NEW c \in Call, NEW o \in Owner, NEW n \in Stored!Pictures[folder[o]],
         NEW j, o \notin gone, j.key = Stored!Key(o, n), j \in PicJob,
         j.op = "remove" => j.at = "old", j.at # "write",
         j.old \in {url[j.key], None}, j.at = "old" => j.old # None,
         j.op = "remove" => folder[o] \notin {"listings", "users"} /\ j.old # None,
         j.old # None => folder[o] # "users",
         Stored!Start(c, j)
  PROVE  FileInv'
<1>1. PICK k \in Pics : k = j.key /\ Owned(o, k)
  BY PictureOf
<1>2. j \in Stored!Job /\ j.op \in {"upload", "remove"}
  BY KindsAreJobs DEF PicJob
<1>3. Stored!KeysOf(j) = {k}
  BY <1>1, <1>2 DEF Stored!KeysOf
<1>4. /\ job'[c].op = j.op /\ job'[c].key = k /\ job'[c].old = j.old /\ job'[c].at = j.at
      /\ \A p, l : Owned(p, l)' <=> Owned(p, l)
  BY <1>1, <1>2, StartFrame, StartKeeps
<1>5. /\ folder[o] # "users" => url[k] \in {None, Addr(k), Stored!Elsewhere}
      /\ folder[o] \notin {"listings", "users"} => url[k] \in {None, Addr(k)}
  <2>1. k[1] = folder[o]
    BY <1>1 DEF Owned
  <2>2. /\ k[1] \notin {"listings", "users"} => url[k] \in {None, Addr(k)}
        /\ k[1] = "listings" => url[k] \in {None, Addr(k), Stored!Elsewhere}
    BY DEF FileInv, PicRow
  <2> QED
    BY <2>1, <2>2
<1>6. JobShape(c)'
  <2>1. Owned(o, k)' /\ job'[c].old \in {Addr(k), Stored!Elsewhere, None}
    BY <1>1, <1>4, <1>5
  <2>2. job'[c].at = "old" => job'[c].old # None
    BY <1>4
  <2>3. job'[c].op = "remove" => job'[c].at # "put" /\ job'[c].old = Addr(k)
    BY <1>1, <1>4, <1>5
  <2> QED
    BY <1>2, <1>4, <2>1, <2>2, <2>3 DEF JobShape
<1>7. \A p \in gone : ~Owned(p, k)
  BY <1>1, OneOwner
<1>8. PicRow(k)' /\ PicAlone(k)' /\ (k \notin spoilt' => PicClean(k)')
  BY <1>2, <1>3, <1>7, StartPicture
<1> QED
  BY <1>2, <1>3, <1>6, <1>8, KeysApart, StartStep

LEMMA FileUpload ==
  ASSUME FileInv, NEW c \in Call, NEW o \in Owner, NEW n, NEW replaces \in BOOLEAN,
         replaces => folder[o] # "users", Stored!StartUpload(c, o, n, replaces)
  PROVE  FileInv'
<1> DEFINE k == Stored!Key(o, n)
           old == IF replaces THEN url[k] ELSE None
           at == IF old = None THEN "put" ELSE "old"
           j == [op |-> "upload", key |-> k, old |-> old, alone |-> TRUE, at |-> at]
<1>1. o \notin gone /\ n \in Stored!Pictures[folder[o]] /\ Stored!Start(c, j)
  BY DEF Stored!StartUpload
<1>2. k \in Pics
  BY <1>1, PictureOf
<1>3. old \in Stored!Address \cup {None} /\ old \in {url[k], None}
  BY <1>2, FileTyped
<1>4. /\ at \in {"old", "put"} /\ (at = "old" => old # None)
      /\ old # None => folder[o] # "users"
  OBVIOUS
<1> HIDE DEF old, at, k
<1>5. /\ j \in PicJob /\ j.op = "upload" /\ j.key = k /\ j.old = old /\ j.at = at
  BY <1>2, <1>3, <1>4 DEF PicJob
<1> HIDE DEF j
<1>6. j.key = Stored!Key(o, n) /\ j.at # "write" /\ j.old \in {url[j.key], None}
      /\ (j.at = "old" => j.old # None) /\ j.op # "remove"
      /\ (j.old # None => folder[o] # "users")
  BY <1>3, <1>4, <1>5 DEF k
<1> QED
  BY <1>1, <1>5, <1>6, FileStartOne

LEMMA FileRemoval ==
  ASSUME FileInv, NEW c \in Call, NEW o \in Owner, NEW n \in Stored!Pictures[folder[o]],
         folder[o] \notin {"listings", "users"}, Stored!StartRemoval(c, o, n)
  PROVE  FileInv'
<1> DEFINE k == Stored!Key(o, n)
           j == [op |-> "remove", key |-> k, old |-> url[k], at |-> "old", alone |-> TRUE]
<1>1. o \notin gone /\ url[k] # None /\ Stored!Start(c, j)
  BY DEF Stored!StartRemoval
<1>2. k \in Pics /\ url[k] \in Stored!Address \cup {None}
  BY PictureOf, FileTyped
<1>3. /\ j \in PicJob /\ j.op = "remove" /\ j.key = k /\ j.old = url[k] /\ j.at = "old"
  BY <1>2 DEF PicJob
<1> HIDE DEF j
<1>4. j.key = Stored!Key(o, n) /\ j.at # "write" /\ j.old \in {url[j.key], None}
      /\ j.old # None
  BY <1>1, <1>3
<1> QED
  BY <1>1, <1>3, <1>4, FileStartOne

LEMMA FileDelete ==
  ASSUME FileInv, NEW c \in Call, NEW o \in Owner, folder[o] \notin {"listings", "users"},
         Stored!StartDelete(c, o)
  PROVE  FileInv'
<1> DEFINE held == {url[k] : k \in Stored!PictureKeys(o)} \ {None}
           j == [op |-> "delete", owner |-> o, left |-> held]
<1>1. o \notin gone /\ Stored!Start(c, j)
  BY DEF Stored!StartDelete
<1>2. \A k : k \in Stored!PictureKeys(o) <=> k \in Pics /\ Owned(o, k)
  BY PictureOf DEF Stored!PictureKeys, Stored!Key, Owned
<1>0. \A k \in Pics : Owned(o, k) => url[k] \in {None, Addr(k)}
  <2>1. \A k : Owned(o, k) => k[1] = folder[o]
    BY DEF Owned
  <2> QED
    BY <2>1 DEF FileInv, PicRow
<1>3. \A u \in held : \E k \in Pics : Owned(o, k) /\ u = Addr(k)
  BY <1>0, <1>2
<1>4. held \in SUBSET Stored!Urls
  BY <1>3, AddrUrls
<1>5. \A k \in Pics : Owned(o, k) => (Addr(k) \in held <=> url[k] # None)
  <2>1. ASSUME NEW k \in Pics, Owned(o, k), Addr(k) \in held PROVE url[k] # None
    <3>1. PICK l \in Stored!PictureKeys(o) : url[l] = Addr(k)
      BY <2>1
    <3>2. l \in Pics /\ url[l] \in {None, Addr(l)}
      BY <1>0, <1>2, <3>1
    <3> QED
      BY <3>1, <3>2, AddrApart, AddrUrls
  <2>2. ASSUME NEW k \in Pics, Owned(o, k), url[k] # None PROVE Addr(k) \in held
    <3>1. url[k] = Addr(k)
      BY <1>0, <2>2
    <3> QED
      BY <1>2, <2>2, <3>1
  <2> QED
    BY <2>1, <2>2
<1> HIDE DEF held
<1>6. j \in DelJob /\ j.op = "delete" /\ j.owner = o /\ j.left = held
  BY <1>4 DEF DelJob
<1> HIDE DEF j
<1>7. j \in Stored!Job
  BY <1>6, KindsAreJobs
<1>8. job'[c] = j /\ \A p, k : Owned(p, k)' <=> Owned(p, k)
  BY <1>1, <1>6, <1>7, StartFrame, StartKeeps
<1>9. JobShape(c)'
  <2>1. folder' = folder
    BY <1>1, <1>7, StartFrame
  <2> QED
    BY <1>3, <1>6, <1>8, <2>1 DEF JobShape
<1>10. ASSUME NEW k \in Pics, k \in Stored!KeysOf(j)
       PROVE  PicRow(k)' /\ PicAlone(k)' /\ (k \notin spoilt' => PicClean(k)')
  <2>1. Owned(o, k)
    BY <1>6, <1>7, <1>10, KeysOfJob
  <2>2. Addr(k) \in j.left <=> url[k] # None
    BY <1>5, <1>6, <2>1
  <2> QED
    BY <1>1, <1>6, <1>7, <1>10, <2>2, StartPicture
<1>11. \A m \in Meds : m \notin Stored!KeysOf(j)
  BY <1>6, <1>7, KeysOfJob
<1> QED
  BY <1>1, <1>7, <1>9, <1>10, <1>11, StartStep

LEMMA FileUploadMedia ==
  ASSUME FileInv, NEW c \in Call, NEW o \in Owner, Stored!UploadMedia(c, o)
  PROVE  FileInv'
<1> DEFINE j == [op |-> "media", owner |-> o, i |-> 0, key |-> None]
<1>1. Stored!Start(c, j)
  BY DEF Stored!UploadMedia
<1>2. j \in MedJob /\ j.op = "media" /\ j.key = None
  BY FileNames DEF MedJob
<1> HIDE DEF j
<1>3. j \in Stored!Job
  BY <1>2, KindsAreJobs
<1>4. job'[c] = j
  BY <1>1, <1>2, <1>3, StartFrame
<1>5. JobShape(c)'
  BY <1>2, <1>4 DEF JobShape
<1>6. Stored!KeysOf(j) = {}
  BY <1>2 DEF Stored!KeysOf
<1> QED
  BY <1>1, <1>3, <1>5, <1>6, StartStep

LEMMA FileUnmedia ==
  ASSUME FileInv, NEW c \in Call, NEW id \in MediaId, Stored!DeleteMedia(c, id)
  PROVE  FileInv'
<1> DEFINE j == [op |-> "unmedia", id |-> id, old |-> media[id], at |-> "old"]
<1>1. media[id] # None /\ Stored!Start(c, j)
  BY DEF Stored!DeleteMedia
<1>2. PICK m \in Meds : media[id] = Addr(m)
  BY <1>1 DEF FileInv
<1>3. j \in UnmJob /\ j.op = "unmedia" /\ j.id = id /\ j.old = Addr(m) /\ j.at = "old"
  BY <1>2, AddrUrls DEF UnmJob
<1> HIDE DEF j
<1>4. j \in Stored!Job
  BY <1>3, KindsAreJobs
<1>5. /\ job'[c] = j /\ UNCHANGED <<media, files>> /\ spoilt \subseteq spoilt'
      /\ job[c].op = "idle"
      /\ \A d \in Call : m \in Stored!KeysOf(j) =>
           (m \in Stored!KeysOf(job[d]) /\ Stored!Stores(job[d]) # Stored!Stores(j) =>
              m \in spoilt')
  BY <1>1, <1>3, <1>4, StartFrame
<1>6. \A d \in Call \ {c} :
        \/ job'[d] = job[d]
        \/ job[d].op \in {"upload", "remove"} /\ job'[d].op = job[d].op
  BY <1>1, <1>4, StartFrame
<1>7. JobShape(c)'
  BY <1>2, <1>3, <1>5 DEF JobShape
<1>8. Stored!KeysOf(j) = {m}
  BY <1>3, AddrApart DEF Stored!KeysOf, Meds, Addr
<1>9. ASSUME m \notin spoilt' PROVE MedClean(m)'
  <2>1. MedClean(m)
    BY <1>5, <1>9 DEF FileInv
  <2>2. \A d \in Call : MedBusy(d, m) => job[d].op = "unmedia"
    <3>1. ASSUME NEW d \in Call, MedBusy(d, m), job[d].op = "media" PROVE FALSE
      <4>1. m \in Stored!KeysOf(job[d])
        BY <3>1, KeysBusy
      <4> QED
        BY <1>3, <1>5, <1>8, <1>9, <3>1, <4>1 DEF Stored!Stores
    <3> QED
      BY <3>1 DEF MedBusy
  <2>3. \A d \in Call : MedBusy(d, m)' =>
          job'[d].op = "unmedia" /\ (d = c \/ (job'[d] = job[d] /\ MedBusy(d, m)))
    BY <1>3, <1>5, <1>6, <2>2 DEF MedBusy
  <2>4. \A d \in Call : job'[d].op = "unmedia" /\ job'[d].old = Addr(m) => MedBusy(d, m)'
    BY DEF MedBusy
  <2>5. \A d \in Call : ~(job'[d].op = "media" /\ job'[d].key = m)
    BY <2>3 DEF MedBusy
  <2>6. ShownMed(m) /\ ShownMed(m)' /\ \A a \in MediaId : media[a] = Addr(m) => a = id
    BY <1>2, <1>5, <2>1 DEF ShownMed, MedClean
  <2>7. \A d \in Call, a \in MediaId :
          job'[d].op = "unmedia" /\ job'[d].old = Addr(m) /\ media'[a] = Addr(m) =>
            a = job'[d].id
    <3>1. ASSUME NEW d \in Call, NEW a \in MediaId, job'[d].op = "unmedia",
                 job'[d].old = Addr(m), media'[a] = Addr(m)
          PROVE  a = job'[d].id
      <4>1. CASE d = c
        BY <1>3, <1>5, <2>6, <3>1, <4>1
      <4>2. CASE d # c
        <5>1. job'[d] = job[d]
          BY <2>3, <2>4, <3>1, <4>2
        <5> QED
          BY <1>5, <2>1, <3>1, <5>1 DEF MedClean
      <4> QED
        BY <4>1, <4>2
    <3> QED
      BY <3>1
  <2>8. m \notin files' =>
          \E d \in Call : job'[d].op = "unmedia" /\ job'[d].old = Addr(m) /\ job'[d].at = "write"
    <3>1. SUFFICES ASSUME m \notin files'
                   PROVE  \E d \in Call : job'[d].op = "unmedia" /\ job'[d].old = Addr(m)
                                          /\ job'[d].at = "write"
      OBVIOUS
    <3>2. PICK d \in Call : job[d].op = "unmedia" /\ job[d].old = Addr(m)
                            /\ job[d].at = "write"
      BY <1>5, <2>1, <2>6, <3>1 DEF MedClean
    <3>3. job'[d] = job[d]
      BY <1>5, <1>6, <3>2
    <3> QED
      BY <3>2, <3>3
  <2>9. ~VirtualHosted =>
          \A d \in Call : job'[d].op = "unmedia" /\ job'[d].old = Addr(m)
                          /\ job'[d].at = "write" => m \notin files'
    <3>1. ASSUME ~VirtualHosted, NEW d \in Call, job'[d].op = "unmedia",
                 job'[d].old = Addr(m), job'[d].at = "write"
          PROVE  m \notin files'
      <4>1. d # c
        BY <1>3, <1>5, <3>1
      <4>2. job'[d] = job[d]
        BY <2>3, <2>4, <3>1, <4>1
      <4> QED
        BY <1>5, <2>1, <3>1, <4>2 DEF MedClean
    <3> QED
      BY <3>1
  <2>10. \A a, b \in MediaId : media'[a] = Addr(m) /\ media'[b] = Addr(m) => a = b
    BY <1>5, <2>6
  <2>11. \A d, e \in Call : MedBusy(d, m)' /\ MedBusy(e, m)' =>
           job'[d].op = job'[e].op /\ (job'[d].op = "media" => d = e)
    BY <2>3
  <2> QED
    BY <2>5, <2>6, <2>7, <2>8, <2>9, <2>10, <2>11 DEF MedClean
<1>10. \A k \in Pics : k \notin Stored!KeysOf(j)
  BY <1>8, KeysApart
<1> QED
  BY <1>1, <1>4, <1>7, <1>8, <1>9, <1>10, StartStep

\* The import or a user writes a column.
LEMMA FileOverwrite ==
  ASSUME FileInv, NEW o \in Owner, NEW n \in Stored!Pictures[folder[o]],
         NEW address \in Stored!Address \cup {None}, folder[o] \in {"listings", "users"},
         folder[o] = "listings" => address = Stored!Elsewhere,
         Stored!Overwrite(Stored!Key(o, n), address)
  PROVE  FileInv'
<1>1. PICK k \in Pics : k = Stored!Key(o, n) /\ Owned(o, k)
  BY PictureOf
<1>2. k[1] = folder[o] /\ k[2] = o /\ \A p : Owned(p, k) => p = o
  BY <1>1, OneOwner DEF Owned
<1>3. /\ o \notin gone /\ url' = [url EXCEPT ![k] = address] /\ spoilt' = spoilt \cup {k}
      /\ UNCHANGED <<folder, gone, media, files, now, job>>
  BY <1>1, <1>2 DEF Stored!Overwrite
<1>4. /\ url' \in [Pics -> Stored!Address \cup {None}] /\ url'[k] = address
      /\ \A l \in Pics \ {k} : url'[l] = url[l]
  BY <1>3, FileTyped
<1>5. Stored!TypeOK'
  BY <1>3, <1>4, FileTyped DEF Stored!TypeOK, Pics, Meds
<1>6. \A d \in Call : JobShape(d)'
  BY <1>3, JobStands
<1>7. \A l \in Pics \ {k} : PicRow(l)' /\ PicAlone(l)' /\ (l \notin spoilt' => PicClean(l)')
  BY <1>3, <1>4, PicKept
<1>8. \A m \in Meds \ spoilt' : MedClean(m)'
  BY <1>3, MedKept
<1>9. \A p : Owned(p, k)' <=> Owned(p, k)
  BY <1>3 DEF Owned
<1>10. PicRow(k)'
  BY <1>2, <1>3, <1>4, <1>9 DEF PicRow
<1>11. PicAlone(k)'
  <2>1. PicAlone(k)
    BY DEF FileInv
  <2> QED
    BY <1>3, <1>9, <2>1 DEF PicAlone, PicBusy, Writing
<1>12. k \in spoilt'
  BY <1>3
<1> QED
  BY <1>3, <1>5, <1>6, <1>7, <1>8, <1>10, <1>11, <1>12 DEF FileInv

\* No request breaks the bond between rows and files.
LEMMA FileStep == FileInv /\ [Stored!Next]_(Stored!imageVars) => FileInv'
<1> SUFFICES ASSUME FileInv, [Stored!Next]_(Stored!imageVars) PROVE FileInv'
  OBVIOUS
<1>1. ASSUME NEW c \in Call, NEW o \in Owner,
             \/ Stored!UploadHeroImage(c, o) \/ Stored!UploadImage(c, o)
             \/ Stored!UploadIcon(c, o) \/ Stored!UploadBackgroundImage(c, o)
             \/ Stored!UploadIconImage(c, o) \/ Stored!UploadHeaderImage(c, o)
             \/ Stored!UploadProfilePhoto(c, o)
      PROVE  FileInv'
  <2>1. \E n : \E replaces \in BOOLEAN :
          Stored!StartUpload(c, o, n, replaces) /\ (replaces => folder[o] # "users")
    BY <1>1
       DEF Stored!UploadHeroImage, Stored!UploadImage, Stored!UploadIcon,
           Stored!UploadBackgroundImage, Stored!UploadIconImage, Stored!UploadHeaderImage,
           Stored!UploadProfilePhoto
  <2> QED
    BY <2>1, FileUpload
<1>2. ASSUME NEW c \in Call, NEW o \in Owner,
             \/ Stored!DeleteImage(c, o) \/ Stored!DeleteIcon(c, o)
             \/ Stored!DeleteHeaderImage(c, o)
      PROVE  FileInv'
  <2>1. PICK n \in {"image", "icon", "header"} : /\ Stored!StartRemoval(c, o, n)
                                                 /\ n \in Stored!Pictures[folder[o]]
                                                 /\ folder[o] \notin {"listings", "users"}
    BY <1>2
       DEF Stored!DeleteImage, Stored!DeleteIcon, Stored!DeleteHeaderImage, Stored!Pictures
  <2> QED
    BY <2>1, FileRemoval
<1>3. ASSUME NEW c \in Call, NEW o \in Owner,
             \/ Stored!DeleteCategory(c, o) \/ Stored!DeleteTile(c, o)
      PROVE  FileInv'
  BY <1>3, FileDelete DEF Stored!DeleteCategory, Stored!DeleteTile
<1>4. ASSUME NEW c \in Call, NEW o \in Owner, Stored!UploadMedia(c, o) PROVE FileInv'
  BY <1>4, FileUploadMedia
<1>5. ASSUME NEW c \in Call,
             \/ Stored!RemoveOld(c) \/ Stored!DeleteFileOf(c) \/ Stored!DeleteRow(c)
             \/ Stored!PutFile(c) \/ Stored!WriteUrl(c)
             \/ Stored!PutMedia(c) \/ Stored!CreateListingMedia(c)
             \/ Stored!MediaAnswered(c) \/ Stored!DeleteListingMedia(c)
      PROVE  FileInv'
  BY <1>5, FileRemoveOld, FileDeleteOf, FileDeleteRow, FilePut, FileWrite, FilePutMedia,
     FileCreateMedia, FileAnswered, FileDeleteMedia
<1>6. ASSUME NEW c \in Call, NEW id \in MediaId, Stored!DeleteMedia(c, id) PROVE FileInv'
  BY <1>6, FileUnmedia
<1>7. CASE Stored!Tick \/ Stored!Crash \/ UNCHANGED Stored!imageVars
  BY <1>7, FileTick, FileCrash, FileStill
<1>8. ASSUME NEW o \in Owner, Stored!SyncHeroImage(o) PROVE FileInv'
  <2>1. folder[o] = "listings" /\ Stored!Overwrite(Stored!Key(o, "hero"), Stored!Elsewhere)
    BY <1>8 DEF Stored!SyncHeroImage
  <2>2. "hero" \in Stored!Pictures[folder[o]] /\ Stored!Elsewhere \in Stored!Address
    BY <2>1, ElsewhereApart DEF Stored!Pictures
  <2> QED
    BY <2>1, <2>2, FileOverwrite
<1>9. ASSUME NEW o \in Owner, Stored!UpdateProfile(o) PROVE FileInv'
  <2>1. PICK address \in Stored!Address \cup {None} :
          folder[o] = "users" /\ Stored!Overwrite(Stored!Key(o, "profile-photo"), address)
    BY <1>9 DEF Stored!UpdateProfile
  <2>2. "profile-photo" \in Stored!Pictures[folder[o]]
    BY <2>1 DEF Stored!Pictures
  <2> QED
    BY <2>1, <2>2, FileOverwrite
<1> QED
  BY <1>1, <1>2, <1>3, <1>4, <1>5, <1>6, <1>7, <1>8, <1>9 DEF Stored!Next

-----------------------------------------------------------------------------
(* The parts together *)

\* A step of the app is a step of one part, and leaves the others as they are.
LEMMA PartSteps ==
  ASSUME [Next]_all
  PROVE  /\ kind' = kind
         /\ [Edited!Next]_(Edited!vars) /\ [Stored!Next]_(Stored!imageVars)
         /\ [Tree!Next]_(Tree!treeVars) /\ [Offers!Next]_(Offers!cityVars)
         /\ [Tiled!Next]_(Tiled!tileVars) /\ [Parts!Next]_(Parts!partVars)
         /\ [Favored!Next]_(Favored!vars) /\ [Parked!Next]_(Parked!parkingVars)
         /\ [Themed!Next]_(Themed!themeVars)
<1>1. CASE CatalogueNext
  BY <1>1
     DEF CatalogueNext, others, listingVars, imageVars, treeVars, cityVars, tileVars,
         partVars, favVars, parkVars, themeVars, Edited!vars, Stored!imageVars,
         Tree!treeVars, Offers!cityVars, Tiled!tileVars, Parts!partVars, Favored!vars,
         Parked!parkingVars, Themed!themeVars
<1>2. CASE OtherNext
  BY <1>2
     DEF OtherNext, catalogue, listingVars, imageVars, treeVars, cityVars, tileVars,
         partVars, favVars, parkVars, themeVars, Edited!vars, Stored!imageVars,
         Tree!treeVars, Offers!cityVars, Tiled!tileVars, Parts!partVars, Favored!vars,
         Parked!parkingVars, Themed!themeVars
<1>3. CASE UNCHANGED all
  BY <1>3
     DEF all, catalogue, others, listingVars, imageVars, treeVars, cityVars, tileVars,
         partVars, favVars, parkVars, themeVars, Edited!vars, Stored!imageVars,
         Tree!treeVars, Offers!cityVars, Tiled!tileVars, Parts!partVars, Favored!vars,
         Parked!parkingVars, Themed!themeVars
<1> QED
  BY <1>1, <1>2, <1>3 DEF Next

\* The invariants of the parts hold whichever part a behaviour is about.
ContentInv ==
  /\ kind \in {"listings", "images", "tree", "offers", "tiles", "parts", "favorites",
              "parking", "theme"}
  /\ ListingInv /\ FileInv /\ TreeInv /\ OfferInv /\ TileInv
  /\ PieceInv /\ FavInv /\ LotInv /\ ThemeInv

LEMMA ContentInit == Init => ContentInv
BY ListingInvInit, FileInit, TreeInit, OfferInvInit, TileInvInit, PieceInit, FavInvInit,
   LotInit, ThemeInit
   DEF Init, ContentInv

LEMMA ContentStep == ContentInv /\ [Next]_all => ContentInv'
<1> SUFFICES ASSUME ContentInv, [Next]_all PROVE ContentInv'
  OBVIOUS
<1> USE PartSteps DEF ContentInv
<1>1. ListingInv'
  BY ListingInvStep
<1>2. FileInv'
  BY FileStep
<1>3. TreeInv'
  BY TreeStep
<1>4. OfferInv'
  BY OfferInvStep
<1>5. TileInv'
  BY TileInvStep
<1>6. PieceInv'
  BY PieceStep
<1>7. FavInv'
  BY FavInvStep
<1>8. LotInv'
  BY LotStep
<1>9. ThemeInv'
  BY ThemeStep
<1>10. kind' = kind
  OBVIOUS
<1> QED
  BY ONLY ContentInv, <1>1, <1>2, <1>3, <1>4, <1>5, <1>6, <1>7, <1>8, <1>9, <1>10
  DEF ContentInv

\* They hold in every state.
THEOREM ContentHolds == Spec => []ContentInv
BY ContentInit, ContentStep, PTL DEF Spec

\* Every part keeps its types.
THEOREM ContentTyped == Spec => []TypeOK
<1>1. ASSUME ContentInv PROVE TypeOK
  <2>1. Edited!TypeOK /\ Stored!TypeOK /\ Tree!TypeOK
    BY <1>1 DEF ContentInv, ListingInv, FileInv, TreeInv
  <2>2. Offers!TypeOK /\ Tiled!TypeOK /\ Parts!TypeOK
    BY <1>1 DEF ContentInv, OfferInv, TileInv, PieceInv
  <2>3. Favored!TypeOK /\ Parked!TypeOK /\ Themed!TypeOK
    BY <1>1 DEF ContentInv, FavInv, LotInv, ThemeInv
  <2>4. kind \in {"listings", "images", "tree", "offers", "tiles", "parts", "favorites",
                "parking", "theme"}
    BY <1>1 DEF ContentInv
  <2>5. CASE kind \in {"listings", "images", "tree"}
    BY <2>1, <2>5 DEF TypeOK
  <2>6. CASE kind \in {"offers", "tiles", "parts"}
    BY <2>2, <2>6 DEF TypeOK
  <2>7. CASE kind \in {"favorites", "parking", "theme"}
    BY <2>3, <2>7 DEF TypeOK
  <2> QED
    BY <2>4, <2>5, <2>6, <2>7
<1> QED
  BY <1>1, ContentHolds, PTL

\* The review of a listing, its categories and times, and the last toggle of
\* a favourite stand, whatever edits, verdicts, imports and toggles overlap.  What
\* is approved is what a moderator was shown before the verdict, or an admin or the
\* import stood for, unless it was rewritten after that showing.
THEOREM ListingsStanding == Spec => []ListingsStand
<1>1. ContentInv => ListingsStand
  BY ListingsReviewed, PiecesAsSent, FavStands DEF ContentInv, ListingsStand
<1> QED
  BY <1>1, ContentHolds, PTL

\* Rows name files and files have rows, and the rows of parking spaces tell
\* what was reported, however requests, errors, syncs and crashes fall; but for
\* pictures whose column the import or the user wrote last, or a failure or an
\* overlap has spoilt since the last undisturbed upload.
THEOREM RowsTelling == Spec => []RowsTell
<1>1. ContentInv => RowsTell
  BY FilesTell, LotsAsReported DEF ContentInv, RowsTell
<1> QED
  BY <1>1, ContentHolds, PTL

\* What buildCategoryHierarchy does not reach from the roots are the sets that
\* hold the parents of all their members.
LEMMA ListsAreWhole == Tree!ListsWhole
<1> DEFINE kept(list) == {S \in SUBSET list : \A d \in S : category[d].parent \in S}
<1> SUFFICES ASSUME NEW list \in SUBSET Tree!Rows
             PROVE  list \ Tree!Hierarchy(list) = UNION kept(list)
  BY DEF Tree!ListsWhole
<1> SUFFICES ASSUME NEW c \in list
             PROVE  c \notin Tree!Hierarchy(list) <=>
                      \E S \in SUBSET list : c \in S /\ \A d \in S : category[d].parent \in S
  OBVIOUS
<1> DEFINE Reached(S) == \A d \in list :
             category[d].parent \notin list \/ category[d].parent \in S => d \in S
<1>1. c \notin Tree!Hierarchy(list) <=> \E S \in SUBSET list : Reached(S) /\ c \notin S
  BY DEF Tree!Hierarchy
<1>2. ASSUME NEW S \in SUBSET list, Reached(S), c \notin S
      PROVE  c \in list \ S /\ \A d \in list \ S : category[d].parent \in list \ S
  BY <1>2
<1>3. ASSUME NEW S \in SUBSET list, c \in S, \A d \in S : category[d].parent \in S
      PROVE  Reached(list \ S) /\ c \notin list \ S
  BY <1>3
<1>4. \A S \in SUBSET list : list \ S \in SUBSET list
  OBVIOUS
<1> HIDE DEF Reached
<1>5. (\E S \in SUBSET list : Reached(S) /\ c \notin S) =>
        \E S \in SUBSET list : c \in S /\ \A d \in S : category[d].parent \in S
  BY <1>2, <1>4
<1>6. (\E S \in SUBSET list : c \in S /\ \A d \in S : category[d].parent \in S) =>
        \E S \in SUBSET list : Reached(S) /\ c \notin S
  BY <1>3, <1>4
<1> QED
  BY <1>1, <1>5, <1>6

\* A category that is in use is not deleted.
LEMMA CategoriesStay == Spec => Tree!InUseStays
<1>1. ContentInv /\ [Next]_all =>
        [\A p \in filed \ filed' : category'[p[2]] # Tree!Absent \/ p \in late]_(Tree!treeVars)
  BY PartSteps, TreeStays DEF ContentInv
<1> QED
  BY <1>1, ContentHolds, PTL DEF Spec, Tree!InUseStays

\* What a city sees approved it is offered.
LEMMA ApprovedOffered == Spec => []Offers!ApprovedIsOffered
<1>1. ContentInv => Offers!ApprovedIsOffered
  BY OffersStand DEF ContentInv
<1> QED
  BY <1>1, ContentHolds, PTL

\* What a city admin writes to a tile stays within its cities.
LEMMA TilesWithin == Spec => Tiled!TilesInScope
<1> DEFINE Within ==
      \A k \in Call, t \in Tile :
        Tiled!Writes(k) /\ tileJob[k].tile = t /\ tileJob[k].scope # Tiled!All =>
          \/ (Tiled!ShownIn(t) \cup Tiled!ShownIn(t)') \subseteq tileJob[k].scope
          \/ tileJob[k].seen # Tiled!Links(t)
<1>1. ASSUME ContentInv, [Next]_all PROVE Within
  <2>1. TileInv /\ [Tiled!Next]_(Tiled!tileVars)
    BY <1>1, PartSteps DEF ContentInv
  <2>2. TileInv'
    BY <2>1, TileInvStep
  <2>3. \A t \in Tile : /\ Tiled!ShownIn(t) = Tiled!Links(t)
                       /\ Tiled!ShownIn(t)' = Tiled!Links(t)'
    BY <2>1, <2>2, TileShown DEF TileInv
  <2> QED
    BY <2>1, <2>3, TileWrites
<1> HIDE DEF Within
<1>2. Spec => [][Within]_(Tiled!tileVars)
  BY <1>1, ContentHolds, PTL DEF Spec
<1> QED
  BY <1>2 DEF Within, Tiled!TilesInScope

\* A mail goes out in a theme its city had lately.
LEMMA MailsRecent == Spec => Themed!ThemesAreRecent
<1>1. Init => Themed!Init
  BY DEF Init
<1>2. [Next]_all => [Themed!Next]_(Themed!themeVars)
  BY PartSteps
<1>3. Spec => Themed!Spec
  BY <1>1, <1>2, PTL DEF Spec, Themed!Spec
<1> QED
  BY <1>3, ThemesRecent

\* Categories stay where they are used and are shown where they are listed,
\* what a city sees approved it is offered, tiles stay within the cities of
\* their admins, and mails go out in a recent theme.
THEOREM CatalogueStands == Spec => CatalogueHolds
<1>1. Spec => []Tree!ListsWhole
  BY ListsAreWhole, PTL
<1>2. Spec => [](kind = "offers" => Offers!ApprovedIsOffered)
  BY ApprovedOffered, PTL
<1> QED
  BY <1>1, <1>2, CategoriesStay, TilesWithin, MailsRecent
  DEF CatalogueHolds, Tree!CategoriesHold
============================================================================
