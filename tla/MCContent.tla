----------------------------- MODULE MCContent -----------------------------
(* The contents of the app in one run: parts of apps/core, of the storage,  *)
(* of the import of parking spaces and of the look of mails that share      *)
(* nothing.  A behaviour is about one part: kind is chosen in the initial   *)
(* state and never changes, and the variables of the others stay as they    *)
(* are initially.                                                           *)
EXTENDS Naturals

CONSTANTS
  None,
  Listing, Author, Admin, Text, Place, Call,              \* Listings, and below
  Owner, MediaId, Size, MaxFiles, MaxTime, Bucket, VirtualHosted,  \* Images
  Category, Base, MaxSuffix,                              \* CategoryTree
  Offerable, Town, CityAdmin, Manages, Name, Request,     \* CityCategories
  Tile, City, Manageable,                                 \* Tiles, EmailTheme
  Filing, Edit, Import, MaxId, Body,                      \* ListingParts
  User,                                                   \* Favorites
  Site, Report, Provider, Sync, MaxNews, MaxFaults,       \* Parking
  Metadata, TTL, Slow                                     \* EmailTheme

\* The values of some of them: who is in charge of which towns,
AllManage  == CityAdmin \X Town
AnyCities  == SUBSET City

\* an edit without categories, one that replaces the opening times, and one
\* that sends only exceptions,
Asks(categories, intervals, exceptions) ==
  [categories |-> categories, intervals |-> intervals, exceptions |-> exceptions]
Bodies == {Asks({}, "kept", "unsent"), Asks(Filing, "replaced", "kept"),
           Asks(None, "unsent", "replaced")}

\* a report with more spots taken than there are, one with a word and counts
\* by kind but no place, and one whose ratio does not fit the column,
Spots(total, occupied) == [total |-> total, occupied |-> occupied]
Said(word, placed, all, four, two) ==
  [word |-> word, named |-> TRUE, placed |-> placed,
   all |-> all, four |-> four, two |-> two, rest |-> Spots(0, 0)]
Reports ==
  {Said(None, TRUE, Spots(1, 2), Spots(0, 0), Spots(0, 0)),
   Said("unavailable", FALSE, Spots(0, 0), Spots(1, 0), Spots(1, 1)),
   Said(None, TRUE, Spots(1, 10), Spots(0, 0), Spots(0, 0))}

\* and one city that is updated, and one whose theme must not get to the other.
Look(appName, primaryColor) == [appName |-> appName, primaryColor |-> primaryColor]
Looks ==
  [c \in City |-> IF c = "x" THEN {Look("A", None), Look(None, "red")} ELSE {Look("B", "blue")}]

VARIABLES
  kind,
  listing, reading, passed, byHand,                        \* Listings
  folder, gone, url, media, files, now, job, spoilt,       \* Images
  category, filed, writer, late,                           \* CategoryTree
  present, offered, request, resolver, removed, cut,       \* CityCategories
  tile, managed, tileJob,                                  \* Tiles
  rows, lastId, edit, partSync, partAlone, stands,         \* ListingParts
  favorite, favJob, alone, left,                           \* Favorites
  integration, served, news, sync, core, space, logs,
  faults, newest,                                          \* Parking
  metadata, cache, mail, age                               \* EmailTheme

Edited == INSTANCE Listings WITH City <- Place
Stored == INSTANCE Images
Tree   == INSTANCE CategoryTree
Offers == INSTANCE CityCategories WITH Category <- Offerable, City <- Town
Tiled  == INSTANCE Tiles WITH Manages <- Manageable, job <- tileJob
Parts  == INSTANCE ListingParts WITH
  Category <- Filing, sync <- partSync, alone <- partAlone
Favored == INSTANCE Favorites WITH job <- favJob
Parked == INSTANCE Parking
Themed == INSTANCE EmailTheme

\* A listing whose review was set by hand is exempt: what becomes of it is not
\* followed.
NoneByHand == byHand = {}

ASSUME HostedAssumption ==
  /\ Edited!ListingsAssumption /\ Stored!ImagesAssumption
  /\ Tree!CategoryTreeAssumption /\ Offers!CityCategoriesAssumption
  /\ Tiled!ManagesAssumption /\ Parts!PartsAssumption /\ Favored!FavoritesAssumption
  /\ Parked!ParkingAssumption /\ Themed!EmailThemeAssumption

listingVars == <<listing, reading, passed, byHand>>
imageVars   == <<folder, gone, url, media, files, now, job, spoilt>>
treeVars    == <<category, filed, writer, late>>
cityVars    == <<present, offered, request, resolver, removed, cut>>
tileVars    == <<tile, managed, tileJob>>
partVars    == <<rows, lastId, edit, partSync, partAlone, stands>>
favVars     == <<favorite, favJob, alone, left>>
parkVars    == <<integration, served, news, sync, core, space, logs, faults, newest>>
themeVars   == <<metadata, cache, mail, age>>

catalogue == <<listingVars, imageVars, treeVars, cityVars, tileVars>>
others    == <<partVars, favVars, parkVars, themeVars>>
all       == <<kind, catalogue, others>>

\* For the parts it does not matter to.
SomeReport   == CHOOSE r \in Report : TRUE
SomeLook(c)  == CHOOSE d \in Metadata[c] : TRUE

Init ==
  /\ kind \in {"listings", "images", "tree", "offers", "tiles", "parts", "favorites",
             "parking", "theme"}
  /\ Edited!Init
  /\ Stored!Init /\ (kind # "images" => folder = [o \in Owner |-> "listings"])
  /\ Tree!Init
  /\ Offers!Init
  /\ Tiled!Init /\ (kind # "tiles" => managed = {})
  /\ Parts!Init /\ (kind # "parts" => rows["categories"] = {})
  /\ Favored!Init
  \* All sites are served alike at first.
  /\ Parked!Init /\ (kind # "parking" => integration = "active")
  /\ \E r \in Report :
       served = [p \in Site |-> r] /\ (kind # "parking" => r = SomeReport)
  /\ Themed!Init /\ (kind # "theme" => \A c \in City : metadata[c] = SomeLook(c))

CatalogueNext ==
  /\ UNCHANGED <<kind, others>>
  /\ \/ /\ kind = "listings" /\ UNCHANGED <<imageVars, treeVars, cityVars, tileVars>>
        /\ Edited!Next
     \/ /\ kind = "images" /\ UNCHANGED <<listingVars, treeVars, cityVars, tileVars>>
        /\ Stored!Next
     \/ /\ kind = "tree" /\ UNCHANGED <<listingVars, imageVars, cityVars, tileVars>>
        /\ Tree!Next
     \/ /\ kind = "offers" /\ UNCHANGED <<listingVars, imageVars, treeVars, tileVars>>
        /\ Offers!Next
     \/ /\ kind = "tiles" /\ UNCHANGED <<listingVars, imageVars, treeVars, cityVars>>
        /\ Tiled!Next

OtherNext ==
  /\ UNCHANGED <<kind, catalogue>>
  /\ \/ kind = "parts" /\ UNCHANGED <<favVars, parkVars, themeVars>> /\ Parts!Next
     \/ kind = "favorites" /\ UNCHANGED <<partVars, parkVars, themeVars>> /\ Favored!Next
     \/ kind = "parking" /\ UNCHANGED <<partVars, favVars, themeVars>> /\ Parked!Next
     \/ kind = "theme" /\ UNCHANGED <<partVars, favVars, parkVars>> /\ Themed!Next

Next == CatalogueNext \/ OtherNext

Spec == Init /\ [][Next]_all

\* Every part keeps its types.
TypeOK ==
  CASE kind = "listings"  -> Edited!TypeOK
    [] kind = "images"    -> Stored!TypeOK
    [] kind = "tree"      -> Tree!TypeOK
    [] kind = "offers"    -> Offers!TypeOK
    [] kind = "tiles"     -> Tiled!TypeOK
    [] kind = "parts"     -> Parts!TypeOK
    [] kind = "favorites" -> Favored!TypeOK
    [] kind = "parking"   -> Parked!TypeOK
    [] kind = "theme"     -> Themed!TypeOK

\* The review of a listing stands whatever edits, verdicts and imports
\* overlap: see Listings; so do the categories and times sent last, as a
\* whole: see ListingParts; and so does the last toggle of a favourite that
\* nobody overlapped: see Favorites.
ListingsStand ==
  /\ kind = "listings" => Edited!ReviewStands
  /\ kind = "parts" => Parts!PartsAsSent
  /\ kind = "favorites" => Favored!LastToggleStands

\* The URLs in the rows name files in the bucket, and every file has its row,
\* where no removal, error, import or address of a user's own interfered: see
\* Images; and the rows of parking spaces tell what was reported: see Parking.
RowsTell ==
  /\ kind = "images" => Stored!RowsMatchFiles
  /\ kind = "parking" => Parked!SpacesAsReported

\* Categories stay where they are used and are shown where they are listed:
\* see CategoryTree; what a city sees approved it is offered: see
\* CityCategories; what a city admin writes to a tile stays within the
\* cities read for the request: see Tiles; and a mail goes out in a recent
\* theme of its city: see EmailTheme.
CatalogueHolds ==
  /\ Tree!CategoriesHold
  /\ [](kind = "offers" => Offers!ApprovedIsOffered)
  /\ Tiled!TilesInScope
  /\ Themed!ThemesAreRecent
============================================================================
