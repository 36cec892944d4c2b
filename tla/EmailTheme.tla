----------------------------- MODULE EmailTheme -----------------------------
(***************************************************************************)
(* The look of the mails of a city (apps/notification, CityEmailTheme-     *)
(* Service): a process keeps the theme of each city for an hour and asks   *)
(* the city service when it has none, by a call that times out.  Nothing   *)
(* clears the cache when a city is updated.  It implements the bounded     *)
(* staleness of StaleRead, where the default theme is an answer at any     *)
(* time.                                                                   *)
(***************************************************************************)
EXTENDS Integers

CONSTANTS
  City,
  Metadata,  \* what the column metadata of each city may hold
  Call,      \* mails that may be in the making at once
  TTL,       \* ticks a theme is kept: one hour
  Slow,      \* ticks a call to the city service may take: five seconds
  None

\* appName and primaryColor stand for the fields of a theme, each None when
\* it is missing; no row at all, or one without a theme, is None.
EmailThemeAssumption ==
  /\ \A c \in City : \A d \in Metadata[c] \ {None} : {"appName", "primaryColor"} = DOMAIN d
  /\ TTL \in Nat /\ Slow \in Nat

VARIABLES
  metadata,  \* column metadata of each city
  cache,     \* themeCache with cacheTimestamps, as ticks since
  mail,      \* where each mail is and the theme it got
  age        \* history: ticks since each theme of a city was last in force

themeVars == <<metadata, cache, mail, age>>

-----------------------------------------------------------------------------
\* What a theme is made of.

Or(value, default) == IF value = None THEN default ELSE value

Default == [appName |-> "Heidi", primaryColor |-> "#009EE0", accentColor |-> "#009EE0"]

\* Mutant: a field that is missing stays missing.
ParseUnmerged(d) ==
  IF d = None THEN Default
  ELSE [appName |-> d.appName, primaryColor |-> d.primaryColor, accentColor |-> d.primaryColor]

\* A field that is missing has its default; the accent follows the primary
\* colour first.
ParseCityMetadata(d) ==
  IF d = None THEN Default
  ELSE [appName      |-> Or(d.appName, Default.appName),
        primaryColor |-> Or(d.primaryColor, Default.primaryColor),
        accentColor  |-> Or(d.primaryColor, Default.accentColor)]

Themes(c) == {ParseCityMetadata(d) : d \in Metadata[c]} \cup {Default}
Value     == UNION {{<<c, t>> : t \in Themes(c)} : c \in City}

\* A mail may always go out in the default theme.
InForce == {<<c, ParseCityMetadata(metadata[c])>> : c \in City}
           \cup {<<c, Default>> : c \in City}

Bound == TTL + Slow

Idle   == [at |-> "idle"]
Asking == [at : {"asked", "told"}, city : City, waited : 0 .. Slow, theme : {t[2] : t \in Value}]
Made   == [at : {"made"}, city : City, theme : {t[2] : t \in Value}]

TypeOK ==
  /\ \A c \in City : metadata[c] \in Metadata[c]
  /\ \A c \in City : cache[c] = None \/ (cache[c].theme \in Themes(c) /\ cache[c].age \in 0 .. TTL + 1)
  /\ mail \in [Call -> Asking \cup Made \cup {Idle}]
  /\ age \in [Value -> 0 .. Bound + 1]

Init ==
  /\ metadata \in [City -> UNION {Metadata[c] : c \in City}]
  /\ \A c \in City : metadata[c] \in Metadata[c]
  /\ cache = [c \in City |-> None]
  /\ mail = [k \in Call |-> Idle]
  /\ age = [v \in Value |-> IF v \in InForce THEN 0 ELSE Bound + 1]

-----------------------------------------------------------------------------
\* The mail of a verification or of a reset.

At(k, place) == mail[k].at = place
Waiting(k)   == At(k, "asked") \/ At(k, "told")

Make(k, c, theme) == mail' = [mail EXCEPT ![k] = [at |-> "made", city |-> c, theme |-> theme]]

\* Mutant: a theme that is used stays for another hour.
CachedThemeRenewed(c) ==
  IF cache[c] = None \/ cache[c].age > TTL THEN [cache EXCEPT ![c] = None]
  ELSE [cache EXCEPT ![c].age = 0]

\* A theme older than the time to live is dropped, with its timestamp.
GetCachedTheme(c) ==
  IF cache[c] # None /\ cache[c].age > TTL THEN [cache EXCEPT ![c] = None] ELSE cache

\* getCityTheme of a mail that names a city, up to its call; a mail that
\* names none has the default theme and touches nothing.
GetCityTheme(k, c) ==
  /\ At(k, "idle")
  /\ cache' = GetCachedTheme(c)
  /\ IF cache'[c] # None
     THEN Make(k, c, cache'[c].theme)
     ELSE mail' = [mail EXCEPT ![k] =
            [at |-> "asked", city |-> c, waited |-> 0, theme |-> Default]]
  /\ UNCHANGED <<metadata, age>>

\* The city service reads the row, of an inactive city too.
FindCity(k) ==
  /\ At(k, "asked")
  /\ mail' = [mail EXCEPT ![k].at = "told",
                          ![k].theme = ParseCityMetadata(metadata[mail[k].city])]
  /\ UNCHANGED <<metadata, cache, age>>

CacheTheme(k) ==
  /\ At(k, "told")
  /\ cache' = [cache EXCEPT ![mail[k].city] = [theme |-> mail[k].theme, age |-> 0]]
  /\ Make(k, mail[k].city, mail[k].theme)
  /\ UNCHANGED <<metadata, age>>

\* No city, an error or no answer in time.
FallBack(k) ==
  /\ Waiting(k)
  /\ Make(k, mail[k].city, Default)
  /\ UNCHANGED <<metadata, cache, age>>

SendVerification(k) ==
  /\ At(k, "made")
  /\ mail' = [mail EXCEPT ![k] = Idle]
  /\ UNCHANGED <<metadata, cache, age>>

Restart ==
  /\ cache' = [c \in City |-> None]
  /\ mail' = [k \in Call |-> Idle]
  /\ UNCHANGED <<metadata, age>>

\* PATCH of apps/city.
UpdateCity(c, d) ==
  /\ d # metadata[c]
  /\ metadata' = [metadata EXCEPT ![c] = d]
  /\ age' = [v \in Value |-> IF v \in InForce' THEN 0 ELSE age[v]]
  /\ UNCHANGED <<cache, mail>>

\* Mails are written at once when they have their theme.
Tick ==
  /\ \A k \in Call : ~At(k, "made") /\ (Waiting(k) => mail[k].waited < Slow)
  /\ mail' = [k \in Call |-> IF Waiting(k) THEN [mail[k] EXCEPT !.waited = @ + 1] ELSE mail[k]]
  /\ cache' = [c \in City |-> IF cache[c] = None \/ cache[c].age > TTL
                              THEN cache[c] ELSE [cache[c] EXCEPT !.age = @ + 1]]
  /\ age' = [v \in Value |-> IF v \in InForce \/ age[v] = Bound + 1 THEN age[v] ELSE age[v] + 1]
  /\ UNCHANGED metadata

Next ==
  \/ \E k \in Call :
       \/ \E c \in City : GetCityTheme(k, c)
       \/ FindCity(k)
       \/ CacheTheme(k)
       \/ FallBack(k)
       \/ SendVerification(k)
  \/ Restart
  \/ \E c \in City : \E d \in Metadata[c] : UpdateCity(c, d)
  \/ Tick

Spec == Init /\ [][Next]_themeVars

-----------------------------------------------------------------------------
\* A mail goes out in the default theme, or in one that was in force for its
\* own city within the hour and the five seconds before, however calls,
\* updates and restarts overlap.
ByTheme == INSTANCE StaleRead WITH
  Bound <- TTL + Slow, truth <- InForce,
  answer <- [k \in Call |-> IF At(k, "made") THEN <<mail[k].city, mail[k].theme>> ELSE None]

ThemesAreRecent == ByTheme!Spec
=============================================================================
