------------------------------ MODULE Parking ------------------------------
(***************************************************************************)
(* Parking spaces: the sync of mobilithek-parking.service.ts               *)
(* (apps/integration) fetches what the provider reports and sends the      *)
(* spaces one by one to core, which derives the number of free spots and   *)
(* the status from one report and stores them (core.service.ts,            *)
(* syncParkingSpace).  Each POST /integrations/:id/sync runs a sync of its *)
(* own, calls have no timeout, and core serves all messages at once.       *)
(*                                                                         *)
(* A report may count spots as a whole and by kind of vehicle; a count that*)
(* is missing is read as 0.  Of its other fields only the place, the status*)
(* word and the id matter here.                                            *)
(***************************************************************************)
EXTENDS Integers

CONSTANTS
  Site,       \* parkingSiteId
  Report,     \* what the provider may say of a site
  Provider,   \* the provider in the row of the integration
  Sync,       \* the syncs that may be asked for, each runs once
  None,
  MaxNews,    \* bound on the changes at the provider
  MaxFaults   \* bound on the failures of databases and processes

Word   == {"open", "available", "closed", "unavailable", "other"}
Counts == [total : Nat, occupied : Nat]
Row    == [status : Word \cup {"unknown"}, available : Nat \cup {None}, from : Report]

ParkingAssumption ==
  /\ Site # {} /\ None \notin Row
  /\ None \notin Sync \cup Word \cup {"sync_completed", "sync_failed"}
  /\ \A r \in Report :
       /\ r.word \in Word \cup {None} /\ r.named \in BOOLEAN /\ r.placed \in BOOLEAN
       /\ {r.all, r.four, r.two, r.rest} \subseteq Counts
  /\ MaxNews \in Nat /\ MaxFaults \in Nat

VARIABLES
  integration,  \* "active", "inactive", "disabled" or "unconfigured"
  served,       \* what the provider reports now
  news,         \* number of changes there
  sync,         \* where each sync is and what it holds
  core,         \* where core's handler of the sync's call is, or its answer
  space,        \* table parking_spaces
  logs,         \* table integration_logs: how each sync ended
  faults,       \* number of failures
  newest        \* history: the sync that touched core last, if none overlapped

parkingVars == <<integration, served, news, sync, core, space, logs, faults, newest>>

Idle == [at |-> "idle"]
Run  == [at : {"fetch", "next", "waiting", "over", "dead"},
         got : [Site -> Report], left : SUBSET Site, site : Site, errors : Nat]

At(s, place) == sync[s].at = place
Running(s)   == sync[s].at \in {"fetch", "next", "waiting"}
Serving(s)   == core[s] \in {"queued", "upsert"}

TypeOK ==
  /\ integration \in {"active", "inactive", "disabled", "unconfigured"}
  /\ served \in [Site -> Report] /\ news \in 0 .. MaxNews
  /\ sync \in [Sync -> Run \cup {Idle}]
  /\ core \in [Sync -> {"none", "queued", "upsert", "success", "error"}]
  /\ space \in [Site -> Row \cup {None}]
  /\ logs \in [Sync -> {None, "sync_completed", "sync_failed"}]
  /\ faults \in 0 .. MaxFaults
  /\ newest \in Sync \cup {None}

Init ==
  /\ integration \in {"active", "inactive", "disabled", "unconfigured"}
  /\ served \in [Site -> Report] /\ news = 0
  /\ sync = [s \in Sync |-> Idle]
  /\ core = [s \in Sync |-> "none"]
  /\ space = [p \in Site |-> None]
  /\ logs = [s \in Sync |-> None]
  /\ faults = 0 /\ newest = None

Fault == faults < MaxFaults /\ faults' = faults + 1

-----------------------------------------------------------------------------
\* What core makes of a report.

\* The first count that is not 0: the operator ||, of numbers.
Or(a, b) == IF a # 0 THEN a ELSE b

Total(r)    == Or(Or(Or(r.all.total, r.four.total), r.two.total), r.rest.total)
Occupied(r) ==
  Or(Or(Or(r.all.occupied, r.four.occupied), r.two.occupied), r.rest.occupied)

\* Mutant: more spots taken than there are is a negative number of free ones.
AvailableSigned(r) == IF Total(r) = 0 THEN None ELSE Total(r) - Occupied(r)

Available(r) ==
  IF Total(r) = 0 THEN None
  ELSE IF Occupied(r) > Total(r) THEN 0 ELSE Total(r) - Occupied(r)

\* The words a status contains: "unavailable" contains "available".
Contained(word) == {word} \cup (IF word = "unavailable" THEN {"available"} ELSE {})

\* The status word is looked at first, and for "open" before "closed".
Status(r) ==
  IF r.word # None
  THEN CASE Contained(r.word) \cap {"open", "available"} # {} -> "open"
         [] r.word = "closed" -> "closed"
         [] r.word = "other"  -> "other"
  ELSE CASE Total(r) = 0      -> "unknown"
         [] Total(r) # 0      -> IF Available(r) = 0 THEN "closed" ELSE "open"

\* The column occupancy holds a ratio below ten.
Fits(r) == Total(r) = 0 \/ Occupied(r) < 10 * Total(r)

-----------------------------------------------------------------------------
\* apps/integration.

News(p, r) ==
  /\ news < MaxNews /\ r # served[p]
  /\ news' = news + 1
  /\ served' = [served EXCEPT ![p] = r]
  /\ UNCHANGED <<integration, sync, core, space, logs, faults, newest>>

AnySite == CHOOSE p \in Site : TRUE

\* A sync that does not run leaves nothing; the log has its end otherwise.
End(s, event) ==
  /\ sync' = [sync EXCEPT ![s] = IF At(s, "idle")
       THEN [at |-> "over", got |-> served, left |-> {}, site |-> AnySite, errors |-> 0]
       ELSE [@ EXCEPT !.at = "over"]]
  /\ logs' = [logs EXCEPT ![s] = event]

\* The dispatch by provider, and the checks of the integration's row: one that
\* is inactive or disabled ends at once, one without configuration throws.
\* The two fetch the row in turn, with nothing in between that changes it.
SyncIntegration(s) ==
  /\ At(s, "idle") /\ Provider = "MOBILITHEK_PARKING"
  /\ IF integration = "active"
     THEN /\ sync' = [sync EXCEPT ![s] =
               [at |-> "fetch", got |-> served, left |-> Site, site |-> AnySite, errors |-> 0]]
          /\ newest' = IF \E o \in Sync : Running(o) \/ Serving(o) THEN None ELSE s
          /\ UNCHANGED logs
     ELSE End(s, None) /\ UNCHANGED newest
  /\ UNCHANGED <<integration, served, news, core, space, faults>>

\* Whatever the format of the answer, it is a list of the sites; a failed
\* request is logged and ends the sync.
FetchParkingData(s) ==
  /\ At(s, "fetch")
  /\ \/ /\ sync' = [sync EXCEPT ![s].at = "next", ![s].got = served]
        /\ UNCHANGED <<logs, faults>>
     \/ Fault /\ End(s, "sync_failed")
  /\ UNCHANGED <<integration, served, news, core, space, newest>>

SendSpace(s, p) ==
  /\ At(s, "next") /\ p \in sync[s].left
  /\ sync' = [sync EXCEPT ![s].at = "waiting", ![s].site = p, ![s].left = @ \ {p}]
  /\ core' = [core EXCEPT ![s] = "queued"]
  /\ UNCHANGED <<integration, served, news, space, logs, faults, newest>>

SpaceAnswered(s) ==
  /\ At(s, "waiting") /\ core[s] \in {"success", "error"}
  /\ sync' = [sync EXCEPT ![s].at = "next",
                          ![s].errors = IF core[s] = "error" THEN @ + 1 ELSE @]
  /\ core' = [core EXCEPT ![s] = "none"]
  /\ UNCHANGED <<integration, served, news, space, logs, faults, newest>>

\* lastSyncAt and the entry of the log, or the entry of the catch around all.
CompleteSync(s) ==
  /\ At(s, "next") /\ sync[s].left = {}
  /\ \/ End(s, "sync_completed") /\ UNCHANGED faults
     \/ End(s, "sync_failed") /\ Fault
  /\ UNCHANGED <<integration, served, news, core, space, newest>>

IntegrationCrash ==
  /\ Fault /\ \E s \in Sync : Running(s)
  /\ sync' = [s \in Sync |-> IF Running(s) THEN [sync[s] EXCEPT !.at = "dead"] ELSE sync[s]]
  /\ UNCHANGED <<integration, served, news, core, space, logs, newest>>

-----------------------------------------------------------------------------
\* apps/core.

Reported(s) == sync[s].got[sync[s].site]
Storable(r) == r.placed /\ r.named

Become(s, place) == core' = [core EXCEPT ![s] = place]

\* A space without a place or an id is left out, and that is a success.
TakeSpace(s) ==
  /\ core[s] = "queued"
  /\ Become(s, IF Storable(Reported(s)) THEN "upsert" ELSE "success")
  /\ UNCHANGED <<integration, served, news, sync, space, logs, faults, newest>>

\* The upsert writes every column; it throws when a number does not fit.
Stored(s) ==
  LET r == Reported(s)
      row == [status |-> Status(r), available |-> Available(r), from |-> r]
  IN IF Fits(r) THEN [space EXCEPT ![sync[s].site] = row] ELSE space

\* Mutant: a number that does not fit is logged, and the space skipped.
StoreSpaceQuietly(s) ==
  /\ core[s] = "upsert"
  /\ space' = Stored(s)
  /\ Become(s, "success")
  /\ UNCHANGED <<integration, served, news, sync, logs, faults, newest>>

StoreSpace(s) ==
  /\ core[s] = "upsert"
  /\ space' = Stored(s)
  /\ Become(s, IF Fits(Reported(s)) THEN "success" ELSE "error")
  /\ UNCHANGED <<integration, served, news, sync, logs, faults, newest>>

\* The upsert fails, or the deletion of the cache key after it.
StoreFails(s) ==
  /\ Fault /\ core[s] = "upsert"
  /\ Become(s, "error")
  /\ space' \in {space, Stored(s)}
  /\ UNCHANGED <<integration, served, news, sync, logs, newest>>

\* A message core has begun to serve is gone, one in the queue may stay there.
CoreCrash ==
  /\ Fault
  /\ \E lost \in SUBSET {s \in Sync : core[s] = "queued"} :
       core' = [s \in Sync |-> IF core[s] = "upsert" \/ s \in lost
                               THEN "none" ELSE core[s]]
  /\ core' # core
  /\ UNCHANGED <<integration, served, news, sync, space, logs, newest>>

Next ==
  \/ \E p \in Site, r \in Report : News(p, r)
  \/ \E s \in Sync :
       \/ SyncIntegration(s)
       \/ FetchParkingData(s)
       \/ \E p \in Site : SendSpace(s, p)
       \/ SpaceAnswered(s)
       \/ CompleteSync(s)
       \/ TakeSpace(s)
       \/ StoreSpace(s)
       \/ StoreFails(s)
  \/ IntegrationCrash
  \/ CoreCrash

Spec == Init /\ [][Next]_parkingVars

-----------------------------------------------------------------------------
\* A sync that is logged as completed without errors has stored every space
\* that came with a place and an id.
NoErrorMeansStored ==
  \A s \in Sync : logs[s] = "sync_completed" /\ sync[s].errors = 0 =>
    \A p \in Site : Storable(sync[s].got[p]) => space[p] # None

\* When no other sync, nor a message of one that crashed, was under way, the
\* rows tell what this sync fetched, and not what an earlier one did.
LoneSyncIsCurrent ==
  newest # None /\ logs[newest] = "sync_completed" /\ sync[newest].errors = 0 =>
    \A p \in Site :
      Storable(sync[newest].got[p]) => space[p].from = sync[newest].got[p]

\* A kind of vehicle that has a free spot, in a report that counts no more
\* spots taken than there are.
Kinds(r)   == {r.all, r.four, r.two, r.rest}
Sane(r)    == \A c \in Kinds(r) : c.occupied <= c.total
HasFree(r) == \E c \in Kinds(r) : c.occupied < c.total

\* Without a status word, a space is stored as open only if some kind of
\* vehicle finds a spot there, and one all of whose kinds are full is closed.
StatusMatchesCounts ==
  \A p \in Site : space[p] # None =>
    LET r == space[p].from IN
      /\ r.word = None /\ Sane(r) /\ ~HasFree(r) => space[p].status # "open"
      /\ space[p].available \in 0 .. Total(r) \cup {None}

\* Parking spaces are stored as reported: see the three above.
SpacesAsReported == NoErrorMeansStored /\ LoneSyncIsCurrent /\ StatusMatchesCounts
=============================================================================
