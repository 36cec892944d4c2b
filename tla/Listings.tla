------------------------------ MODULE Listings ------------------------------
(***************************************************************************)
(* Listings between their author, the moderators and the import            *)
(* (apps/core, modules/listings).  The author's edit runs in a transaction *)
(* and is one step.  A moderator is shown the listing, and the verdict     *)
(* sent later reads its date in one statement and is written in another:   *)
(* it names no version, so it judges whatever text is there by then.       *)
(*                                                                         *)
(* A Text stands for title, summary, content and the other fields an author*)
(* may set.  The slug is left out: Categories has the same code.  dated    *)
(* says that publishAt is set.                                             *)
(***************************************************************************)
EXTENDS FiniteSets

CONSTANTS
  Listing,  \* the listings that may exist
  Author,   \* citizens
  Admin,    \* super admins and city admins
  Text,     \* what an author writes
  City,
  Call,     \* verdicts that may be under way at once
  None      \* null: no row, no reviewer, no city, no creator (import)

ListingsAssumption ==
  /\ Author \cap Admin = {}
  /\ None \notin Author \cup Admin \cup Text \cup City \cup {"stale"} /\ "stale" \notin Text
  /\ None \notin {"PENDING", "APPROVED", "CHANGES_REQUESTED", "REJECTED", "ARCHIVED", "DELETED"}

VARIABLES
  listing,  \* table listings
  reading,  \* what a moderator was shown, and the call has read
  passed,   \* history: the text an admin or the import stood for last, or Stale
  byHand    \* history: listings whose review fields an admin has set by PATCH

vars == <<listing, reading, passed, byHand>>

Status     == {"PENDING", "APPROVED", "REJECTED", "DELETED"}
Moderation == {"PENDING", "APPROVED", "CHANGES_REQUESTED", "REJECTED", "ARCHIVED"}

Row == [author : Author \cup Admin \cup {None}, text : Text,
        status : Status, moderation : Moderation, archived : BOOLEAN,
        dated : BOOLEAN, reviewer : Admin \cup {None},
        cities : SUBSET City, primary : City \cup {None}]

Absent  == [author |-> None]
Idle    == [at |-> "idle"]

\* The text that was shown, until the listing gets another one.
Stale   == "stale"
Reading == [at : {"shown", "read"}, listing : Listing, text : Text \cup {Stale},
            dated : BOOLEAN]

Exists(l) == listing[l] # Absent

TypeOK ==
  /\ listing \in [Listing -> Row \cup {Absent}]
  /\ reading \in [Call -> Reading \cup {Idle}]
  /\ passed \in [Listing -> Text \cup {None, Stale}]
  /\ byHand \in SUBSET Listing

Init ==
  /\ listing = [l \in Listing |-> Absent]
  /\ reading = [c \in Call |-> Idle]
  /\ passed = [l \in Listing |-> None]
  /\ byHand = {}

Put(l, r)   == listing' = [listing EXCEPT ![l] = r]
Stand(l, t) == passed' = [passed EXCEPT ![l] = t]

\* A row with perhaps another text, whoever was shown the one before.
Rewrite(l, r) ==
  /\ Put(l, r)
  /\ reading' = [c \in Call |->
       IF reading[c] # Idle /\ reading[c].listing = l /\ reading[c].text # r.text
       THEN [reading[c] EXCEPT !.text = Stale] ELSE reading[c]]

\* The city marked isPrimary, otherwise the first of the list: any of them,
\* and none if there are none.
PrimaryOf(cities) == IF cities = {} THEN {None} ELSE cities

NewRow(u, text, cities, primary, dated) ==
  [author |-> u, text |-> text, status |-> "PENDING", moderation |-> "PENDING",
   archived |-> FALSE, dated |-> dated, reviewer |-> None,
   cities |-> cities, primary |-> primary]

\* POST /listings.  publishAt is dropped unless an admin sends it.
CreateListing(u, l) ==
  /\ ~Exists(l)
  /\ \E text \in Text, cities \in SUBSET City, dated \in BOOLEAN :
       \E primary \in PrimaryOf(cities) :
         Put(l, NewRow(u, text, cities, primary, dated /\ u \in Admin))
  /\ UNCHANGED <<reading, passed, byHand>>

\* The links to cities become the list sent, by deletions and upserts; the
\* field primaryCityId is set with them.  Without a list both stay.
CitiesSent(r) ==
  {r} \cup UNION {{[r EXCEPT !.cities = cs, !.primary = p] : p \in PrimaryOf(cs)}
                    : cs \in SUBSET City}

\* Mutant: moderationStatus stays, as for an admin.
ResubmittedStatusOnly(r) == [r EXCEPT !.status = "PENDING"]

\* What the author's edit makes of a row: the review starts again.
Resubmitted(r) ==
  [r EXCEPT !.status = "PENDING", !.moderation = "PENDING", !.reviewer = None]

\* The transaction of updateListing for a caller who is no admin.
AuthorUpdate(u, l) ==
  /\ listing[l].author = u
  /\ \E text \in Text, r \in CitiesSent(listing[l]) :
       Rewrite(l, Resubmitted([r EXCEPT !.text = text]))
  /\ UNCHANGED <<passed, byHand>>

\* The fields only an admin may send, one at a time: status,
\* moderationStatus, isArchived and publishAt.
Overridden(r) ==
  {[r EXCEPT !.status = s] : s \in Status}
    \cup {[r EXCEPT !.moderation = s] : s \in Moderation}
    \cup {[r EXCEPT !.archived = b] : b \in BOOLEAN}
    \cup {[r EXCEPT !.dated = b] : b \in BOOLEAN}

\* The same transaction for an admin: the review is not touched.
AdminUpdate(l) ==
  \/ \E text \in Text, r \in CitiesSent(listing[l]) :
       /\ Rewrite(l, [r EXCEPT !.text = text])
       /\ Stand(l, text)
       /\ UNCHANGED byHand
  \/ \E r \in Overridden(listing[l]) :
       /\ Put(l, r)
       /\ byHand' = byHand \cup {l}
       /\ UNCHANGED <<reading, passed>>

\* PATCH /listings/:id
UpdateListing(u, l) ==
  /\ Exists(l)
  /\ IF u \in Admin THEN AdminUpdate(l) ELSE AuthorUpdate(u, l)

\* submitListingForReview, of the creator only.
SubmitListing(u, l) ==
  /\ Exists(l) /\ listing[l].author = u
  /\ Put(l, Resubmitted(listing[l]))
  /\ UNCHANGED <<reading, passed, byHand>>

\* POST /listings/:id/submit, open to admins and citizens alike.
SubmitForReview(u) == \E l \in Listing : SubmitListing(u, l)

\* getListingById shows a moderator the listing.
ShowListing(c, l) ==
  /\ reading[c] = Idle /\ Exists(l)
  /\ reading' = [reading EXCEPT ![c] = [at |-> "shown", listing |-> l,
       text |-> listing[l].text, dated |-> FALSE]]
  /\ UNCHANGED <<listing, passed, byHand>>

\* moderateListing, first statement: is there a publishAt?
BeginModeration(c) ==
  /\ reading[c] # Idle /\ reading[c].at = "shown"
  /\ reading' = [reading EXCEPT ![c].at = "read",
                                ![c].dated = listing[reading[c].listing].dated]
  /\ UNCHANGED <<listing, passed, byHand>>

\* What the status may be after a verdict: where the caller's publishStatus
\* counts, any.
Published(verdict) ==
  CASE verdict = "REJECTED"          -> {"REJECTED"}
    [] verdict = "CHANGES_REQUESTED" -> {"PENDING"}
    [] verdict = "ARCHIVED"          -> {"DELETED"}
    [] OTHER                         -> Status

\* The row after a verdict; dated is what the first statement read.
Judged(r, m, verdict, status, dated) ==
  [r EXCEPT !.moderation = verdict, !.reviewer = m, !.status = status,
            !.archived = CASE verdict = "APPROVED" -> FALSE
                           [] verdict = "ARCHIVED" -> TRUE
                           [] OTHER -> @,
            !.dated = @ \/ (verdict = "APPROVED" /\ ~dated /\ status = "APPROVED")]

\* moderateListing, second statement.  What was approved is what was shown.
FinishModeration(c, m, verdict, status) ==
  /\ reading[c] # Idle /\ reading[c].at = "read"
  /\ LET l == reading[c].listing
     IN  /\ Put(l, Judged(listing[l], m, verdict, status, reading[c].dated))
         /\ IF verdict = "APPROVED" THEN Stand(l, reading[c].text)
                                    ELSE UNCHANGED passed
  /\ reading' = [reading EXCEPT ![c] = Idle]
  /\ UNCHANGED byHand

\* The five endpoints of a moderator.
Moderate(c, m) ==
  \E verdict \in Moderation : \E status \in Published(verdict) :
    FinishModeration(c, m, verdict, status)
Approve(c, m)        == \E status \in Status : FinishModeration(c, m, "APPROVED", status)
RequestChanges(c, m) == FinishModeration(c, m, "CHANGES_REQUESTED", "PENDING")
Reject(c, m)         == FinishModeration(c, m, "REJECTED", "REJECTED")
Archive(c, m)        == FinishModeration(c, m, "ARCHIVED", "DELETED")

\* syncListingFromIntegration creates listings approved and later rewrites
\* their text and nothing of the review.
CreateImported(l) ==
  /\ \/ ~Exists(l)
     \/ Exists(l) /\ listing[l].author = None
  /\ \E text \in Text :
       /\ IF Exists(l)
          THEN Rewrite(l, [listing[l] EXCEPT !.text = text])
          ELSE \E cities \in SUBSET City : \E primary \in PrimaryOf(cities) :
                 Rewrite(l, [NewRow(None, text, cities, primary, FALSE) EXCEPT
                   !.status = "APPROVED", !.moderation = "APPROVED"])
       /\ Stand(l, text)
  /\ UNCHANGED byHand

Next ==
  \/ \E u \in Author \cup Admin, l \in Listing :
       \/ CreateListing(u, l)
       \/ UpdateListing(u, l)
  \/ \E u \in Author \cup Admin : SubmitForReview(u)
  \/ \E c \in Call, l \in Listing : ShowListing(c, l)
  \/ \E c \in Call : BeginModeration(c)
  \/ \E c \in Call, m \in Admin :
       \/ Moderate(c, m)
       \/ Approve(c, m)
       \/ RequestChanges(c, m)
       \/ Reject(c, m)
       \/ Archive(c, m)
  \/ \E l \in Listing : CreateImported(l)

Spec == Init /\ [][Next]_vars

(***************************************************************************)
(* Properties                                                              *)
(***************************************************************************)

\* The rows a list with filters answers, by moderationStatus and cities; a
\* filter that is not sent is None or the empty set.
Matches(r, filter) ==
  /\ filter.moderation \in {None, r.moderation}
  /\ filter.cities = {} \/ filter.cities \cap r.cities # {}

Listed(filter) == {l \in Listing : Exists(l) /\ Matches(listing[l], filter)}

Reviewed == Listed([moderation |-> "APPROVED", cities |-> {}])

\* What is listed as approved is the text an admin was shown and approved, or
\* stood for as the import did, and is not archived; unless the verdict came
\* too late: the text was rewritten between its showing and the verdict's write.
ApprovedAsReviewed ==
  \A l \in Reviewed \ byHand : passed[l] \in {listing[l].text, Stale} /\ ~listing[l].archived

\* What an admin approved for publication has a date of publication, though
\* the date was read before.
ApprovedIsDated ==
  \A l \in Reviewed \ byHand :
    listing[l].reviewer # None /\ listing[l].status = "APPROVED" => listing[l].dated

\* Where one field says that a listing is archived the other two agree, though
\* whoever sends no filter is shown it all the same; and without a reviewer
\* only the import's listings are past the review.
VerdictsAgree ==
  \A l \in Listing \ byHand : Exists(l) =>
    /\ listing[l].moderation = "ARCHIVED" =>
         listing[l].archived /\ listing[l].status = "DELETED"
    /\ listing[l].reviewer = None /\ listing[l].author # None =>
         listing[l].moderation = "PENDING"

\* The review of a listing stands whatever edits, verdicts and imports
\* overlap, unless an admin sets a review field directly or has not seen what
\* the verdict meets; and a listing with links to cities has its primary city
\* among them.
ReviewStands ==
  /\ ApprovedAsReviewed /\ ApprovedIsDated /\ VerdictsAgree
  /\ \A l \in Listing : Exists(l) => listing[l].primary \in PrimaryOf(listing[l].cities)
=============================================================================
