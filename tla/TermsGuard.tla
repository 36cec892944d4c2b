----------------------------- MODULE TermsGuard -----------------------------
(***************************************************************************)
(* What users make of the terms of use: they accept them, and the guard    *)
(* every app has (TermsAcceptanceGuard, libs/rbac) is to hold back who has *)
(* not.                                                                    *)
(***************************************************************************)
EXTENDS TermsOfUse

CONSTANT User

VARIABLES
  active,    \* the terms with isActive set
  grace,     \* the terms whose grace period has not ended
  accepted,  \* table user_terms_acceptance
  served     \* history: users the guard let through although they must accept

guardVars == <<termsVars, active, grace, accepted, served>>

GuardTypeOK ==
  /\ TypeOK
  /\ active \in SUBSET Terms /\ grace \in SUBSET Terms
  /\ accepted \in SUBSET (User \X Terms)
  /\ served \in SUBSET User

GuardInit ==
  /\ Init
  /\ active = {} /\ grace = {} /\ accepted = {} /\ served = {}

\* An admin's step; a row that is written may change these columns too.
Administer ==
  /\ Next
  /\ LET written == {t \in Terms : \E k \in Call :
                       At(k, "write") /\ job'[k] = Idle /\ terms'[t] # NoRow
                         /\ (job[k].id = t \/ terms[t] = NoRow)}
     IN  /\ active' \in {active \cup written, active \ written}
         /\ grace' \in {grace \cup written, grace}
  /\ UNCHANGED <<accepted, served>>

\* The grace period of the terms ends.
GraceEnds(t) ==
  /\ t \in grace
  /\ grace' = grace \ {t}
  /\ UNCHANGED <<termsVars, active, accepted, served>>

\* getLatestTerms: the newest of the city, or else of the general ones.
GetLatestTerms(slot) ==
  LET from(s) == {t \in Latest(s) \cap active : \A o \in Latest(s) \cap active : o <= t}
  IN  IF slot # None /\ from(slot) # {} THEN from(slot) ELSE from(None)

\* hasUserAcceptedLatestTerms: as long as there are none, yes.
HasAccepted(u, slot) == \A t \in GetLatestTerms(slot) : <<u, t>> \in accepted

\* acceptTerms: of terms that are active, latest or not.
AcceptTerms(u, t) ==
  /\ t \in active
  /\ accepted' = accepted \cup {<<u, t>>}
  /\ UNCHANGED <<termsVars, active, grace, served>>

\* The user must accept the latest terms and the grace period is over.
MustAccept(u, slot) ==
  ~HasAccepted(u, slot) /\ GetLatestTerms(slot) \cap grace = {}

\* The guard is a global one of every app and JwtAuthGuard one of the
\* controllers.  Global guards run first: request.user is not set yet, and
\* the guard leaves it to JwtAuthGuard to turn away what has no user.
UserIsKnown == FALSE

CanActivate(u, slot) == UserIsKnown => ~MustAccept(u, slot)

\* A request of a signed-in user, for the city selected in the token.
TermsAcceptanceGuard(u, slot) ==
  /\ CanActivate(u, slot)
  /\ served' = IF MustAccept(u, slot) THEN served \cup {u} ELSE served
  /\ UNCHANGED <<termsVars, active, grace, accepted>>

GuardNext ==
  \/ Administer
  \/ \E t \in Terms : GraceEnds(t)
  \/ \E u \in User, t \in Terms : AcceptTerms(u, t)
  \/ \E u \in User, s \in Slot : TermsAcceptanceGuard(u, s)

GuardSpec == GuardInit /\ [][GuardNext]_guardVars

(***************************************************************************)
(* Properties                                                              *)
(***************************************************************************)

\* "Block access - user must accept terms": nobody is let through who has
\* not accepted the latest terms after their grace period.
TermsBlock == served = {}
=============================================================================
