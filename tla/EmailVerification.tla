------------------------- MODULE EmailVerification -------------------------
(***************************************************************************)
(* E-mail verification: verification.service.ts of apps/notification sends *)
(* links and accepts or cancels them; an accepted link is announced by the *)
(* event verification.verified, and apps/users sets emailVerified when it  *)
(* handles it.  One user and one address; rows of others are not touched.  *)
(***************************************************************************)
EXTENDS MailedLinks

VARIABLES
  verifiedEvents,  \* verification.verified events in flight
  emailVerified    \* column emailVerified of the user, in the users database

verifyVars == <<verifiedEvents, emailVerified>>
vars == <<linkVars, verifyVars>>

\* "VERIFIED", "EXPIRED", "FAILED": judged, the row not yet written.
\* "announce": the row is written, the event is not sent.  "cancel": the
\* row was read and may be cancelled.  "send": a resend was granted.
InProgress == {"send", "create", "mail", "VERIFIED", "EXPIRED", "FAILED",
               "announce", "cancel"}
Answered   == {"sent", "verified", "cancelled", "refused", "failed"}

TypeOK ==
  /\ LinksTypeOK
  /\ pc \in [Request -> {"new"} \cup InProgress \cup Answered]
  /\ verifiedEvents \in Nat
  /\ emailVerified \in BOOLEAN

Init ==
  /\ LinksInit
  /\ verifiedEvents = 0
  /\ emailVerified = FALSE

-----------------------------------------------------------------------------
\* sendVerification, asked for by POST /send or by the event user.created,
\* or continued by a granted resend.
SendVerification(r) ==
  /\ pc[r] \in {"new", "send"}
  /\ CancelPending(r)
  /\ UNCHANGED verifyVars

\* The newest link that is pending or expired refuses the resend while it
\* is pending and its time has not run out.
ResendVerification(r) ==
  LET found == {t \in Token : status[t] \in {"PENDING", "EXPIRED"}}
      granted == \A t \in found :
                   \/ \E u \in found : u > t
                   \/ status[t] = "EXPIRED"
                   \/ lapsed[t]
  IN
  /\ pc[r] = "new"
  /\ Goto(r, IF granted THEN "send" ELSE "refused")
  /\ UNCHANGED <<table, tok, upset, verifyVars>>

CreateToken(r)  == Create(r) /\ UNCHANGED verifyVars
SendMail(r)     == Mail(r) /\ UNCHANGED verifyVars

\* The link of the mail, by GET or by POST: both handlers do the same.
VerifyToken(r, t) ==
  /\ pc[r] = "new"
  /\ Open(r, t, "VERIFIED")
  /\ UNCHANGED verifyVars

RefuseToken(r) == MarkRefused(r) /\ UNCHANGED verifyVars

\* The row is written on the strength of the earlier reading.
AcceptToken(r) ==
  /\ pc[r] = "VERIFIED"
  /\ Spend(tok[r], "VERIFIED")
  /\ Goto(r, "announce")
  /\ UNCHANGED <<tok, upset, verifyVars>>

\* Mutant: the answer is given and the event forgotten.
AnnounceNothing(r) ==
  /\ pc[r] = "announce"
  /\ Goto(r, "verified")
  /\ UNCHANGED <<table, tok, upset, verifyVars>>

Announce(r) ==
  /\ pc[r] = "announce"
  /\ Goto(r, "verified")
  /\ \/ verifiedEvents' = verifiedEvents + 1 /\ UNCHANGED upset
     \/ Fault /\ UNCHANGED verifiedEvents
  /\ UNCHANGED <<table, tok, emailVerified>>

\* "It's not me": a verified link is refused, a cancelled one is answered
\* as if it had been cancelled now.
CancelVerification(r, t) ==
  /\ pc[r] = "new" /\ t \in mailed
  /\ tok' = [tok EXCEPT ![r] = t]
  /\ Goto(r, CASE status[t] = "VERIFIED"  -> "refused"
               [] status[t] = "CANCELLED" -> "cancelled"
               [] OTHER                   -> "cancel")
  /\ UNCHANGED <<table, upset, verifyVars>>

CancelToken(r) ==
  /\ pc[r] = "cancel"
  /\ status' = [status EXCEPT ![tok[r]] = "CANCELLED"]
  /\ Goto(r, "cancelled")
  /\ UNCHANGED <<isUsed, attempts, lapsed, issued, mailed, tok, upset,
                 verifyVars>>

\* apps/users; a failed update is logged and the event is gone.
MarkEmailAsVerified ==
  /\ verifiedEvents > 0
  /\ verifiedEvents' = verifiedEvents - 1
  /\ \/ emailVerified' = TRUE /\ UNCHANGED upset
     \/ Fault /\ UNCHANGED emailVerified
  /\ UNCHANGED <<table, pc, tok>>

LinkLapses(t) == Lapse(t) /\ UNCHANGED verifyVars
Failure(r)    == Fail(r, InProgress) /\ UNCHANGED verifyVars

Next ==
  \/ \E r \in Request :
       \/ SendVerification(r) \/ ResendVerification(r)
       \/ CreateToken(r) \/ SendMail(r)
       \/ \E t \in Token : VerifyToken(r, t) \/ CancelVerification(r, t)
       \/ RefuseToken(r) \/ AcceptToken(r) \/ Announce(r) \/ CancelToken(r)
       \/ Failure(r)
  \/ MarkEmailAsVerified
  \/ \E t \in Token : LinkLapses(t)

\* The broker delivers what it accepted.
Fairness == WF_vars(MarkEmailAsVerified)

Spec     == Init /\ [][Next]_vars
FairSpec == Spec /\ Fairness

-----------------------------------------------------------------------------
\* Whoever was told that the address is verified will be able to log in,
\* unless something failed on the way: nothing repeats a lost event.  (What
\* was told or has arrived stays so: this is a leads-to.)
AllArrived ==
  (\E r \in Request : pc[r] = "verified") => emailVerified \/ upset
VerifiedArrives == []<>AllArrived

\* The column of the users database is backed by a link in the notification
\* database that was accepted, whatever the row's status says by now.
VerifiedByLink == emailVerified => \E t \in Token : isUsed[t]

\* A link counts one attempt for every request it was accepted for and none
\* for a refusal, however the requests for it overlap.
AttemptsAreSuccesses ==
  upset \/ \A t \in Token :
             attempts[t] = Cardinality({r \in Request :
                             tok[r] = t /\ pc[r] \in {"announce", "verified"}})
============================================================================
