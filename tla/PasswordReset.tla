--------------------------- MODULE PasswordReset ---------------------------
(***************************************************************************)
(* Password reset: apps/users asks for a link by an event, checks a        *)
(* presented link by an RPC to apps/notification, writes the new password  *)
(* in its own database and reports the use of the link by another event.   *)
(* The link therefore stays acceptable from the check until that event has *)
(* been handled.  One user and one address.                                *)
(***************************************************************************)
EXTENDS MailedLinks

VARIABLES
  password,  \* the request whose password is stored, or NoRequest
  wrote,     \* history: the requests that have stored a password
  marks      \* passwordReset.markUsed events in flight, per token

CONSTANT NoRequest  \* the password the user started with

resetVars == <<password, wrote, marks>>
vars == <<linkVars, resetVars>>

\* "valid": the RPC judged the link acceptable, its reply is on the way or
\* the new password is being hashed.  "mark": the password is stored, the
\* event is not sent.
InProgress == {"create", "mail", "EXPIRED", "FAILED", "valid", "mark"}
Answered   == {"sent", "done", "refused", "checked", "failed"}

TypeOK ==
  /\ LinksTypeOK
  /\ pc \in [Request -> {"new"} \cup InProgress \cup Answered]
  /\ password \in Request \cup {NoRequest}
  /\ wrote \in SUBSET Request
  /\ marks \in [Token -> Nat]

Init ==
  /\ LinksInit
  /\ password = NoRequest
  /\ wrote = {}
  /\ marks = [t \in Token |-> 0]

-----------------------------------------------------------------------------
(* sending the link *)

\* Handling of passwordReset.requested.  apps/users answered long before;
\* an event still in flight is a request not begun, a second delivery of it
\* a request of its own.
SendPasswordResetEmail(r) ==
  /\ pc[r] = "new"
  /\ CancelPending(r)
  /\ UNCHANGED resetVars

CreateToken(r) == Create(r) /\ UNCHANGED resetVars
SendMail(r)    == Mail(r) /\ UNCHANGED resetVars

-----------------------------------------------------------------------------
(* using the link *)

\* The form behind the link checks it first; an acceptable link is not
\* touched by that.
CheckLink(r, t) ==
  /\ pc[r] = "new"
  /\ Open(r, t, "checked")
  /\ UNCHANGED resetVars

\* resetPassword asks apps/notification, whose handler reads the row.
ResetPassword(r, t) ==
  /\ pc[r] = "new"
  /\ Open(r, t, "valid")
  /\ UNCHANGED resetVars

RefuseToken(r) == MarkRefused(r) /\ UNCHANGED resetVars

\* Ten seconds without a reply: the request is refused, and a reply that
\* comes later is dropped.
VerifyTimesOut(r) ==
  /\ pc[r] = "valid"
  /\ Goto(r, "refused")
  /\ UNCHANGED <<table, tok, upset, resetVars>>

\* The reply arrived in time; nothing is asked again after the hashing.
StorePassword(r) ==
  /\ pc[r] = "valid"
  /\ password' = r
  /\ wrote' = wrote \cup {r}
  /\ Goto(r, "mark")
  /\ UNCHANGED <<table, tok, upset, marks>>

\* Mutant: the use is reported as soon as the link was found valid.
ReportWhenValid == {"valid", "mark"}

MayReport == {"mark"}

\* The event may get lost, or reach the queue twice.
ReportUse(r) ==
  /\ pc[r] \in MayReport
  /\ Goto(r, "done")
  /\ \/ marks' = [marks EXCEPT ![tok[r]] = @ + 1] /\ UNCHANGED upset
     \/ Fault /\ UNCHANGED marks
     \/ Fault /\ marks' = [marks EXCEPT ![tok[r]] = @ + 2]
  /\ UNCHANGED <<table, tok, password, wrote>>

MarkTokenAsUsed(t) ==
  /\ marks[t] > 0
  /\ marks' = [marks EXCEPT ![t] = @ - 1]
  /\ \/ Spend(t, "USED") /\ UNCHANGED upset
     \/ Fault /\ UNCHANGED table
  /\ UNCHANGED <<pc, tok, password, wrote>>

LinkLapses(t) == Lapse(t) /\ UNCHANGED resetVars
Failure(r)    == Fail(r, InProgress) /\ UNCHANGED resetVars

Next ==
  \/ \E r \in Request :
       \/ SendPasswordResetEmail(r) \/ CreateToken(r) \/ SendMail(r)
       \/ \E t \in Token : CheckLink(r, t) \/ ResetPassword(r, t)
       \/ RefuseToken(r) \/ VerifyTimesOut(r)
       \/ StorePassword(r) \/ ReportUse(r)
       \/ Failure(r)
  \/ \E t \in Token : MarkTokenAsUsed(t) \/ LinkLapses(t)

\* The broker delivers what it accepted.
Fairness == \A t \in Token : WF_vars(MarkTokenAsUsed(t))

Spec     == Init /\ [][Next]_vars
FairSpec == Spec /\ Fairness

-----------------------------------------------------------------------------
\* A link is marked as used only by a reset that has stored its password:
\* no failure between the two databases burns a link for nothing.
UsedLinkReset ==
  \A t \in Token : isUsed[t] => \E r \in wrote : tok[r] = t

\* A link counts each reset it was used for exactly once, however the marks
\* are delayed and reordered, until a failure loses or doubles one.
AttemptsAreResets ==
  upset \/ \A t \in Token :
             attempts[t] + marks[t] =
               Cardinality({r \in Request : tok[r] = t /\ pc[r] = "done"})

\* After a reset that was answered with success its link is in the end
\* marked, and so refused, unless a failure came in between.  (An answer and
\* a mark stay: this is a leads-to for every link.)
AllMarked ==
  \A t \in Token :
    (\E r \in Request : pc[r] = "done" /\ tok[r] = t) => isUsed[t] \/ upset
UsedLinkIsMarked == []<>AllMarked
============================================================================
