---------------------------- MODULE MailedLinks ----------------------------
(***************************************************************************)
(* The tables of one-time links of apps/notification: verification_tokens  *)
(* (verification.service.ts) and password_reset_tokens                     *)
(* (password-reset.service.ts).  Both services treat their table alike: a  *)
(* send cancels what is pending and then creates a row, a link that is     *)
(* opened is read, judged, and its verdict written unconditionally.  This  *)
(* module holds the rows of one user and address and the steps the two     *)
(* share; EmailVerification and PasswordReset add what opening a link does.*)
(*                                                                         *)
(* A token is a number in the order of creation; the clock is the action   *)
(* Lapse, which may fall between any two steps.                            *)
(***************************************************************************)
EXTENDS Integers, FiniteSets

CONSTANTS
  Request,      \* the requests (HTTP, RPC or event) of one behaviour
  MaxTokens,    \* bound on the links created
  MaxAttempts,  \* MAX_ATTEMPTS, the maxAttempts column
  Faults        \* databases and processes may fail, messages may be lost

ASSUME LinksAssumption ==
  /\ MaxTokens \in Nat \ {0}
  /\ MaxAttempts \in Nat \ {0}
  /\ Faults \in BOOLEAN

Token   == 1 .. MaxTokens
NoToken == 0

VARIABLES
  status,    \* column status of each token, "none" before the row exists
  isUsed,    \* column isUsed
  attempts,  \* column attempts
  lapsed,    \* the clock has passed expiresAt
  issued,    \* number of rows created
  mailed,    \* the tokens whose mail reached the user
  pc,        \* where each request is, or what it was answered
  tok,       \* the token each request created or presented
  upset      \* history: a failure has happened

table    == <<status, isUsed, attempts, lapsed, issued, mailed>>
linkVars == <<table, pc, tok, upset>>

\* The final value of column status a judged link is about to be given.
Verdict == {"VERIFIED", "USED", "EXPIRED", "FAILED"}

LinksTypeOK ==
  /\ status \in [Token -> {"none", "PENDING", "CANCELLED"} \cup Verdict]
  /\ isUsed \in [Token -> BOOLEAN]
  /\ attempts \in [Token -> Nat]
  /\ lapsed \in [Token -> BOOLEAN]
  /\ issued \in 0 .. MaxTokens
  /\ mailed \in SUBSET Token
  /\ tok \in [Request -> Token \cup {NoToken}]
  /\ upset \in BOOLEAN

LinksInit ==
  /\ status = [t \in Token |-> "none"]
  /\ isUsed = [t \in Token |-> FALSE]
  /\ attempts = [t \in Token |-> 0]
  /\ lapsed = [t \in Token |-> FALSE]
  /\ issued = 0
  /\ mailed = {}
  /\ pc = [r \in Request |-> "new"]
  /\ tok = [r \in Request |-> NoToken]
  /\ upset = FALSE

Goto(r, place) == pc' = [pc EXCEPT ![r] = place]

Fault == Faults /\ upset' = TRUE

-----------------------------------------------------------------------------
(* judging a link that has been read *)

Spent(t) == isUsed[t] \/ status[t] \in {"VERIFIED", "USED", "CANCELLED"}

Acceptable(t) ==
  /\ status[t] # "none"
  /\ ~Spent(t)
  /\ ~lapsed[t]
  /\ attempts[t] < MaxAttempts

\* What the checks make of an acceptable link is accept, of a spent one a
\* refusal; the other two are written to the row before they are refused.
Judge(t, accept) ==
  IF Spent(t) THEN "refused"
  ELSE IF lapsed[t] THEN "EXPIRED"
  ELSE IF attempts[t] >= MaxAttempts THEN "FAILED"
  ELSE accept

\* The user opens a link received by mail; r reads and judges its row.
Open(r, t, accept) ==
  /\ t \in mailed
  /\ tok' = [tok EXCEPT ![r] = t]
  /\ Goto(r, Judge(t, accept))
  /\ UNCHANGED <<table, upset>>

\* The refused link is marked, whatever its row holds by now.
MarkRefused(r) ==
  /\ pc[r] \in {"EXPIRED", "FAILED"}
  /\ status' = [status EXCEPT ![tok[r]] = pc[r]]
  /\ Goto(r, "refused")
  /\ UNCHANGED <<isUsed, attempts, lapsed, issued, mailed, tok, upset>>

\* Status, flag and counter of an accepted link, in one update.
Spend(t, final) ==
  /\ status' = [status EXCEPT ![t] = final]
  /\ isUsed' = [isUsed EXCEPT ![t] = TRUE]
  /\ attempts' = [attempts EXCEPT ![t] = @ + 1]
  /\ UNCHANGED <<lapsed, issued, mailed>>

-----------------------------------------------------------------------------
(* sending a link *)

\* The bound: whoever cancels has a row reserved.
MaySend == issued + Cardinality({r \in Request : pc[r] = "create"}) < MaxTokens

Pending == {t \in Token : status[t] = "PENDING"}

\* What is pending when updateMany runs is cancelled.
CancelPending(r) ==
  /\ MaySend
  /\ status' = [t \in Token |-> IF t \in Pending THEN "CANCELLED"
                                                 ELSE status[t]]
  /\ Goto(r, "create")
  /\ UNCHANGED <<isUsed, attempts, lapsed, issued, mailed, tok, upset>>

\* Mutant: the newest row is opened again instead of a new one created.
CreateReopens(r) ==
  LET t == IF issued = 0 THEN 1 ELSE issued IN
  /\ pc[r] = "create"
  /\ issued' = t
  /\ status' = [status EXCEPT ![t] = "PENDING"]
  /\ tok' = [tok EXCEPT ![r] = t]
  /\ Goto(r, "mail")
  /\ UNCHANGED <<isUsed, attempts, lapsed, mailed, upset>>

Create(r) ==
  LET t == issued + 1 IN
  /\ pc[r] = "create" /\ t \in Token
  /\ issued' = t
  /\ status' = [status EXCEPT ![t] = "PENDING"]
  /\ tok' = [tok EXCEPT ![r] = t]
  /\ Goto(r, "mail")
  /\ UNCHANGED <<isUsed, attempts, lapsed, mailed, upset>>

\* Mutant: pending links are cancelled at the end of the send.
MailThenCancel(r) ==
  /\ pc[r] = "mail"
  /\ Goto(r, "sent")
  /\ mailed' = mailed \cup {tok[r]}
  /\ status' = [t \in Token |-> IF t \in Pending THEN "CANCELLED"
                                                 ELSE status[t]]
  /\ UNCHANGED <<isUsed, attempts, lapsed, issued, tok, upset>>

\* The mail is an event nobody waits for: it may get lost.
Mail(r) ==
  /\ pc[r] = "mail"
  /\ Goto(r, "sent")
  /\ \/ mailed' = mailed \cup {tok[r]} /\ UNCHANGED upset
     \/ Fault /\ UNCHANGED mailed
  /\ UNCHANGED <<status, isUsed, attempts, lapsed, issued, tok>>

Lapse(t) ==
  /\ status[t] # "none" /\ ~lapsed[t]
  /\ lapsed' = [lapsed EXCEPT ![t] = TRUE]
  /\ UNCHANGED <<status, isUsed, attempts, issued, mailed, pc, tok, upset>>

\* A database call throws, or the process goes down.
Fail(r, inProgress) ==
  /\ pc[r] \in inProgress
  /\ Fault
  /\ Goto(r, "failed")
  /\ UNCHANGED <<table, tok>>

-----------------------------------------------------------------------------
(* what both tables promise *)

\* A link that is refused once is refused for ever: no late write of another
\* request (an expiry, a cancellation, a use judged on an older reading)
\* revives it.
DeadLinksStayDead ==
  [][\A t \in Token : status[t] # "none" /\ ~Acceptable(t)
                        => ~Acceptable(t)']_linkVars

\* Cancel first, create afterwards: however sends overlap, the newest link
\* is only found cancelled while a newer one is being created, or because
\* its receiver cancelled it, or after a failure between the two steps.
NewestAlive ==
  (issued > 0 /\ status[issued] = "CANCELLED")
    => \/ upset
       \/ \E r \in Request : pc[r] = "create"
       \/ \E r \in Request : pc[r] = "cancelled" /\ tok[r] = issued
============================================================================
