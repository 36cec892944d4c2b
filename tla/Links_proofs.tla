---------------------------- MODULE Links_proofs ----------------------------
(* The two tables of links, for any number of requests and links and under  *)
(* every failure.  First what the steps they share preserve: LinkInv is the *)
(* invariant of the table, DeadStep the step of DeadLinksStayDead.  Then    *)
(* each table on its own, and in the end the two in MCLinks.                *)
EXTENDS MCLinks, FiniteSetTheorems, TLAPS

Row == 1 .. issued

\* Every place of either module.
Place == {"new", "send", "create", "mail", "EXPIRED", "FAILED", "VERIFIED",
          "announce", "cancel", "valid", "mark", "sent", "verified",
          "cancelled", "done", "refused", "checked", "failed"}

\* A request in one of these places has a row to write.
Holding == {"mail", "EXPIRED", "FAILED", "VERIFIED", "announce", "cancel",
            "valid", "mark", "verified", "done"}

RowsIssued   == \A t \in Token : status[t] = "none" <=> t > issued
MailedIssued == mailed \subseteq Row
HoldsRow     == \A r \in Request : pc[r] \in Holding => tok[r] \in Row

\* The verdict that is about to be written is still right, because the clock
\* and the counter only go up.
VerdictRight ==
  \A r \in Request :
    /\ pc[r] = "EXPIRED" => lapsed[tok[r]]
    /\ pc[r] = "FAILED" => attempts[tok[r]] >= MaxAttempts

LinkInv ==
  /\ LinksTypeOK
  /\ pc \in [Request -> Place]
  /\ RowsIssued
  /\ MailedIssued
  /\ HoldsRow
  /\ VerdictRight

DeadStep ==
  \A t \in Token : status[t] # "none" /\ ~Acceptable(t) => ~Acceptable(t)'

LEMMA LinkInvInit == LinksInit => LinkInv
<1> SUFFICES ASSUME LinksInit PROVE LinkInv
  OBVIOUS
<1> USE LinksAssumption DEF LinksInit
<1>1. issued \in 0 .. MaxTokens
  OBVIOUS
<1>2. LinksTypeOK
  BY <1>1 DEF LinksTypeOK, Token, NoToken
<1>3. pc \in [Request -> Place]
  BY DEF Place
<1>4. RowsIssued /\ MailedIssued
  BY DEF RowsIssued, MailedIssued, Row, Token
<1>5. HoldsRow /\ VerdictRight
  BY DEF HoldsRow, VerdictRight, Holding
<1> QED
  BY <1>2, <1>3, <1>4, <1>5 DEF LinkInv

LEMMA HolderHasRow ==
  ASSUME LinkInv, NEW r \in Request, pc[r] \in Holding
  PROVE  tok[r] \in Row /\ tok[r] \in Token
<1>1. tok[r] \in Row
  BY DEF LinkInv, HoldsRow
<1>2. issued \in 0 .. MaxTokens
  BY DEF LinkInv, LinksTypeOK
<1> QED
  BY <1>1, <1>2, LinksAssumption DEF Row, Token

LEMMA LinkInvStutter ==
  LinkInv /\ UNCHANGED linkVars => LinkInv' /\ DeadStep
BY DEF LinkInv, linkVars, table, LinksTypeOK, RowsIssued, MailedIssued, HoldsRow,
       VerdictRight, Row, DeadStep, Acceptable, Spent

\* A step that leaves the table alone revives nothing.
LEMMA TableUnchanged == UNCHANGED table => DeadStep
BY DEF table, DeadStep, Acceptable, Spent

LEMMA OpenKeeps ==
  ASSUME LinkInv, NEW r \in Request, NEW t \in Token,
         NEW accept \in {"VERIFIED", "valid", "checked"}, Open(r, t, accept)
  PROVE  LinkInv' /\ DeadStep
<1> USE LinksAssumption DEF Place, Open, LinkInv, table, Goto
<1>1. DeadStep
  BY TableUnchanged
<1>2. LinksTypeOK' /\ RowsIssued' /\ MailedIssued'
  BY DEF LinksTypeOK, RowsIssued, MailedIssued, Row, Token
<1>3. Judge(t, accept) \in Place /\ (pc \in [Request -> Place])'
  BY DEF Judge
<1>4. t \in Row
  BY DEF MailedIssued
<1>5. HoldsRow'
  BY <1>4 DEF HoldsRow, Row, LinksTypeOK
<1>6. /\ Judge(t, accept) = "EXPIRED" => lapsed[t]
      /\ Judge(t, accept) = "FAILED" => attempts[t] >= MaxAttempts
  BY DEF Judge
<1>7. VerdictRight'
  BY <1>6 DEF VerdictRight, LinksTypeOK
<1> QED
  BY <1>1, <1>2, <1>3, <1>5, <1>7

LEMMA MarkRefusedKeeps ==
  ASSUME LinkInv, NEW r \in Request, MarkRefused(r)
  PROVE  LinkInv' /\ DeadStep
<1> USE LinksAssumption DEF Place, MarkRefused, LinkInv, Goto
<1>1. tok[r] \in Row /\ tok[r] \in Token
  BY DEF HoldsRow, Holding, Row, LinksTypeOK, Token
<1>2. LinksTypeOK' /\ (pc \in [Request -> Place])'
  BY <1>1 DEF LinksTypeOK, Verdict
<1>3. RowsIssued' /\ MailedIssued'
  BY <1>1 DEF RowsIssued, MailedIssued, Row, LinksTypeOK
<1>4. HoldsRow'
  BY DEF HoldsRow, Row, Holding
<1>5. VerdictRight'
  BY DEF VerdictRight
<1>6. \/ lapsed[tok[r]]
      \/ ~(attempts[tok[r]] < MaxAttempts)
  BY <1>1 DEF VerdictRight, LinksTypeOK
<1>7. DeadStep
  BY <1>1, <1>6 DEF DeadStep, Acceptable, Spent, LinksTypeOK
<1> QED
  BY <1>2, <1>3, <1>4, <1>5, <1>7

LEMMA CancelPendingKeeps ==
  ASSUME LinkInv, NEW r \in Request, CancelPending(r)
  PROVE  LinkInv' /\ DeadStep
<1> USE LinksAssumption DEF Place, CancelPending, LinkInv, Goto, Pending
<1>1. LinksTypeOK' /\ (pc \in [Request -> Place])'
  BY DEF LinksTypeOK
<1>2. RowsIssued' /\ MailedIssued'
  BY DEF RowsIssued, MailedIssued, Row
<1>3. HoldsRow'
  BY DEF HoldsRow, Row, Holding
<1>4. VerdictRight'
  BY DEF VerdictRight
<1>5. DeadStep
  BY DEF DeadStep, Acceptable, Spent
<1> QED
  BY <1>1, <1>2, <1>3, <1>4, <1>5

LEMMA CreateKeeps ==
  ASSUME LinkInv, NEW r \in Request, Create(r)
  PROVE  LinkInv' /\ DeadStep
<1> USE LinksAssumption DEF Place, Create, LinkInv, Goto
<1>1. issued \in Nat /\ issued' = issued + 1 /\ issued' \in Token
  BY DEF LinksTypeOK, Token
<1>2. LinksTypeOK' /\ (pc \in [Request -> Place])'
  BY <1>1 DEF LinksTypeOK, Token
<1>3. RowsIssued' /\ MailedIssued'
  BY <1>1 DEF RowsIssued, MailedIssued, Row, LinksTypeOK, Token
<1>4. HoldsRow'
  BY <1>1 DEF HoldsRow, Row, LinksTypeOK
<1>5. VerdictRight'
  BY DEF VerdictRight, LinksTypeOK
<1>6. status[issued'] = "none"
  BY <1>1 DEF RowsIssued
<1>7. DeadStep
  BY <1>1, <1>6 DEF DeadStep, Acceptable, Spent, LinksTypeOK
<1> QED
  BY <1>2, <1>3, <1>4, <1>5, <1>7

LEMMA MailKeeps ==
  ASSUME LinkInv, NEW r \in Request, Mail(r)
  PROVE  LinkInv' /\ DeadStep
<1> USE LinksAssumption DEF Place, Mail, LinkInv, Goto
<1>1. tok[r] \in Row /\ tok[r] \in Token
  BY DEF HoldsRow, Holding, Row, LinksTypeOK, Token
<1>2. upset' \in BOOLEAN
  BY DEF LinksTypeOK, Fault
<1>3. LinksTypeOK' /\ (pc \in [Request -> Place])'
  BY <1>1, <1>2 DEF LinksTypeOK
<1>4. RowsIssued' /\ MailedIssued'
  BY <1>1 DEF RowsIssued, MailedIssued, Row
<1>5. HoldsRow'
  BY DEF HoldsRow, Row, Holding
<1>6. VerdictRight'
  BY DEF VerdictRight
<1>7. DeadStep
  BY DEF DeadStep, Acceptable, Spent
<1> QED
  BY <1>3, <1>4, <1>5, <1>6, <1>7

LEMMA LapseKeeps ==
  ASSUME LinkInv, NEW t \in Token, Lapse(t)
  PROVE  LinkInv' /\ DeadStep
<1> USE LinksAssumption DEF Place, Lapse, LinkInv
<1>1. LinksTypeOK'
  BY DEF LinksTypeOK
<1>2. RowsIssued' /\ MailedIssued' /\ HoldsRow'
  BY DEF RowsIssued, MailedIssued, HoldsRow, Row
<1>3. VerdictRight'
  BY DEF VerdictRight, LinksTypeOK
<1>4. DeadStep
  BY DEF DeadStep, Acceptable, Spent, LinksTypeOK
<1> QED
  BY <1>1, <1>2, <1>3, <1>4

\* A step of r that only leads to a place that holds nothing new.
LEMMA MoveKeeps ==
  ASSUME LinkInv, NEW r \in Request, NEW place \in Place,
         place \notin {"EXPIRED", "FAILED"},
         place \in Holding => pc[r] \in Holding,
         Goto(r, place), UNCHANGED <<table, tok>>, upset' \in BOOLEAN
  PROVE  LinkInv' /\ DeadStep
<1> USE LinksAssumption DEF Place, LinkInv, Goto, table
<1>1. LinksTypeOK' /\ (pc \in [Request -> Place])'
  BY DEF LinksTypeOK
<1>2. RowsIssued' /\ MailedIssued' /\ HoldsRow'
  BY DEF RowsIssued, MailedIssued, HoldsRow, Row
<1>3. VerdictRight'
  BY DEF VerdictRight
<1>4. DeadStep
  BY TableUnchanged
<1> QED
  BY <1>1, <1>2, <1>3, <1>4

\* Using up a row that exists, in a step that changes no place but possibly
\* the one of r, which it leads to a place that holds the row r had.
LEMMA SpendKeeps ==
  ASSUME LinkInv, NEW t \in Row, NEW final \in {"VERIFIED", "USED"},
         Spend(t, final), tok' = tok, upset' \in BOOLEAN,
         \/ pc' = pc
         \/ \E r \in Request : pc[r] = "VERIFIED" /\ Goto(r, "announce")
  PROVE  LinkInv' /\ DeadStep
<1> USE LinksAssumption DEF LinkInv, Spend
<1>1. t \in Token
  BY DEF Row, LinksTypeOK, Token
<1>2. (pc \in [Request -> Place])'
  BY DEF Goto, Place
<1>3. LinksTypeOK'
  BY <1>1 DEF LinksTypeOK, Verdict
<1>4. RowsIssued' /\ MailedIssued'
  BY <1>1 DEF RowsIssued, MailedIssued, Row, LinksTypeOK
<1>5. \A s \in Request : /\ pc'[s] \in Holding => pc[s] \in Holding
                         /\ pc'[s] = "EXPIRED" => pc[s] = "EXPIRED"
                         /\ pc'[s] = "FAILED" => pc[s] = "FAILED"
  BY DEF Goto, Holding
<1>6. HoldsRow'
  BY <1>5 DEF HoldsRow, Row
<1>7. \A u \in Token : attempts'[u] >= attempts[u]
  BY <1>1 DEF LinksTypeOK
<1>8. \A s \in Request : pc'[s] = "EXPIRED" => lapsed'[tok'[s]]
  BY <1>5 DEF VerdictRight
<1>9. \A s \in Request : pc'[s] = "FAILED" => attempts'[tok'[s]] >= MaxAttempts
  <2> SUFFICES ASSUME NEW s \in Request, pc'[s] = "FAILED"
               PROVE  attempts'[tok[s]] >= MaxAttempts
    OBVIOUS
  <2>1. pc[s] = "FAILED" /\ tok[s] \in Token
    BY <1>5 DEF HoldsRow, Holding, Row, LinksTypeOK, Token
  <2>2. attempts[tok[s]] >= MaxAttempts
    BY <2>1 DEF VerdictRight
  <2>3. attempts[tok[s]] \in Nat /\ attempts'[tok[s]] \in Nat
    BY <2>1, <1>3 DEF LinksTypeOK
  <2> QED
    BY <2>1, <2>2, <2>3, <1>7
<1>10. DeadStep
  BY <1>1, <1>7, <1>3 DEF DeadStep, Acceptable, Spent, LinksTypeOK
<1>11. VerdictRight'
  BY <1>8, <1>9 DEF VerdictRight
<1> QED
  BY <1>2, <1>3, <1>4, <1>6, <1>10, <1>11

-----------------------------------------------------------------------------
(* NewestAlive is inductive beside LinkInv. *)

\* Steps that cancel nothing and create nothing.
LEMMA NewestKept ==
  ASSUME LinkInv, NewestAlive, issued' = issued, upset => upset',
         status'[issued] = "CANCELLED" => status[issued] = "CANCELLED",
         NEW r \in Request, pc[r] \notin {"create", "cancelled"},
         \A s \in Request \ {r} : pc'[s] = pc[s] /\ tok'[s] = tok[s]
  PROVE  NewestAlive'
BY DEF NewestAlive

LEMMA CancelPendingNewest ==
  ASSUME LinkInv, NEW r \in Request, CancelPending(r)
  PROVE  NewestAlive'
BY DEF LinkInv, CancelPending, Goto, NewestAlive

LEMMA CreateNewest ==
  ASSUME LinkInv, NEW r \in Request, Create(r)
  PROVE  NewestAlive'
BY LinksAssumption DEF LinkInv, LinksTypeOK, Create, NewestAlive, Token

LEMMA FaultNewest == ASSUME upset' PROVE NewestAlive'
BY DEF NewestAlive

LEMMA OpenNewest ==
  ASSUME LinkInv, NewestAlive, NEW r \in Request, NEW t \in Token, NEW accept,
         pc[r] = "new", Open(r, t, accept)
  PROVE  NewestAlive'
BY NewestKept DEF LinkInv, LinksTypeOK, Open, Goto, table

LEMMA MarkRefusedNewest ==
  ASSUME LinkInv, NewestAlive, NEW r \in Request, MarkRefused(r)
  PROVE  NewestAlive'
<1>1. tok[r] \in Token
  BY HolderHasRow DEF Holding, MarkRefused
<1>2. status'[issued] = "CANCELLED" => status[issued] = "CANCELLED"
  BY <1>1 DEF LinkInv, LinksTypeOK, MarkRefused
<1> QED
  BY <1>2, NewestKept DEF LinkInv, LinksTypeOK, MarkRefused, Goto

LEMMA MailNewest ==
  ASSUME LinkInv, NewestAlive, NEW r \in Request, Mail(r)
  PROVE  NewestAlive'
<1>1. CASE UNCHANGED upset
  BY <1>1, NewestKept DEF LinkInv, LinksTypeOK, Mail, Goto
<1>2. CASE upset'
  BY <1>2, FaultNewest
<1> QED
  BY <1>1, <1>2 DEF Mail, Fault

\* A step of r that leaves the table alone.
LEMMA MoveNewest ==
  ASSUME LinkInv, NewestAlive, NEW r \in Request, NEW place, Goto(r, place),
         pc[r] \notin {"create", "cancelled"}, UNCHANGED <<table, tok>>, upset => upset'
  PROVE  NewestAlive'
BY NewestKept DEF LinkInv, Goto, table

\* No place changes, and what becomes of a row is not a cancellation.
LEMMA StillNewest ==
  ASSUME NewestAlive, issued' = issued, upset => upset', UNCHANGED <<pc, tok>>,
         status'[issued] = "CANCELLED" => status[issued] = "CANCELLED"
  PROVE  NewestAlive'
BY DEF NewestAlive

-----------------------------------------------------------------------------
(* Counting requests. *)

\* One more request that was not in the set.
LEMMA OneMore ==
  ASSUME IsFiniteSet(Request), NEW r \in Request, NEW S \in SUBSET Request, r \notin S
  PROVE  Cardinality(S) \in Nat /\ Cardinality(S \cup {r}) = Cardinality(S) + 1
BY FS_Subset, FS_CardinalityType, FS_AddElement

-----------------------------------------------------------------------------
(* Both instances read MailedLinks with the variables it has here. *)

LEMMA SameTypes ==
  /\ Verification!Token = Token /\ Reset!Token = Token
  /\ Verification!LinksTypeOK <=> LinksTypeOK
  /\ Reset!LinksTypeOK <=> LinksTypeOK
  /\ (Verification!LinksTypeOK <=> LinksTypeOK)'
  /\ (Reset!LinksTypeOK <=> LinksTypeOK)'
  /\ Verification!LinksInit <=> LinksInit
  /\ Reset!LinksInit <=> LinksInit
BY DEF Verification!Token, Reset!Token, Token, LinksTypeOK, Verification!LinksTypeOK,
       Reset!LinksTypeOK, LinksInit, Verification!LinksInit, Reset!LinksInit, Verdict,
       Verification!Verdict, Reset!Verdict, NoToken, Verification!NoToken, Reset!NoToken

USE SameTypes
USE DEF Goto, Fault, table, linkVars,
        Verification!Goto, Verification!Fault, Verification!table, Verification!linkVars,
        Reset!Goto, Reset!Fault, Reset!table, Reset!linkVars

LEMMA SameCount ==
  \A S : Verification!Cardinality(S) = Cardinality(S) /\ Reset!Cardinality(S) = Cardinality(S)
BY DEF Cardinality, Verification!Cardinality, Reset!Cardinality

LEMMA SameSends ==
  ASSUME NEW r \in Request
  PROVE  /\ Verification!CancelPending(r) <=> CancelPending(r)
         /\ Reset!CancelPending(r) <=> CancelPending(r)
         /\ Verification!Create(r) <=> Create(r)
         /\ Reset!Create(r) <=> Create(r)
         /\ Verification!Mail(r) <=> Mail(r)
         /\ Reset!Mail(r) <=> Mail(r)
<1>1. (Verification!MaySend <=> MaySend) /\ (Reset!MaySend <=> MaySend)
  BY SameCount DEF MaySend, Verification!MaySend, Reset!MaySend
<1>2. Verification!Pending = Pending /\ Reset!Pending = Pending
  BY DEF Pending, Verification!Pending, Reset!Pending
<1> QED
  BY <1>1, <1>2
     DEF CancelPending, Verification!CancelPending, Reset!CancelPending, Create,
         Verification!Create, Reset!Create, Mail, Verification!Mail, Reset!Mail

LEMMA SameUses ==
  ASSUME NEW r \in Request
  PROVE  /\ \A t \in Token, word \in Place :
              /\ Verification!Open(r, t, word) <=> Open(r, t, word)
              /\ Reset!Open(r, t, word) <=> Open(r, t, word)
         /\ Verification!MarkRefused(r) <=> MarkRefused(r)
         /\ Reset!MarkRefused(r) <=> MarkRefused(r)
BY DEF Judge, Verification!Judge, Reset!Judge, Spent, Verification!Spent, Reset!Spent, Open,
       Verification!Open, Reset!Open, MarkRefused, Verification!MarkRefused,
       Reset!MarkRefused

LEMMA SameEnds ==
  ASSUME NEW t \in Token
  PROVE  /\ Verification!Spend(t, "VERIFIED") <=> Spend(t, "VERIFIED")
         /\ Reset!Spend(t, "USED") <=> Spend(t, "USED")
         /\ Verification!Lapse(t) <=> Lapse(t)
         /\ Reset!Lapse(t) <=> Lapse(t)
BY DEF Spend, Verification!Spend, Reset!Spend, Lapse, Verification!Lapse, Reset!Lapse

-----------------------------------------------------------------------------
(* E-mail verification *)

\* An accepted link precedes its event, and no row forgets that it was used.
EventByLink == verifiedEvents > 0 => \E t \in Token : isUsed[t]

\* Whoever is about to announce has used its link.
AnnouncerUsed ==
  \A r \in Request : pc[r] = "announce" => isUsed[tok[r]]

VerifyInv ==
  /\ LinkInv
  /\ Verification!TypeOK
  /\ EventByLink
  /\ AnnouncerUsed
  /\ Verification!VerifiedByLink

LEMMA VerifyInvInit == Verification!Init => VerifyInv
<1> SUFFICES ASSUME Verification!Init PROVE VerifyInv
  OBVIOUS
<1>1. LinkInv
  BY LinkInvInit DEF Verification!Init
<1>2. emailVerified \in BOOLEAN
  BY DEF Verification!Init
<1>3. Verification!TypeOK
  BY <1>1, <1>2
     DEF Verification!Init, Verification!TypeOK, LinkInv, LinksInit, Verification!LinksInit
<1>4. EventByLink /\ AnnouncerUsed /\ Verification!VerifiedByLink
  BY DEF Verification!Init, LinksInit, Verification!LinksInit, EventByLink, AnnouncerUsed,
         Verification!VerifiedByLink
<1> QED
  BY <1>1, <1>3, <1>4 DEF VerifyInv

\* Steps that write no row and announce nothing.
LEMMA VerifyQuietKeeps ==
  ASSUME VerifyInv, LinkInv', UNCHANGED <<isUsed, Verification!verifyVars>>,
         NEW r \in Request,
         NEW place \in {"create", "mail", "sent", "send", "refused", "VERIFIED",
                        "EXPIRED", "FAILED", "cancel", "cancelled", "failed"},
         Goto(r, place), \A s \in Request \ {r} : tok'[s] = tok[s]
  PROVE  VerifyInv'
<1>1. Verification!TypeOK'
  <2>1. (pc \in [Request -> {"new"} \cup Verification!InProgress \cup Verification!Answered])'
    BY DEF VerifyInv, Verification!TypeOK, Verification!InProgress, Verification!Answered
  <2> QED
    BY <2>1 DEF VerifyInv, Verification!TypeOK, LinkInv, Verification!verifyVars
<1>2. EventByLink' /\ Verification!VerifiedByLink'
  BY DEF VerifyInv, EventByLink, Verification!VerifiedByLink, Verification!verifyVars
<1>3. AnnouncerUsed'
  BY DEF VerifyInv, AnnouncerUsed, Verification!TypeOK
<1> QED
  BY <1>1, <1>2, <1>3 DEF VerifyInv

LEMMA AcceptKeeps ==
  ASSUME VerifyInv, NEW r \in Request, Verification!AcceptToken(r)
  PROVE  VerifyInv' /\ DeadStep
<1> USE DEF Verification!AcceptToken
<1>1. tok[r] \in Row /\ tok[r] \in Token
  BY HolderHasRow DEF VerifyInv, Holding
<1>2. tok' = tok /\ upset' \in BOOLEAN
  BY DEF VerifyInv, LinkInv, LinksTypeOK, Verification!LinksTypeOK
<1>3. LinkInv' /\ DeadStep
  BY SameEnds, <1>1, <1>2, SpendKeeps DEF VerifyInv
<1>4. (pc \in [Request -> {"new"} \cup Verification!InProgress \cup Verification!Answered])'
  BY DEF VerifyInv, Verification!TypeOK, Verification!InProgress, Verification!Answered
<1>5. Verification!TypeOK'
  BY <1>3, <1>4 DEF VerifyInv, Verification!TypeOK, LinkInv, Verification!verifyVars
<1>6. isUsed' = [isUsed EXCEPT ![tok[r]] = TRUE]
  BY DEF Spend, Verification!Spend
<1>7. \A t \in Token : isUsed[t] => isUsed'[t]
  BY <1>6, <1>1 DEF VerifyInv, LinkInv, LinksTypeOK, Verification!LinksTypeOK
<1>8. EventByLink' /\ Verification!VerifiedByLink'
  BY <1>7 DEF VerifyInv, EventByLink, Verification!VerifiedByLink, Verification!verifyVars
<1>9. AnnouncerUsed'
  <2> SUFFICES ASSUME NEW s \in Request, pc'[s] = "announce"
               PROVE  isUsed'[tok[s]]
    BY DEF AnnouncerUsed
  <2>1. CASE s = r
    BY <2>1, <1>1, <1>6 DEF VerifyInv, LinkInv, LinksTypeOK, Verification!LinksTypeOK
  <2>2. CASE s # r
    <3>1. pc[s] = "announce"
      BY <2>2 DEF VerifyInv, LinkInv
    <3>2. tok[s] \in Token /\ isUsed[tok[s]]
      BY <3>1, HolderHasRow DEF VerifyInv, AnnouncerUsed, Holding
    <3> QED
      BY <3>2, <1>7
  <2> QED
    BY <2>1, <2>2
<1> QED
  BY <1>3, <1>5, <1>8, <1>9 DEF VerifyInv

LEMMA AnnounceKeeps ==
  ASSUME VerifyInv, NEW r \in Request, Verification!Announce(r)
  PROVE  VerifyInv' /\ DeadStep
<1> USE DEF Verification!Announce
<1>1. upset' \in BOOLEAN
  BY DEF VerifyInv, LinkInv, LinksTypeOK, Verification!LinksTypeOK
<1>2. pc[r] \in Holding
  BY DEF Holding
<1>3. LinkInv' /\ DeadStep
  BY <1>1, <1>2, MoveKeeps DEF VerifyInv, Place
<1>4. (pc \in [Request -> {"new"} \cup Verification!InProgress \cup Verification!Answered])'
  BY DEF VerifyInv, Verification!TypeOK, Verification!InProgress, Verification!Answered
<1>5. verifiedEvents' \in Nat
  BY DEF VerifyInv, Verification!TypeOK
<1>6. Verification!TypeOK'
  BY <1>3, <1>4, <1>5 DEF VerifyInv, Verification!TypeOK, LinkInv
<1>7. tok[r] \in Token /\ isUsed[tok[r]]
  BY <1>2, HolderHasRow DEF VerifyInv, AnnouncerUsed
<1>8. EventByLink' /\ Verification!VerifiedByLink'
  BY <1>7 DEF VerifyInv, EventByLink, Verification!VerifiedByLink
<1>9. AnnouncerUsed'
  BY DEF VerifyInv, AnnouncerUsed, Verification!TypeOK
<1> QED
  BY <1>3, <1>6, <1>8, <1>9 DEF VerifyInv

LEMMA HandlerKeeps ==
  ASSUME VerifyInv, Verification!MarkEmailAsVerified
  PROVE  VerifyInv' /\ DeadStep
<1> USE DEF Verification!MarkEmailAsVerified
<1>1. upset' \in BOOLEAN
  BY DEF VerifyInv, LinkInv, LinksTypeOK, Verification!LinksTypeOK
<1>2. emailVerified' \in BOOLEAN
  BY DEF VerifyInv, Verification!TypeOK
<1>3. verifiedEvents' \in Nat
  BY DEF VerifyInv, Verification!TypeOK
<1>4. LinkInv'
  BY <1>1
     DEF VerifyInv, LinkInv, LinksTypeOK, Verification!LinksTypeOK, RowsIssued,
         MailedIssued, HoldsRow, VerdictRight, Row
<1>5. DeadStep
  BY TableUnchanged
<1>6. Verification!TypeOK'
  BY <1>2, <1>3, <1>4 DEF VerifyInv, Verification!TypeOK, LinkInv
<1>7. \E t \in Token : isUsed[t]
  BY DEF VerifyInv, EventByLink
<1>8. EventByLink' /\ Verification!VerifiedByLink' /\ AnnouncerUsed'
  BY <1>7 DEF VerifyInv, EventByLink, Verification!VerifiedByLink, AnnouncerUsed
<1> QED
  BY <1>4, <1>5, <1>6, <1>8 DEF VerifyInv

LEMMA VerifyInvStep ==
  ASSUME VerifyInv, [Verification!Next]_(Verification!vars)
  PROVE  VerifyInv' /\ DeadStep
<1>0. LinkInv
  BY DEF VerifyInv
<1>1. ASSUME NEW r \in Request, Verification!SendVerification(r)
      PROVE  VerifyInv' /\ DeadStep
  BY SameSends, <1>0, <1>1, CancelPendingKeeps, VerifyQuietKeeps
     DEF Verification!SendVerification, CancelPending, Verification!CancelPending,
         Verification!verifyVars
<1>2. ASSUME NEW r \in Request, Verification!ResendVerification(r)
      PROVE  VerifyInv' /\ DeadStep
  <2>1. upset' \in BOOLEAN
    BY <1>2
       DEF Verification!ResendVerification, VerifyInv, LinkInv, LinksTypeOK,
           Verification!LinksTypeOK
  <2>2. PICK place \in {"send", "refused"} : Goto(r, place)
    BY <1>2 DEF Verification!ResendVerification
  <2>3. LinkInv' /\ DeadStep
    BY <1>0, <1>2, <2>1, <2>2, MoveKeeps DEF Verification!ResendVerification, Place, Holding
  <2> QED
    BY <1>2, <2>2, <2>3, VerifyQuietKeeps
       DEF Verification!ResendVerification, Verification!verifyVars
<1>3. ASSUME NEW r \in Request, Verification!CreateToken(r)
      PROVE  VerifyInv' /\ DeadStep
  <2>1. \A s \in Request \ {r} : tok'[s] = tok[s]
    BY <1>3, <1>0
       DEF Verification!CreateToken, Create, Verification!Create, LinkInv, LinksTypeOK,
           Verification!LinksTypeOK
  <2> QED
    BY <1>0, <1>3, <2>1, CreateKeeps, VerifyQuietKeeps
       DEF Verification!CreateToken, Create, Verification!Create, Verification!verifyVars
<1>4. ASSUME NEW r \in Request, Verification!SendMail(r)
      PROVE  VerifyInv' /\ DeadStep
  BY <1>0, <1>4, MailKeeps, VerifyQuietKeeps
     DEF Verification!SendMail, Mail, Verification!Mail, Verification!verifyVars
<1>5. ASSUME NEW r \in Request, NEW t \in Token, Verification!VerifyToken(r, t)
      PROVE  VerifyInv' /\ DeadStep
  <2>1. Judge(t, "VERIFIED") \in {"refused", "EXPIRED", "FAILED", "VERIFIED"}
    BY DEF Judge, Verification!Judge
  <2>2. \A s \in Request \ {r} : tok'[s] = tok[s]
    BY <1>5, <1>0
       DEF Verification!VerifyToken, Open, Verification!Open, LinkInv, LinksTypeOK,
           Verification!LinksTypeOK
  <2>3. LinkInv' /\ DeadStep
    BY SameUses, <1>0, <1>5, OpenKeeps DEF Place, Verification!VerifyToken
  <2>4. Goto(r, Judge(t, "VERIFIED")) /\ UNCHANGED <<isUsed, Verification!verifyVars>>
    BY SameUses, <1>5 DEF Place, Verification!VerifyToken, Open, Verification!verifyVars
  <2> QED
    BY <2>1, <2>2, <2>3, <2>4, VerifyQuietKeeps
<1>6. ASSUME NEW r \in Request, NEW t \in Token, Verification!CancelVerification(r, t)
      PROVE  VerifyInv' /\ DeadStep
  <2>1. PICK place \in {"refused", "cancelled", "cancel"} : Goto(r, place)
    BY <1>6 DEF Verification!CancelVerification
  <2>2. \A s \in Request \ {r} : tok'[s] = tok[s]
    BY <1>6, <1>0
       DEF Verification!CancelVerification, LinkInv, LinksTypeOK, Verification!LinksTypeOK
  <2>3. t \in Row /\ UNCHANGED table /\ upset' = upset
    BY <1>6, <1>0 DEF Verification!CancelVerification, LinkInv, MailedIssued
  <2>4. (pc \in [Request -> Place])' /\ HoldsRow' /\ VerdictRight'
    BY <1>6, <1>0, <2>1, <2>3
       DEF Verification!CancelVerification, LinkInv, HoldsRow, VerdictRight, Place, Row,
           LinksTypeOK, Verification!LinksTypeOK
  <2>5. LinksTypeOK' /\ RowsIssued' /\ MailedIssued'
    BY <1>6, <1>0, <2>3
       DEF Verification!CancelVerification, LinkInv, LinksTypeOK, Verification!LinksTypeOK,
           RowsIssued, MailedIssued, Row
  <2>6. LinkInv' /\ DeadStep
    BY <2>3, <2>4, <2>5, TableUnchanged DEF LinkInv
  <2> QED
    BY <1>6, <2>1, <2>2, <2>6, VerifyQuietKeeps
       DEF Verification!CancelVerification, Verification!verifyVars
<1>7. ASSUME NEW r \in Request, Verification!RefuseToken(r)
      PROVE  VerifyInv' /\ DeadStep
  BY <1>0, <1>7, MarkRefusedKeeps, VerifyQuietKeeps
     DEF Verification!RefuseToken, MarkRefused, Verification!MarkRefused,
         Verification!verifyVars
<1>8. ASSUME NEW r \in Request, Verification!CancelToken(r)
      PROVE  VerifyInv' /\ DeadStep
  <2>1. tok[r] \in Row /\ tok[r] \in Token
    BY <1>8, <1>0, HolderHasRow DEF Verification!CancelToken, Holding
  <2>2. (pc \in [Request -> Place])' /\ HoldsRow' /\ VerdictRight'
    BY <1>8, <1>0
       DEF Verification!CancelToken, LinkInv, HoldsRow, VerdictRight, Place, Row, Holding
  <2>3. LinksTypeOK'
    BY <1>8, <1>0, <2>1
       DEF Verification!CancelToken, LinkInv, LinksTypeOK, Verification!LinksTypeOK
  <2>4. RowsIssued' /\ MailedIssued'
    BY <1>8, <1>0, <2>1
       DEF Verification!CancelToken, LinkInv, LinksTypeOK, Verification!LinksTypeOK,
           RowsIssued, MailedIssued, Row
  <2>5. LinkInv'
    BY <2>2, <2>3, <2>4 DEF LinkInv
  <2>6. DeadStep
    BY <1>8, <1>0, <2>1
       DEF Verification!CancelToken, DeadStep, Acceptable, Verification!Acceptable, Spent,
           Verification!Spent, LinkInv, LinksTypeOK, Verification!LinksTypeOK
  <2> QED
    BY <1>8, <2>5, <2>6, VerifyQuietKeeps
       DEF Verification!CancelToken, Verification!verifyVars
<1>9. ASSUME NEW r \in Request, Verification!Failure(r)
      PROVE  VerifyInv' /\ DeadStep
  <2>1. upset' \in BOOLEAN
    BY <1>9 DEF Verification!Failure, Fail, Verification!Fail
  <2>2. LinkInv' /\ DeadStep
    BY <1>0, <1>9, <2>1, MoveKeeps
       DEF Verification!Failure, Fail, Verification!Fail, Place, Holding
  <2> QED
    BY <1>9, <2>2, VerifyQuietKeeps
       DEF Verification!Failure, Fail, Verification!Fail, Verification!verifyVars
<1>10. ASSUME NEW t \in Token, Verification!LinkLapses(t)
       PROVE  VerifyInv' /\ DeadStep
  <2>1. LinkInv' /\ DeadStep
    BY SameEnds, <1>0, <1>10, LapseKeeps DEF Verification!LinkLapses
  <2> QED
    BY <1>10, <2>1
       DEF Verification!LinkLapses, Lapse, Verification!Lapse, VerifyInv,
           Verification!TypeOK, LinkInv, EventByLink, AnnouncerUsed,
           Verification!VerifiedByLink, Verification!verifyVars
<1>11. CASE UNCHANGED Verification!vars
  <2>1. LinkInv' /\ DeadStep
    BY <1>0, <1>11, LinkInvStutter DEF Verification!vars
  <2> QED
    BY <1>11, <2>1
       DEF Verification!vars, Verification!verifyVars, VerifyInv, Verification!TypeOK,
           LinkInv, EventByLink, AnnouncerUsed, Verification!VerifiedByLink
<1> QED
  BY <1>1, <1>2, <1>3, <1>4, <1>5, <1>6, <1>7, <1>8, <1>9, <1>10, <1>11, AcceptKeeps,
     AnnounceKeeps, HandlerKeeps
     DEF Verification!Next

-----------------------------------------------------------------------------
\* Columns, places and counters keep their types under every failure.
THEOREM VerificationTypes == Verification!Spec => []Verification!TypeOK
<1>1. VerifyInv => Verification!TypeOK
  BY DEF VerifyInv
<1> QED
  BY <1>1, VerifyInvInit, VerifyInvStep, PTL DEF Verification!Spec

\* An address never counts as verified without a link that was accepted,
\* whatever is lost, delayed or overwritten.
THEOREM VerifiedBacked == Verification!Spec => []Verification!VerifiedByLink
<1>1. VerifyInv => Verification!VerifiedByLink
  BY DEF VerifyInv
<1> QED
  BY <1>1, VerifyInvInit, VerifyInvStep, PTL DEF Verification!Spec

\* No late write of another request revives a verification link.
THEOREM VerificationLinksStayDead == Verification!Spec => DeadLinksStayDead
<1>1. VerifyInv /\ [Verification!Next]_(Verification!vars) => VerifyInv'
  BY VerifyInvStep
<1>2. VerifyInv /\ [Verification!Next]_(Verification!vars) =>
        [\A t \in Token : status[t] # "none" /\ ~Acceptable(t)
                            => ~Acceptable(t)']_linkVars
  BY VerifyInvStep DEF DeadStep
<1> QED
  BY <1>1, <1>2, VerifyInvInit, PTL DEF Verification!Spec, DeadLinksStayDead

LEMMA VerifyNewest ==
  ASSUME VerifyInv, NewestAlive, [Verification!Next]_(Verification!vars)
  PROVE  NewestAlive'
<1>0. LinkInv
  BY DEF VerifyInv
<1>1. ASSUME NEW r \in Request, Verification!SendVerification(r) PROVE NewestAlive'
  BY SameSends, <1>0, <1>1, CancelPendingNewest, MoveNewest
     DEF Verification!SendVerification
<1>2. ASSUME NEW r \in Request, Verification!ResendVerification(r) PROVE NewestAlive'
  BY <1>0, <1>2, CancelPendingNewest, MoveNewest DEF Verification!ResendVerification
<1>3. ASSUME NEW r \in Request, Verification!CreateToken(r) PROVE NewestAlive'
  BY SameSends, <1>0, <1>3, CreateNewest DEF Verification!CreateToken
<1>4. ASSUME NEW r \in Request, Verification!SendMail(r) \/ Verification!RefuseToken(r)
      PROVE  NewestAlive'
  BY SameSends, SameUses, <1>0, <1>4, MailNewest, MarkRefusedNewest
     DEF Verification!SendMail, Verification!RefuseToken
<1>5. ASSUME NEW r \in Request, NEW t \in Token, Verification!VerifyToken(r, t)
      PROVE  NewestAlive'
  BY SameUses, <1>0, <1>5, OpenNewest DEF Place, Verification!VerifyToken
<1>6. ASSUME NEW r \in Request, NEW t \in Token, Verification!CancelVerification(r, t)
      PROVE  NewestAlive'
  BY <1>0, <1>6, NewestKept
     DEF Verification!CancelVerification, LinkInv, LinksTypeOK, Verification!LinksTypeOK
<1>7. ASSUME NEW r \in Request, Verification!AcceptToken(r) PROVE NewestAlive'
  <2>1. issued' = issued /\ (status'[issued] = "CANCELLED" => status[issued] = "CANCELLED")
    BY <1>0, <1>7
       DEF Verification!AcceptToken, Spend, Verification!Spend, LinkInv, LinksTypeOK,
           Verification!LinksTypeOK
  <2> QED
    BY <1>0, <1>7, <2>1, NewestKept DEF Verification!AcceptToken, LinkInv
<1>8. ASSUME NEW r \in Request, Verification!Announce(r) PROVE NewestAlive'
  <2>1. upset => upset'
    BY <1>8 DEF Verification!Announce
  <2> QED
    BY <1>0, <1>8, <2>1, MoveNewest DEF Verification!Announce
<1>9. ASSUME NEW r \in Request, Verification!CancelToken(r) PROVE NewestAlive'
  <2>1. CASE tok[r] = issued
    BY <1>0, <1>9, <2>1 DEF Verification!CancelToken, LinkInv, NewestAlive
  <2>2. CASE tok[r] # issued
    <3>1. status'[issued] = status[issued]
      BY <1>0, <1>9, <2>2
         DEF Verification!CancelToken, LinkInv, LinksTypeOK, Verification!LinksTypeOK
    <3> QED
      BY <1>0, <1>9, <3>1, NewestKept DEF Verification!CancelToken, LinkInv
  <2> QED
    BY <2>1, <2>2
<1>10. ASSUME NEW r \in Request, Verification!Failure(r) PROVE NewestAlive'
  BY <1>10, FaultNewest DEF Verification!Failure, Fail, Verification!Fail
<1>11. CASE Verification!MarkEmailAsVerified
  <2>1. upset => upset'
    BY <1>11 DEF Verification!MarkEmailAsVerified
  <2> QED
    BY <1>11, <2>1, StillNewest DEF Verification!MarkEmailAsVerified
<1>12. ASSUME NEW t \in Token, Verification!LinkLapses(t) PROVE NewestAlive'
  BY <1>12, StillNewest DEF Verification!LinkLapses, Lapse, Verification!Lapse
<1>13. CASE UNCHANGED Verification!vars
  BY <1>13, StillNewest DEF Verification!vars
<1> QED
  BY <1>1, <1>2, <1>3, <1>4, <1>5, <1>6, <1>7, <1>8, <1>9, <1>10, <1>11, <1>12, <1>13
     DEF Verification!Next

\* However sends overlap, the newest verification link is alive, unless its
\* receiver cancelled it, a newer one is on its way or something failed.
THEOREM NewestVerificationAlive == Verification!Spec => []NewestAlive
<1>1. Verification!Init => NewestAlive
  BY DEF Verification!Init, LinksInit, Verification!LinksInit, NewestAlive
<1>2. VerifyInv /\ NewestAlive /\ [Verification!Next]_(Verification!vars) => NewestAlive'
  BY VerifyNewest
<1>3. VerifyInv /\ [Verification!Next]_(Verification!vars) => VerifyInv'
  BY VerifyInvStep
<1> QED
  BY <1>1, <1>2, <1>3, VerifyInvInit, PTL DEF Verification!Spec
-----------------------------------------------------------------------------
(* Counting: each attempt is an acceptance, and the other way round. *)

AcceptedFor(t) == {r \in Request : tok[r] = t /\ pc[r] \in {"announce", "verified"}}

LEMMA VerifyCountsKept ==
  ASSUME Verification!AttemptsAreSuccesses, UNCHANGED attempts, upset => upset',
         \A s \in Request :
           /\ pc'[s] \in {"announce", "verified"} <=> pc[s] \in {"announce", "verified"}
           /\ pc[s] \in {"announce", "verified"} => tok'[s] = tok[s]
  PROVE  Verification!AttemptsAreSuccesses'
<1>1. \A t \in Token : AcceptedFor(t)' = AcceptedFor(t)
  BY DEF AcceptedFor
<1> QED
  BY <1>1 DEF Verification!AttemptsAreSuccesses, AcceptedFor

LEMMA AcceptCounts ==
  ASSUME IsFiniteSet(Request), VerifyInv, Verification!AttemptsAreSuccesses, NEW r \in Request,
         Verification!AcceptToken(r)
  PROVE  Verification!AttemptsAreSuccesses'
<1>1. CASE upset
  BY <1>1 DEF Verification!AttemptsAreSuccesses, Verification!AcceptToken
<1>2. CASE ~upset
  <2>1. pc[r] = "VERIFIED" /\ tok[r] \in Token /\ pc' = [pc EXCEPT ![r] = "announce"]
    BY HolderHasRow DEF VerifyInv, Verification!AcceptToken, Holding
  <2>2. tok' = tok /\ attempts' = [attempts EXCEPT ![tok[r]] = @ + 1]
    BY DEF Verification!AcceptToken, Spend, Verification!Spend
  <2>3. ASSUME NEW t \in Token
        PROVE  attempts'[t] = Cardinality(AcceptedFor(t)')
    <3>1. attempts[t] \in Nat /\ attempts[t] = Cardinality(AcceptedFor(t))
      BY SameCount, <1>2
         DEF Verification!AttemptsAreSuccesses, AcceptedFor, VerifyInv, Verification!TypeOK,
             LinksTypeOK, Verification!LinksTypeOK
    <3>2. CASE t = tok[r]
      <4>1. AcceptedFor(t)' = AcceptedFor(t) \cup {r} /\ r \notin AcceptedFor(t)
              /\ AcceptedFor(t) \in SUBSET Request
        BY <2>1, <2>2, <3>2 DEF AcceptedFor, VerifyInv, Verification!TypeOK
      <4>2. Cardinality(AcceptedFor(t)') = Cardinality(AcceptedFor(t)) + 1
        BY <4>1, OneMore
      <4>3. attempts'[t] = attempts[t] + 1
        BY <2>2, <3>2
           DEF VerifyInv, Verification!TypeOK, LinksTypeOK, Verification!LinksTypeOK
      <4> QED
        BY <3>1, <4>2, <4>3
    <3>3. CASE t # tok[r]
      <4>1. AcceptedFor(t)' = AcceptedFor(t)
        BY <2>1, <2>2, <3>3 DEF AcceptedFor, VerifyInv, Verification!TypeOK
      <4>2. attempts'[t] = attempts[t]
        BY <2>2, <3>3
           DEF VerifyInv, Verification!TypeOK, LinksTypeOK, Verification!LinksTypeOK
      <4> QED
        BY <3>1, <4>1, <4>2
    <3> QED
      BY <3>2, <3>3
  <2> QED
    BY SameCount, <2>3 DEF Verification!AttemptsAreSuccesses, AcceptedFor
<1> QED
  BY <1>1, <1>2

LEMMA VerifyCountsInit ==
  Verification!Init => Verification!AttemptsAreSuccesses
<1> SUFFICES ASSUME Verification!Init, NEW t \in Token
             PROVE  attempts[t] = Cardinality(AcceptedFor(t))
  BY SameCount DEF Verification!AttemptsAreSuccesses, AcceptedFor
<1>1. AcceptedFor(t) = {}
  BY DEF Verification!Init, LinksInit, Verification!LinksInit, AcceptedFor
<1> QED
  BY <1>1, FS_EmptySet DEF Verification!Init, LinksInit, Verification!LinksInit

LEMMA VerifyCountsStep ==
  ASSUME IsFiniteSet(Request), VerifyInv,
         Verification!AttemptsAreSuccesses, [Verification!Next]_(Verification!vars)
  PROVE  Verification!AttemptsAreSuccesses'
<1> USE DEF VerifyInv, Verification!TypeOK, LinksTypeOK, Verification!LinksTypeOK
<1>1. ASSUME NEW r \in Request,
             Verification!SendVerification(r) \/ Verification!ResendVerification(r)
      PROVE  Verification!AttemptsAreSuccesses'
  BY <1>1, VerifyCountsKept
     DEF Verification!SendVerification, Verification!ResendVerification, CancelPending,
         Verification!CancelPending, Verification!verifyVars
<1>2. ASSUME NEW r \in Request, Verification!CreateToken(r)
      PROVE  Verification!AttemptsAreSuccesses'
  BY <1>2, VerifyCountsKept
     DEF Verification!CreateToken, Create, Verification!Create, Verification!verifyVars
<1>3. ASSUME NEW r \in Request, Verification!SendMail(r)
      PROVE  Verification!AttemptsAreSuccesses'
  BY <1>3, VerifyCountsKept
     DEF Verification!SendMail, Mail, Verification!Mail, Verification!verifyVars
<1>4. ASSUME NEW r \in Request, NEW t \in Token, Verification!VerifyToken(r, t)
      PROVE  Verification!AttemptsAreSuccesses'
  BY <1>4, VerifyCountsKept
     DEF Verification!VerifyToken, Open, Verification!Open, Judge, Verification!Judge,
         Verification!verifyVars
<1>5. ASSUME NEW r \in Request, NEW t \in Token, Verification!CancelVerification(r, t)
      PROVE  Verification!AttemptsAreSuccesses'
  BY <1>5, VerifyCountsKept DEF Verification!CancelVerification, Verification!verifyVars
<1>6. ASSUME NEW r \in Request, Verification!RefuseToken(r)
      PROVE  Verification!AttemptsAreSuccesses'
  BY <1>6, VerifyCountsKept
     DEF Verification!RefuseToken, MarkRefused, Verification!MarkRefused,
         Verification!verifyVars
<1>7. ASSUME NEW r \in Request, Verification!CancelToken(r)
      PROVE  Verification!AttemptsAreSuccesses'
  BY <1>7, VerifyCountsKept DEF Verification!CancelToken, Verification!verifyVars
<1>8. ASSUME NEW r \in Request, Verification!Announce(r)
      PROVE  Verification!AttemptsAreSuccesses'
  BY <1>8, VerifyCountsKept DEF Verification!Announce
<1>9. ASSUME NEW r \in Request, Verification!Failure(r) PROVE Verification!AttemptsAreSuccesses'
  BY <1>9
     DEF Verification!Failure, Fail, Verification!Fail, Verification!AttemptsAreSuccesses
<1>10. CASE Verification!MarkEmailAsVerified
  BY <1>10, VerifyCountsKept DEF Verification!MarkEmailAsVerified
<1>11. ASSUME NEW t \in Token, Verification!LinkLapses(t)
       PROVE  Verification!AttemptsAreSuccesses'
  BY <1>11, VerifyCountsKept
     DEF Verification!LinkLapses, Lapse, Verification!Lapse, Verification!verifyVars
<1>12. CASE UNCHANGED Verification!vars
  BY <1>12, VerifyCountsKept DEF Verification!vars, Verification!verifyVars
<1> QED
  BY <1>1, <1>2, <1>3, <1>4, <1>5, <1>6, <1>7, <1>8, <1>9, <1>10, <1>11, <1>12, AcceptCounts
     DEF Verification!Next

\* A link counts one attempt for each request it was accepted for, however
\* the requests overlap, until a failure.
THEOREM VerificationsCounted ==
  ASSUME IsFiniteSet(Request) PROVE Verification!Spec => []Verification!AttemptsAreSuccesses
<1>1. Verification!Init => Verification!AttemptsAreSuccesses
  BY VerifyCountsInit
<1>2. VerifyInv /\ Verification!AttemptsAreSuccesses /\ [Verification!Next]_(Verification!vars)
        => Verification!AttemptsAreSuccesses'
  BY VerifyCountsStep
<1>3. VerifyInv /\ [Verification!Next]_(Verification!vars) => VerifyInv'
  BY VerifyInvStep
<1> QED
  BY <1>1, <1>2, <1>3, VerifyInvInit, PTL DEF Verification!Spec

-----------------------------------------------------------------------------
(* Password reset *)

\* A request that has stored its password only reports and answers.
WritersAnswer == \A r \in wrote : pc[r] \in {"mark", "done", "failed"}
MarkersWrote  == \A r \in Request : pc[r] = "mark" => r \in wrote

\* Every mark in flight, too, comes from a request that stored its password.
MarksBacked ==
  \A t \in Token : marks[t] > 0 => t \in Row /\ \E r \in wrote : tok[r] = t

ResetInv ==
  /\ LinkInv
  /\ Reset!TypeOK
  /\ WritersAnswer
  /\ MarkersWrote
  /\ MarksBacked
  /\ Reset!UsedLinkReset

LEMMA ResetInvInit == Reset!Init => ResetInv
<1> SUFFICES ASSUME Reset!Init PROVE ResetInv
  OBVIOUS
<1>1. LinkInv
  BY LinkInvInit DEF Reset!Init
<1>2. Reset!TypeOK
  BY <1>1 DEF Reset!Init, Reset!TypeOK, LinkInv, LinksInit, Reset!LinksInit
<1>3. WritersAnswer /\ MarkersWrote /\ Reset!UsedLinkReset
  BY DEF Reset!Init, LinksInit, Reset!LinksInit, WritersAnswer, MarkersWrote,
         Reset!UsedLinkReset
<1>4. MarksBacked
  BY DEF Reset!Init, MarksBacked
<1> QED
  BY <1>1, <1>2, <1>3, <1>4 DEF ResetInv

\* Steps of r that use no link, store no password and report nothing.
LEMMA ResetQuietKeeps ==
  ASSUME ResetInv, LinkInv', UNCHANGED <<isUsed, Reset!resetVars>>,
         issued' >= issued,
         NEW r \in Request,
         NEW place \in {"create", "mail", "sent", "valid", "checked",
                        "EXPIRED", "FAILED", "refused", "failed"},
         Goto(r, place), r \in wrote => place = "failed",
         \A s \in wrote : tok'[s] = tok[s]
  PROVE  ResetInv'
<1>1. Reset!TypeOK'
  <2>1. (pc \in [Request -> {"new"} \cup Reset!InProgress \cup Reset!Answered])'
    BY DEF ResetInv, Reset!TypeOK, Reset!InProgress, Reset!Answered
  <2> QED
    BY <2>1 DEF ResetInv, Reset!TypeOK, LinkInv, Reset!resetVars
<1>2. WritersAnswer' /\ MarkersWrote'
  BY DEF ResetInv, WritersAnswer, MarkersWrote, Reset!TypeOK, Reset!resetVars
<1>3. MarksBacked'
  <2>1. issued \in Nat /\ issued' \in Nat
    BY DEF ResetInv, LinkInv, LinksTypeOK, Reset!LinksTypeOK
  <2> QED
    BY <2>1 DEF ResetInv, MarksBacked, Row, Reset!resetVars
<1>4. Reset!UsedLinkReset'
  BY DEF ResetInv, Reset!UsedLinkReset, Reset!resetVars
<1> QED
  BY <1>1, <1>2, <1>3, <1>4 DEF ResetInv

LEMMA StoreKeeps ==
  ASSUME ResetInv, NEW r \in Request, Reset!StorePassword(r)
  PROVE  ResetInv' /\ DeadStep
<1> USE DEF Reset!StorePassword
<1>1. upset' \in BOOLEAN
  BY DEF ResetInv, LinkInv, LinksTypeOK, Reset!LinksTypeOK
<1>2. LinkInv' /\ DeadStep
  BY <1>1, MoveKeeps DEF ResetInv, Place, Holding
<1>3. (pc \in [Request -> {"new"} \cup Reset!InProgress \cup Reset!Answered])'
  BY DEF ResetInv, Reset!TypeOK, Reset!InProgress, Reset!Answered
<1>4. Reset!TypeOK'
  BY <1>2, <1>3 DEF ResetInv, Reset!TypeOK, LinkInv
<1>5. WritersAnswer' /\ MarkersWrote'
  BY DEF ResetInv, WritersAnswer, MarkersWrote, Reset!TypeOK
<1>6. MarksBacked' /\ Reset!UsedLinkReset'
  BY DEF ResetInv, MarksBacked, Reset!UsedLinkReset, Row
<1> QED
  BY <1>2, <1>4, <1>5, <1>6 DEF ResetInv

LEMMA ReportKeeps ==
  ASSUME ResetInv, NEW r \in Request, Reset!ReportUse(r)
  PROVE  ResetInv' /\ DeadStep
<1> USE DEF Reset!ReportUse, Reset!MayReport
<1>1. upset' \in BOOLEAN
  BY DEF ResetInv, LinkInv, LinksTypeOK, Reset!LinksTypeOK
<1>2. LinkInv' /\ DeadStep
  BY <1>1, MoveKeeps DEF ResetInv, Place, Holding
<1>3. (pc \in [Request -> {"new"} \cup Reset!InProgress \cup Reset!Answered])'
  BY DEF ResetInv, Reset!TypeOK, Reset!InProgress, Reset!Answered
<1>4. tok[r] \in Row /\ tok[r] \in Token
  BY HolderHasRow DEF ResetInv, Holding
<1>5. marks' \in [Token -> Nat]
  BY <1>4 DEF ResetInv, Reset!TypeOK
<1>6. \A t \in Token : t # tok[r] => marks'[t] = marks[t]
  BY <1>4 DEF ResetInv, Reset!TypeOK
<1>7. Reset!TypeOK'
  BY <1>2, <1>3, <1>5 DEF ResetInv, Reset!TypeOK, LinkInv
<1>8. WritersAnswer' /\ MarkersWrote'
  BY DEF ResetInv, WritersAnswer, MarkersWrote, Reset!TypeOK
<1>9. r \in wrote
  BY DEF ResetInv, MarkersWrote
<1>10. MarksBacked'
  <2> SUFFICES ASSUME NEW t \in Token, marks'[t] > 0
               PROVE  t \in Row /\ \E s \in wrote : tok[s] = t
    BY DEF MarksBacked, Row
  <2>1. CASE t = tok[r]
    BY <2>1, <1>4, <1>9
  <2>2. CASE t # tok[r]
    BY <2>2, <1>6 DEF ResetInv, MarksBacked
  <2> QED
    BY <2>1, <2>2
<1>11. Reset!UsedLinkReset'
  BY DEF ResetInv, Reset!UsedLinkReset
<1> QED
  BY <1>2, <1>7, <1>8, <1>10, <1>11 DEF ResetInv

LEMMA MarkKeeps ==
  ASSUME ResetInv, NEW t \in Token, Reset!MarkTokenAsUsed(t)
  PROVE  ResetInv' /\ DeadStep
<1> USE DEF Reset!MarkTokenAsUsed
<1>1. upset' \in BOOLEAN
  BY DEF ResetInv, LinkInv, LinksTypeOK, Reset!LinksTypeOK
<1>2. t \in Row /\ \E r \in wrote : tok[r] = t
  BY DEF ResetInv, MarksBacked
<1>3. LinkInv' /\ DeadStep
  <2>1. CASE Spend(t, "USED")
    BY <2>1, <1>1, <1>2, SpendKeeps DEF ResetInv
  <2>2. CASE UNCHANGED table
    <3>1. DeadStep
      BY <2>2, TableUnchanged
    <3>2. LinkInv'
      BY <2>2, <1>1
         DEF ResetInv, LinkInv, LinksTypeOK, Reset!LinksTypeOK, RowsIssued, MailedIssued,
             HoldsRow, VerdictRight, Row
    <3> QED
      BY <3>1, <3>2
  <2> QED
    BY <2>1, <2>2, SameEnds
<1>4. marks' \in [Token -> Nat] /\ \A u \in Token : marks'[u] <= marks[u]
  BY DEF ResetInv, Reset!TypeOK
<1>5. Reset!TypeOK'
  BY <1>3, <1>4 DEF ResetInv, Reset!TypeOK, LinkInv
<1>6. WritersAnswer' /\ MarkersWrote'
  BY DEF ResetInv, WritersAnswer, MarkersWrote
<1>7. issued' = issued /\ \A u \in Token : isUsed'[u] => isUsed[u] \/ u = t
  BY DEF Spend, Reset!Spend, ResetInv, LinkInv, LinksTypeOK, Reset!LinksTypeOK
<1>8. MarksBacked'
  <2> SUFFICES ASSUME NEW u \in Token, marks'[u] > 0
               PROVE  u \in Row /\ \E s \in wrote : tok[s] = u
    BY <1>7 DEF MarksBacked, Row
  <2>1. marks[u] \in Nat /\ marks'[u] \in Nat
    BY <1>4 DEF ResetInv, Reset!TypeOK
  <2>2. marks[u] > 0
    BY <2>1, <1>4
  <2> QED
    BY <2>2 DEF ResetInv, MarksBacked
<1>9. Reset!UsedLinkReset'
  BY <1>2, <1>7 DEF ResetInv, Reset!UsedLinkReset
<1> QED
  BY <1>3, <1>5, <1>6, <1>8, <1>9 DEF ResetInv

\* Opening a link, to look at it or to use it.
LEMMA OpeningKeeps ==
  ASSUME ResetInv, NEW r \in Request, NEW t \in Token,
         NEW accept \in {"checked", "valid"},
         pc[r] = "new", Open(r, t, accept), UNCHANGED Reset!resetVars
  PROVE  ResetInv' /\ DeadStep
<1>1. LinkInv' /\ DeadStep
  BY OpenKeeps DEF ResetInv
<1>2. r \notin wrote
  BY DEF ResetInv, WritersAnswer
<1>3. \A s \in wrote : tok'[s] = tok[s]
  BY <1>2 DEF Open, Reset!Open, ResetInv, Reset!TypeOK, LinksTypeOK, Reset!LinksTypeOK
<1>4. Judge(t, accept) \in {"refused", "EXPIRED", "FAILED", "checked", "valid"}
  BY DEF Judge, Reset!Judge
<1>5. issued' >= issued /\ UNCHANGED isUsed
  BY DEF Open, Reset!Open, ResetInv, LinkInv, LinksTypeOK, Reset!LinksTypeOK
<1> QED
  BY <1>1, <1>2, <1>3, <1>4, <1>5, ResetQuietKeeps DEF Open, Reset!Open, Reset!resetVars

LEMMA ResetInvStep ==
  ASSUME ResetInv, [Reset!Next]_(Reset!vars)
  PROVE  ResetInv' /\ DeadStep
<1>0. LinkInv /\ issued \in Nat
  BY DEF ResetInv, LinkInv, LinksTypeOK, Reset!LinksTypeOK
<1>1. ASSUME NEW r \in Request, Reset!SendPasswordResetEmail(r)
      PROVE  ResetInv' /\ DeadStep
  <2>1. r \notin wrote /\ issued' >= issued
    BY <1>0, <1>1
       DEF Reset!SendPasswordResetEmail, CancelPending, Reset!CancelPending, ResetInv,
           WritersAnswer
  <2> QED
    BY SameSends, <1>0, <1>1, <2>1, CancelPendingKeeps, ResetQuietKeeps
       DEF Reset!SendPasswordResetEmail, CancelPending, Reset!CancelPending, Reset!resetVars
<1>2. ASSUME NEW r \in Request, Reset!CreateToken(r)
      PROVE  ResetInv' /\ DeadStep
  <2>1. r \notin wrote /\ issued' >= issued
    BY <1>0, <1>2 DEF Reset!CreateToken, Create, Reset!Create, ResetInv, WritersAnswer
  <2>2. \A s \in wrote : tok'[s] = tok[s]
    BY <1>2, <2>1
       DEF Reset!CreateToken, Create, Reset!Create, ResetInv, Reset!TypeOK, LinksTypeOK,
           Reset!LinksTypeOK
  <2> QED
    BY <1>0, <1>2, <2>1, <2>2, CreateKeeps, ResetQuietKeeps
       DEF Reset!CreateToken, Create, Reset!Create, Reset!resetVars
<1>3. ASSUME NEW r \in Request, Reset!SendMail(r)
      PROVE  ResetInv' /\ DeadStep
  <2>1. r \notin wrote /\ issued' >= issued
    BY <1>0, <1>3 DEF Reset!SendMail, Mail, Reset!Mail, ResetInv, WritersAnswer
  <2> QED
    BY <1>0, <1>3, <2>1, MailKeeps, ResetQuietKeeps
       DEF Reset!SendMail, Mail, Reset!Mail, Reset!resetVars
<1>4. ASSUME NEW r \in Request, NEW t \in Token, Reset!CheckLink(r, t)
      PROVE  ResetInv' /\ DeadStep
  BY SameUses, <1>4, OpeningKeeps DEF Place, Reset!CheckLink
<1>5. ASSUME NEW r \in Request, NEW t \in Token, Reset!ResetPassword(r, t)
      PROVE  ResetInv' /\ DeadStep
  BY SameUses, <1>5, OpeningKeeps DEF Place, Reset!ResetPassword
<1>6. ASSUME NEW r \in Request, Reset!RefuseToken(r)
      PROVE  ResetInv' /\ DeadStep
  <2>1. r \notin wrote /\ issued' >= issued
    BY <1>0, <1>6
       DEF Reset!RefuseToken, MarkRefused, Reset!MarkRefused, ResetInv, WritersAnswer
  <2> QED
    BY <1>0, <1>6, <2>1, MarkRefusedKeeps, ResetQuietKeeps
       DEF Reset!RefuseToken, MarkRefused, Reset!MarkRefused, Reset!resetVars
<1>7. ASSUME NEW r \in Request, Reset!VerifyTimesOut(r)
      PROVE  ResetInv' /\ DeadStep
  <2>1. r \notin wrote /\ issued' >= issued
    BY <1>0, <1>7 DEF Reset!VerifyTimesOut, ResetInv, WritersAnswer
  <2>2. upset' \in BOOLEAN
    BY <1>0, <1>7 DEF Reset!VerifyTimesOut, LinkInv, LinksTypeOK, Reset!LinksTypeOK
  <2>3. LinkInv' /\ DeadStep
    BY <1>0, <1>7, <2>2, MoveKeeps DEF Reset!VerifyTimesOut, Place, Holding
  <2> QED
    BY <1>7, <2>1, <2>3, ResetQuietKeeps DEF Reset!VerifyTimesOut, Reset!resetVars
<1>8. ASSUME NEW r \in Request, Reset!Failure(r)
      PROVE  ResetInv' /\ DeadStep
  <2>1. upset' \in BOOLEAN
    BY <1>8 DEF Reset!Failure, Fail, Reset!Fail
  <2>2. LinkInv' /\ DeadStep
    BY <1>0, <1>8, <2>1, MoveKeeps DEF Reset!Failure, Fail, Reset!Fail, Place, Holding
  <2>3. issued' >= issued
    BY <1>0, <1>8 DEF Reset!Failure, Fail, Reset!Fail
  <2> QED
    BY <1>8, <2>2, <2>3, ResetQuietKeeps
       DEF Reset!Failure, Fail, Reset!Fail, Reset!resetVars
<1>9. ASSUME NEW t \in Token, Reset!LinkLapses(t)
      PROVE  ResetInv' /\ DeadStep
  <2>1. LinkInv' /\ DeadStep
    BY SameEnds, <1>0, <1>9, LapseKeeps DEF Reset!LinkLapses
  <2> QED
    BY <1>9, <2>1
       DEF Reset!LinkLapses, Lapse, Reset!Lapse, ResetInv, Reset!TypeOK, LinkInv,
           WritersAnswer, MarkersWrote, MarksBacked, Reset!UsedLinkReset, Reset!resetVars,
           Row
<1>10. CASE UNCHANGED Reset!vars
  <2>1. LinkInv' /\ DeadStep
    BY <1>0, <1>10, LinkInvStutter DEF Reset!vars
  <2> QED
    BY <1>10, <2>1
       DEF Reset!vars, Reset!resetVars, ResetInv, Reset!TypeOK, LinkInv, WritersAnswer,
           MarkersWrote, MarksBacked, Reset!UsedLinkReset, Row
<1> QED
  BY <1>1, <1>2, <1>3, <1>4, <1>5, <1>6, <1>7, <1>8, <1>9, <1>10, StoreKeeps, ReportKeeps,
     MarkKeeps
     DEF Reset!Next

-----------------------------------------------------------------------------
\* Columns, places and the marks in flight keep their types under every
\* failure.
THEOREM ResetTypes == Reset!Spec => []Reset!TypeOK
<1>1. ResetInv => Reset!TypeOK
  BY DEF ResetInv
<1> QED
  BY <1>1, ResetInvInit, ResetInvStep, PTL DEF Reset!Spec

\* No link is marked as used without a password stored for it, whatever is
\* lost, doubled or delayed between the two services.
THEOREM UseBacked == Reset!Spec => []Reset!UsedLinkReset
<1>1. ResetInv => Reset!UsedLinkReset
  BY DEF ResetInv
<1> QED
  BY <1>1, ResetInvInit, ResetInvStep, PTL DEF Reset!Spec

\* No late write of another request revives a reset link.
THEOREM ResetLinksStayDead == Reset!Spec => DeadLinksStayDead
<1>1. ResetInv /\ [Reset!Next]_(Reset!vars) => ResetInv'
  BY ResetInvStep
<1>2. ResetInv /\ [Reset!Next]_(Reset!vars) =>
        [\A t \in Token : status[t] # "none" /\ ~Acceptable(t)
                            => ~Acceptable(t)']_linkVars
  BY ResetInvStep DEF DeadStep
<1> QED
  BY <1>1, <1>2, ResetInvInit, PTL DEF Reset!Spec, DeadLinksStayDead

LEMMA ResetNewest ==
  ASSUME ResetInv, NewestAlive, [Reset!Next]_(Reset!vars)
  PROVE  NewestAlive'
<1>0. LinkInv
  BY DEF ResetInv
<1>1. ASSUME NEW r \in Request, Reset!SendPasswordResetEmail(r) \/ Reset!CreateToken(r)
      PROVE  NewestAlive'
  BY SameSends, <1>0, <1>1, CancelPendingNewest, CreateNewest
     DEF Reset!SendPasswordResetEmail, Reset!CreateToken
<1>2. ASSUME NEW r \in Request, Reset!SendMail(r) \/ Reset!RefuseToken(r) PROVE NewestAlive'
  BY SameSends, SameUses, <1>0, <1>2, MailNewest, MarkRefusedNewest
     DEF Reset!SendMail, Reset!RefuseToken
<1>3. ASSUME NEW r \in Request, NEW t \in Token,
             Reset!CheckLink(r, t) \/ Reset!ResetPassword(r, t)
      PROVE  NewestAlive'
  BY SameUses, <1>0, <1>3, OpenNewest DEF Place, Reset!CheckLink, Reset!ResetPassword
<1>4. ASSUME NEW r \in Request, Reset!VerifyTimesOut(r) \/ Reset!StorePassword(r)
      PROVE  NewestAlive'
  BY <1>0, <1>4, MoveNewest DEF Reset!VerifyTimesOut, Reset!StorePassword
<1>5. ASSUME NEW r \in Request, Reset!ReportUse(r) PROVE NewestAlive'
  <2>1. upset => upset'
    BY <1>5 DEF Reset!ReportUse
  <2> QED
    BY <1>0, <1>5, <2>1, MoveNewest DEF Reset!ReportUse, Reset!MayReport
<1>6. ASSUME NEW r \in Request, Reset!Failure(r) PROVE NewestAlive'
  BY <1>6, FaultNewest DEF Reset!Failure, Fail, Reset!Fail
<1>7. ASSUME NEW t \in Token, Reset!MarkTokenAsUsed(t) PROVE NewestAlive'
  <2>1. upset => upset'
    BY <1>7 DEF Reset!MarkTokenAsUsed
  <2>2. issued' = issued /\ (status'[issued] = "CANCELLED" => status[issued] = "CANCELLED")
    <3>1. CASE Spend(t, "USED")
      BY <1>0, <3>1 DEF Spend, Reset!Spend, LinkInv, LinksTypeOK, Reset!LinksTypeOK
    <3>2. CASE UNCHANGED table
      BY <3>2
    <3> QED
      BY SameEnds, <1>7, <3>1, <3>2 DEF Reset!MarkTokenAsUsed
  <2> QED
    BY <1>7, <2>1, <2>2, StillNewest DEF Reset!MarkTokenAsUsed
<1>8. ASSUME NEW t \in Token, Reset!LinkLapses(t) PROVE NewestAlive'
  BY <1>8, StillNewest DEF Reset!LinkLapses, Lapse, Reset!Lapse
<1>9. CASE UNCHANGED Reset!vars
  BY <1>9, StillNewest DEF Reset!vars
<1> QED
  BY <1>1, <1>2, <1>3, <1>4, <1>5, <1>6, <1>7, <1>8, <1>9 DEF Reset!Next

\* However sends overlap, the newest reset link is alive, unless a newer one
\* is on its way or something failed.
THEOREM NewestResetAlive == Reset!Spec => []NewestAlive
<1>1. Reset!Init => NewestAlive
  BY DEF Reset!Init, LinksInit, Reset!LinksInit, NewestAlive
<1>2. ResetInv /\ NewestAlive /\ [Reset!Next]_(Reset!vars) => NewestAlive'
  BY ResetNewest
<1>3. ResetInv /\ [Reset!Next]_(Reset!vars) => ResetInv'
  BY ResetInvStep
<1> QED
  BY <1>1, <1>2, <1>3, ResetInvInit, PTL DEF Reset!Spec

-----------------------------------------------------------------------------
(* Counting *)

Done(t) == {r \in Request : tok[r] = t /\ pc[r] = "done"}

\* A step that takes no request to or from its answer leaves the counts alone.
LEMMA ResetCountsKept ==
  ASSUME Reset!AttemptsAreResets, UNCHANGED <<attempts, marks>>, upset => upset',
         \A s \in Request : /\ pc'[s] = "done" <=> pc[s] = "done"
                            /\ pc[s] = "done" => tok'[s] = tok[s]
  PROVE  Reset!AttemptsAreResets'
<1>1. \A t \in Token : Done(t)' = Done(t)
  BY DEF Done
<1> QED
  BY <1>1 DEF Reset!AttemptsAreResets, Done

LEMMA ReportCounts ==
  ASSUME IsFiniteSet(Request), ResetInv, Reset!AttemptsAreResets, NEW r \in Request,
         Reset!ReportUse(r)
  PROVE  Reset!AttemptsAreResets'
<1>1. CASE upset'
  BY <1>1 DEF Reset!AttemptsAreResets
<1>2. CASE ~upset'
  <2>1. ~upset /\ marks' = [marks EXCEPT ![tok[r]] = @ + 1] /\ UNCHANGED <<attempts, tok>>
    BY <1>2 DEF Reset!ReportUse
  <2>2. pc[r] = "mark" /\ tok[r] \in Token /\ pc' = [pc EXCEPT ![r] = "done"]
    BY HolderHasRow DEF ResetInv, Reset!ReportUse, Reset!MayReport, Holding
  <2>3. ASSUME NEW t \in Token
        PROVE  attempts'[t] + marks'[t] = Cardinality(Done(t)')
    <3>1. attempts[t] \in Nat /\ marks[t] \in Nat /\ attempts[t] + marks[t] = Cardinality(Done(t))
      BY SameCount, <2>1
         DEF Reset!AttemptsAreResets, Done, ResetInv, Reset!TypeOK, LinksTypeOK,
             Reset!LinksTypeOK
    <3>2. CASE t = tok[r]
      <4>1. Done(t)' = Done(t) \cup {r} /\ r \notin Done(t) /\ Done(t) \in SUBSET Request
        BY <2>1, <2>2, <3>2 DEF Done, ResetInv, Reset!TypeOK
      <4>2. Cardinality(Done(t)') = Cardinality(Done(t)) + 1
        BY <4>1, OneMore
      <4>3. marks'[t] = marks[t] + 1 /\ attempts'[t] = attempts[t]
        BY <2>1, <2>2, <3>2 DEF ResetInv, Reset!TypeOK
      <4> QED
        BY <3>1, <4>2, <4>3
    <3>3. CASE t # tok[r]
      <4>1. Done(t)' = Done(t)
        BY <2>1, <2>2, <3>3 DEF Done, ResetInv, Reset!TypeOK
      <4>2. marks'[t] = marks[t] /\ attempts'[t] = attempts[t]
        BY <2>1, <2>2, <3>3 DEF ResetInv, Reset!TypeOK
      <4> QED
        BY <3>1, <4>1, <4>2
    <3> QED
      BY <3>2, <3>3
  <2> QED
    BY SameCount, <2>3 DEF Reset!AttemptsAreResets, Done
<1> QED
  BY <1>1, <1>2

LEMMA MarkCounts ==
  ASSUME ResetInv, Reset!AttemptsAreResets, NEW t \in Token, Reset!MarkTokenAsUsed(t)
  PROVE  Reset!AttemptsAreResets'
<1>1. CASE upset'
  BY <1>1 DEF Reset!AttemptsAreResets
<1>2. CASE ~upset'
  <2>1. ~upset /\ Spend(t, "USED") /\ UNCHANGED <<pc, tok>>
    BY SameEnds, <1>2 DEF Reset!MarkTokenAsUsed
  <2>2. ASSUME NEW u \in Token PROVE attempts'[u] + marks'[u] = attempts[u] + marks[u]
    <3>1. attempts[u] \in Nat /\ marks[u] \in Nat
      BY DEF ResetInv, Reset!TypeOK, LinksTypeOK, Reset!LinksTypeOK
    <3>2. /\ attempts'[u] = IF u = t THEN attempts[u] + 1 ELSE attempts[u]
          /\ marks'[u] = IF u = t THEN marks[u] - 1 ELSE marks[u]
      BY <2>1
         DEF Spend, Reset!Spend, Reset!MarkTokenAsUsed, ResetInv, Reset!TypeOK, LinksTypeOK,
             Reset!LinksTypeOK
    <3> QED
      BY <3>1, <3>2
  <2> QED
    BY <2>1, <2>2 DEF Reset!AttemptsAreResets
<1> QED
  BY <1>1, <1>2

LEMMA ResetCountsInit ==
  Reset!Init => Reset!AttemptsAreResets
<1> SUFFICES ASSUME Reset!Init, NEW t \in Token
             PROVE  attempts[t] + marks[t] = Cardinality(Done(t))
  BY SameCount DEF Reset!AttemptsAreResets, Done
<1>1. Done(t) = {}
  BY DEF Reset!Init, LinksInit, Reset!LinksInit, Done
<1> QED
  BY <1>1, FS_EmptySet DEF Reset!Init, LinksInit, Reset!LinksInit

LEMMA ResetCountsStep ==
  ASSUME IsFiniteSet(Request), ResetInv,
         Reset!AttemptsAreResets, [Reset!Next]_(Reset!vars)
  PROVE  Reset!AttemptsAreResets'
<1> USE DEF ResetInv, Reset!TypeOK, LinksTypeOK, Reset!LinksTypeOK
<1>1. ASSUME NEW r \in Request, Reset!SendPasswordResetEmail(r) PROVE Reset!AttemptsAreResets'
  BY <1>1, ResetCountsKept
     DEF Reset!SendPasswordResetEmail, CancelPending, Reset!CancelPending, Reset!resetVars
<1>2. ASSUME NEW r \in Request, Reset!CreateToken(r) PROVE Reset!AttemptsAreResets'
  BY <1>2, ResetCountsKept DEF Reset!CreateToken, Create, Reset!Create, Reset!resetVars
<1>3. ASSUME NEW r \in Request, Reset!SendMail(r) PROVE Reset!AttemptsAreResets'
  BY <1>3, ResetCountsKept DEF Reset!SendMail, Mail, Reset!Mail, Reset!resetVars
<1>4. ASSUME NEW r \in Request, NEW t \in Token,
             Reset!CheckLink(r, t) \/ Reset!ResetPassword(r, t)
      PROVE  Reset!AttemptsAreResets'
  BY <1>4, ResetCountsKept
     DEF Reset!CheckLink, Reset!ResetPassword, Open, Reset!Open, Judge, Reset!Judge,
         Reset!resetVars
<1>5. ASSUME NEW r \in Request, Reset!RefuseToken(r) PROVE Reset!AttemptsAreResets'
  BY <1>5, ResetCountsKept
     DEF Reset!RefuseToken, MarkRefused, Reset!MarkRefused, Reset!resetVars
<1>6. ASSUME NEW r \in Request, Reset!VerifyTimesOut(r) \/ Reset!StorePassword(r)
      PROVE  Reset!AttemptsAreResets'
  BY <1>6, ResetCountsKept DEF Reset!VerifyTimesOut, Reset!StorePassword, Reset!resetVars
<1>7. ASSUME NEW r \in Request, Reset!Failure(r) PROVE Reset!AttemptsAreResets'
  BY <1>7 DEF Reset!Failure, Fail, Reset!Fail, Reset!AttemptsAreResets
<1>8. ASSUME NEW t \in Token, Reset!LinkLapses(t) PROVE Reset!AttemptsAreResets'
  BY <1>8, ResetCountsKept DEF Reset!LinkLapses, Lapse, Reset!Lapse, Reset!resetVars
<1>9. CASE UNCHANGED Reset!vars
  BY <1>9, ResetCountsKept DEF Reset!vars, Reset!resetVars
<1> QED
  BY <1>1, <1>2, <1>3, <1>4, <1>5, <1>6, <1>7, <1>8, <1>9, ReportCounts, MarkCounts
     DEF Reset!Next

\* A link counts each reset it was used for exactly once, however many
\* requests use it and however its marks are delayed, until a failure.
THEOREM ResetsCounted ==
  ASSUME IsFiniteSet(Request) PROVE Reset!Spec => []Reset!AttemptsAreResets
<1>1. Reset!Init => Reset!AttemptsAreResets
  BY ResetCountsInit
<1>2. ResetInv /\ Reset!AttemptsAreResets /\ [Reset!Next]_(Reset!vars)
        => Reset!AttemptsAreResets'
  BY ResetCountsStep
<1>3. ResetInv /\ [Reset!Next]_(Reset!vars) => ResetInv'
  BY ResetInvStep
<1> QED
  BY <1>1, <1>2, <1>3, ResetInvInit, PTL DEF Reset!Spec
-----------------------------------------------------------------------------
(* The two tables in MCLinks *)

\* Each part keeps its own invariant, and the others stand still.
LinksInv ==
  /\ kind = "verification" => VerifyInv
  /\ kind = "reset" => ResetInv

LEMMA LinksInvInit == Init => LinksInv /\ NewestAlive
BY VerifyInvInit, ResetInvInit DEF Init, LinksInv, Verification!Init, LinksInit, NewestAlive

\* A step is one of the part the behaviour is about.
LEMMA LinkSteps ==
  ASSUME [Next]_all
  PROVE  /\ kind' = kind
         /\ kind = "verification" => [Verification!Next]_(Verification!vars)
         /\ kind = "reset" => [Reset!Next]_(Reset!vars)
         /\ kind \notin {"verification", "reset"} => UNCHANGED linkVars
BY DEF Next, HostedNext, all, NotVerification, NotReset, Verification!vars, Reset!vars,
       Verification!verifyVars, Reset!resetVars, verificationVars, resetVars

LEMMA LinksInvStep ==
  ASSUME LinksInv, [Next]_all
  PROVE  LinksInv'
BY LinkSteps, VerifyInvStep, ResetInvStep DEF LinksInv

\* No late write of another request revives a link of either table.
THEOREM DeadLinksStay == Spec => DeadLinksStayDead
<1>1. LinksInv /\ [Next]_all => LinksInv'
  BY LinksInvStep
<1>2. LinksInv /\ [Next]_all =>
        [\A t \in Token : status[t] # "none" /\ ~Acceptable(t)
                            => ~Acceptable(t)']_linkVars
  BY LinkSteps, VerifyInvStep, ResetInvStep DEF LinksInv, DeadStep
<1>3. Init => LinksInv
  BY LinksInvInit
<1> QED
  BY <1>1, <1>2, <1>3, PTL DEF Spec, DeadLinksStayDead

\* However sends overlap, the newest link of either table is alive, unless its
\* receiver cancelled it, a newer one is on its way or something failed.
THEOREM NewestLinkAlive == Spec => []NewestAlive
<1>1. ASSUME LinksInv, NewestAlive, [Next]_all PROVE NewestAlive'
  <2>1. CASE kind = "verification"
    BY <1>1, <2>1, LinkSteps, VerifyNewest DEF LinksInv
  <2>2. CASE kind = "reset"
    BY <1>1, <2>2, LinkSteps, ResetNewest DEF LinksInv
  <2>3. CASE kind \notin {"verification", "reset"}
    BY <1>1, <2>3, LinkSteps, StillNewest
  <2> QED
    BY <2>1, <2>2, <2>3
<1>2. LinksInv /\ [Next]_all => LinksInv'
  BY LinksInvStep
<1> QED
  BY <1>1, <1>2, LinksInvInit, PTL DEF Spec

\* A use is backed by what happened in the other database, and counted once.
THEOREM UsesCounted ==
  ASSUME IsFiniteSet(Request) PROVE Spec => []UsesAddUp
<1>1. Init => UsesAddUp
  <2> SUFFICES ASSUME Init PROVE UsesAddUp
    OBVIOUS
  <2>1. Verification!AttemptsAreSuccesses
    BY VerifyCountsInit DEF Init
  <2>2. Reset!AttemptsAreResets
    BY ResetCountsInit DEF Init
  <2> QED
    BY <2>1, <2>2, LinksInvInit DEF LinksInv, VerifyInv, ResetInv, UsesAddUp
<1>2. ASSUME LinksInv, UsesAddUp, [Next]_all PROVE UsesAddUp'
  <2>1. CASE kind = "verification"
    BY <1>2, <2>1, LinkSteps, VerifyInvStep, VerifyCountsStep
       DEF LinksInv, UsesAddUp, VerifyInv
  <2>2. CASE kind = "reset"
    BY <1>2, <2>2, LinkSteps, ResetInvStep, ResetCountsStep
       DEF LinksInv, UsesAddUp, ResetInv
  <2>3. CASE kind \notin {"verification", "reset"}
    BY <1>2, <2>3, LinkSteps DEF UsesAddUp
  <2> QED
    BY <2>1, <2>2, <2>3
<1>3. LinksInv /\ [Next]_all => LinksInv'
  BY LinksInvStep
<1> QED
  BY <1>1, <1>2, <1>3, LinksInvInit, PTL DEF Spec
=============================================================================
