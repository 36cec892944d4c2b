--------------------------- MODULE Notifications ---------------------------
(***************************************************************************)
(* Delivery of notifications by apps/notification.  A request inserts a    *)
(* row and publishes a message that names it; mailed links publish one     *)
(* without a row, and the handler inserts it.  The message may be lost or  *)
(* doubled, is consumed without acknowledgement, and nothing looks for     *)
(* rows that stay PENDING.  The handler delivers first and notes the       *)
(* outcome in the row afterwards, in statements that may each be lost.     *)
(***************************************************************************)
EXTENDS Naturals

CONSTANTS
  Row,        \* ids of notifications
  Handler,    \* messages that may be handled at once
  MaxRetries, \* EmailService.maxRetries
  MaxCopies,  \* bound: copies of a message, a doubled one included
  None

RetriesAssumption == MaxRetries \in Nat \ {0} /\ MaxCopies \in Nat

Channel == {"EMAIL", "PUSH", "SMS", "IN_APP"}

VARIABLES
  row,      \* table notifications
  queued,   \* copies of the message that names the row
  mail,     \* a message of a mailed link waits: rows it may still become
  handler,  \* where each handler stands
  sent,     \* rows announced by NOTIFICATION_SENT
  failed,   \* rows announced by NOTIFICATION_FAILED
  handled,  \* history: handlers that began to serve the row
  mailed,   \* history: the mail server accepted a mail of the row
  unsure    \* history: rows with a mail accepted but reported as failed,
            \* a status that could not be written, or a handler that died

noteVars ==
  <<row, queued, mail, handler, sent, failed, handled, mailed, unsure>>

\* reason, language: whether the metadata holds failureReason and
\* resolvedLanguage.  address: whether it held the recipient's e-mail.
Notification ==
  [channel : Channel, address : BOOLEAN, status : {"PENDING", "SENT", "FAILED"},
   reason : BOOLEAN, language : BOOLEAN]

RowsAssumption == None \notin Notification

\* "fetch": waits for the user's e-mail.  "mail": sends it.  "push": waits
\* for the user whose devices are wanted.  "note": writes SENT.  "read" and
\* "write": adds the language to the metadata it has read.  "give up" and
\* "refuse": read the metadata, and "fail" writes FAILED and the reason.
Place == {"fetch", "mail", "push", "note", "read", "write", "give up", "refuse", "fail"}
Idle  == [at |-> "idle"]
Work  == [at : Place, row : Row, tries : 0 .. MaxRetries, reason : BOOLEAN,
          language : BOOLEAN]

TypeOK ==
  /\ row \in [Row -> Notification \cup {None}]
  /\ queued \in [Row -> 0 .. MaxCopies]
  /\ mail \in 0 .. MaxCopies
  /\ handler \in [Handler -> Work \cup {Idle}]
  /\ sent \in SUBSET Row /\ failed \in SUBSET Row /\ unsure \in SUBSET Row
  /\ handled \in [Row -> 0 .. MaxCopies + 1]
  /\ mailed \in SUBSET Row

Init ==
  /\ row = [n \in Row |-> None] /\ queued = [n \in Row |-> 0] /\ mail = 0
  /\ handler = [h \in Handler |-> Idle]
  /\ sent = {} /\ failed = {} /\ unsure = {}
  /\ handled = [n \in Row |-> 0] /\ mailed = {}

At(h, place)   == handler[h].at = place
N(h)           == handler[h].row
Goto(h, place) == handler' = [handler EXCEPT ![h].at = place]
Finish(h)      == handler' = [handler EXCEPT ![h] = Idle]
Blank(channel, address) ==
  [channel |-> channel, address |-> address, status |-> "PENDING",
   reason |-> FALSE, language |-> FALSE]
Unused == {n \in Row : row[n] = None}

-----------------------------------------------------------------------------

\* NotificationService.send, of a request or for each user of a bulk: the
\* row, and one message, or none, or two.  A request without an answer has
\* no row either.
Send(n) ==
  /\ n \in Unused
  /\ \E channel \in Channel, address \in BOOLEAN :
       row' = [row EXCEPT ![n] = Blank(channel, address)]
  /\ \E copies \in 0 .. MaxCopies : queued' = [queued EXCEPT ![n] = copies]
  /\ UNCHANGED <<mail, handler, sent, failed, handled, mailed, unsure>>

\* A mailed link: the message alone.
SendLink ==
  /\ mail = 0 /\ Unused # {}
  /\ mail' \in 1 .. MaxCopies
  /\ UNCHANGED <<row, queued, handler, sent, failed, handled, mailed, unsure>>

\* Where handleNotificationSend goes with the row: a mail whose address came
\* along needs no user.
First(n, r) ==
  CASE r.channel = "EMAIL" -> IF r.address THEN "mail" ELSE "fetch"
    [] r.channel = "PUSH"  -> "push"
    [] OTHER               -> "refuse"

Start(h, n, r) ==
  /\ handler' = [handler EXCEPT ![h] =
       [at |-> First(n, r), row |-> n, tries |-> 0, reason |-> FALSE, language |-> FALSE]]
  /\ handled' = [handled EXCEPT ![n] = @ + 1]

\* handleNotificationSend takes a message that names its row.
TakeNamed(h, n) ==
  /\ At(h, "idle") /\ queued[n] > 0
  /\ queued' = [queued EXCEPT ![n] = @ - 1]
  /\ Start(h, n, row[n])
  /\ UNCHANGED <<row, mail, sent, failed, mailed, unsure>>

\* handleNotificationSend takes the message of a link, by mail or by SMS, and
\* inserts the row; if that fails nothing is sent.
TakeLink(h) ==
  /\ At(h, "idle") /\ mail > 0
  /\ mail' = mail - 1
  /\ \/ \E n \in Unused, channel \in {"EMAIL", "SMS"} :
          /\ row' = [row EXCEPT ![n] = Blank(channel, TRUE)]
          /\ Start(h, n, Blank(channel, TRUE))
     \/ UNCHANGED <<row, handler, handled>>
  /\ UNCHANGED <<queued, sent, failed, mailed, unsure>>

\* handleEmailNotification asks users for the address: a guest has none, and
\* users may not answer within ten seconds.
FetchAddress(h) ==
  /\ At(h, "fetch")
  /\ Goto(h, "mail") \/ Goto(h, "give up")
  /\ UNCHANGED <<row, queued, mail, sent, failed, handled, mailed, unsure>>

\* EmailService.sendEmail: a mail the server took may be reported as failed.
Accepted(h, reported) ==
  /\ mailed' = mailed \cup {N(h)}
  /\ unsure' = IF reported THEN unsure ELSE unsure \cup {N(h)}

\* Mutant: the last failed try ends the loop and nothing is thrown.
TryMailQuietly(h) ==
  /\ At(h, "mail")
  /\ \/ Goto(h, "note") /\ Accepted(h, TRUE)
     \/ /\ Accepted(h, FALSE) \/ UNCHANGED <<mailed, unsure>>
        /\ IF handler[h].tries + 1 < MaxRetries
           THEN handler' = [handler EXCEPT ![h].tries = @ + 1]
           ELSE Goto(h, "note")
  /\ UNCHANGED <<row, queued, mail, sent, failed, handled>>

\* One try of sendEmailWithRetry.
TryMail(h) ==
  /\ At(h, "mail")
  /\ \/ Goto(h, "note") /\ Accepted(h, TRUE)
     \/ /\ Accepted(h, FALSE) \/ UNCHANGED <<mailed, unsure>>
        /\ IF handler[h].tries + 1 < MaxRetries
           THEN handler' = [handler EXCEPT ![h].tries = @ + 1]
           ELSE Goto(h, "give up")
  /\ UNCHANGED <<row, queued, mail, sent, failed, handled>>

\* FCMPushService.sendPushNotification: users does not answer, or the user
\* comes without tokens of devices - findOne selects none of the fields they
\* are looked for in - and the push counts as sent.
Push(h) ==
  /\ At(h, "push")
  /\ Goto(h, "note") \/ Goto(h, "give up")
  /\ UNCHANGED <<row, queued, mail, sent, failed, handled, mailed, unsure>>

-----------------------------------------------------------------------------

\* updateNotificationStatus(SENT) swallows its error.  A mail is announced
\* at once, a push after its metadata.
NoteSent(h) ==
  /\ At(h, "note")
  /\ \/ row' = [row EXCEPT ![N(h)].status = "SENT"] /\ UNCHANGED unsure
     \/ UNCHANGED row /\ unsure' = unsure \cup {N(h)}
  /\ IF row[N(h)].channel = "PUSH"
     THEN Goto(h, "read") /\ UNCHANGED sent
     ELSE Finish(h) /\ sent' = sent \cup {N(h)}
  /\ UNCHANGED <<queued, mail, failed, handled, mailed>>

\* handlePushNotification reads the metadata; its catch block takes over when
\* that fails, although the row says SENT.
ReadMetadata(h) ==
  /\ At(h, "read")
  /\ \/ handler' = [handler EXCEPT ![h].at = "write", ![h].reason = row[N(h)].reason]
     \/ Goto(h, "give up")
  /\ UNCHANGED <<row, queued, mail, sent, failed, handled, mailed, unsure>>

WriteLanguage(h) ==
  /\ At(h, "write")
  /\ \/ /\ row' = [row EXCEPT ![N(h)].reason = handler[h].reason,
                              ![N(h)].language = TRUE]
        /\ Finish(h) /\ sent' = sent \cup {N(h)}
     \/ Goto(h, "give up") /\ UNCHANGED <<row, sent>>
  /\ UNCHANGED <<queued, mail, failed, handled, mailed, unsure>>

\* updateNotificationStatus(FAILED) reads the metadata, on the way out of
\* the handler or for a channel it does not serve.  The error of the reading
\* skips the writing, and the failure is announced all the same.
GiveUp(h) ==
  /\ At(h, "give up") \/ At(h, "refuse")
  /\ \/ /\ handler' = [handler EXCEPT ![h].at = "fail",
                                      ![h].language = row[N(h)].language]
        /\ UNCHANGED <<failed, unsure>>
     \/ /\ Finish(h)
        /\ failed' = failed \cup {N(h)} /\ unsure' = unsure \cup {N(h)}
  /\ UNCHANGED <<row, queued, mail, sent, handled, mailed>>

\* Its writing.
NoteFailed(h) ==
  /\ At(h, "fail")
  /\ \/ /\ row' = [row EXCEPT ![N(h)].status = "FAILED", ![N(h)].reason = TRUE,
                              ![N(h)].language = handler[h].language]
        /\ UNCHANGED unsure
     \/ UNCHANGED row /\ unsure' = unsure \cup {N(h)}
  /\ Finish(h) /\ failed' = failed \cup {N(h)}
  /\ UNCHANGED <<queued, mail, sent, handled, mailed>>

\* The process stops: the message it was handling was acknowledged before.
Crash ==
  /\ \E h \in Handler : ~At(h, "idle")
  /\ handler' = [h \in Handler |-> Idle]
  /\ unsure' = unsure \cup {N(h) : h \in {k \in Handler : ~At(k, "idle")}}
  /\ UNCHANGED <<row, queued, mail, sent, failed, handled, mailed>>

Next ==
  \/ \E n \in Row : Send(n)
  \/ SendLink
  \/ \E h \in Handler, n \in Row : TakeNamed(h, n)
  \/ \E h \in Handler : TakeLink(h)
  \/ \E h \in Handler : FetchAddress(h)
  \/ \E h \in Handler : TryMail(h)
  \/ \E h \in Handler : Push(h)
  \/ \E h \in Handler : NoteSent(h)
  \/ \E h \in Handler : ReadMetadata(h)
  \/ \E h \in Handler : WriteLanguage(h)
  \/ \E h \in Handler : GiveUp(h)
  \/ \E h \in Handler : NoteFailed(h)
  \/ Crash

Spec == Init /\ [][Next]_noteVars

-----------------------------------------------------------------------------

InHand(n) == \E h \in Handler : ~At(h, "idle") /\ N(h) = n

\* The status of a mail tells what became of it.  SENT: the server has it.
\* FAILED: it has not, unless the message came twice or a mail it took was
\* reported as failed.  PENDING: it has not either, unless a handler is still
\* at work or could not note the outcome.  And a failure keeps its reason,
\* and the two announcements exclude each other, unless two handlers had the
\* same row.
StatusTells ==
  \A n \in Row : row[n] # None =>
    /\ row[n].status = "SENT" /\ row[n].channel = "EMAIL" => n \in mailed
    /\ row[n].status = "FAILED" /\ n \in mailed => handled[n] > 1 \/ n \in unsure
    /\ row[n].status = "PENDING" /\ n \in mailed => InHand(n) \/ n \in unsure
    /\ row[n].status = "FAILED" /\ ~row[n].reason => handled[n] > 1
    /\ n \in sent \cap failed => handled[n] > 1
=============================================================================
