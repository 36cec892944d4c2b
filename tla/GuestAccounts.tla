---------------------------- MODULE GuestAccounts ----------------------------
(***************************************************************************)
(* Accounts in table users that begin as the guest of a device and become  *)
(* registered ones (apps/users), and the guest sessions apps/auth opens    *)
(* for them.  Every handler awaits between what it checks and what it      *)
(* writes; a caller may give up after its timeout while the handler goes   *)
(* on, and the process of either may die.                                  *)
(*                                                                         *)
(* A row keeps what the checks look at: names, languages, photos and the   *)
(* flag isActive, which only the sign-in reads, are left out, and so are   *)
(* the events, which the handlers emit and forget.                         *)
(***************************************************************************)
EXTENDS TLAPS

CONSTANTS
  User,      \* ids of rows
  Device,    \* pairs of a device id and its platform
  Mail,
  Password,
  Call,      \* requests that may be under way at once
  Plain,     \* what create stores: the password, not its hash
  None

GuestAccountsAssumption ==
  /\ Plain \notin Password
  /\ None \notin Mail \cup Device \cup Password \cup {Plain}
  /\ None \notin {"GUEST", "REGISTERED", "guest", "registered"}

VARIABLES
  user,      \* table users
  key,       \* the kind of token at refresh_token:<userId>
  job,       \* what each request still has to do
  promised,  \* history: what the last success told the owner of an account
  disturbed  \* history: accounts two requests wrote at once, or Redis lost

guestVars == <<user, key, job, promised, disturbed>>

Row   == [type : {"GUEST", "REGISTERED"}, device : Device \cup {None},
          mail : Mail \cup {None}, password : Password \cup {Plain, None},
          deleted : BOOLEAN]
NoRow == [type |-> None]

\* The bearer of a job is apps/auth, or users alone, when the caller has
\* given up or the endpoint of users was called.
Via  == {"auth", "users"}
Idle == [at |-> "idle"]
Job  == [at : {"create", "insert"}, device : Device, via : Via]
          \cup [at : {"session"}, user : User]
          \cup [at : {"convert"}, user : User, mail : Mail, password : Password, via : Via]
          \cup [at : {"signIn"}, user : User]
          \cup [at : {"change"}, user : User, password : Password]

Promise == [mail : Mail, password : Password, signedIn : BOOLEAN]

TypeOK ==
  /\ user \in [User -> Row \cup {NoRow}]
  /\ key \in [User -> {"guest", "registered", None}]
  /\ job \in [Call -> Job \cup {Idle}]
  /\ promised \in [User -> Promise \cup {NoRow}]
  /\ disturbed \in SUBSET User

Init ==
  /\ user = [u \in User |-> NoRow] /\ key = [u \in User |-> None]
  /\ job = [k \in Call |-> Idle]
  /\ promised = [u \in User |-> NoRow] /\ disturbed = {}

At(k, place) == job[k].at = place
Do(k, todo)  == job' = [job EXCEPT ![k] = todo]
Finish(k)    == Do(k, Idle)

\* A change or a conversion of the same account, or a guest session for it,
\* that has read what this step is about to change.
Concurrent(k, u) ==
  \E j \in Call \ {k} :
    job[j].at \in {"session", "convert", "signIn", "change"} /\ job[j].user = u

Disturb(k, u) == disturbed' = IF Concurrent(k, u) THEN disturbed \cup {u} ELSE disturbed

MailTaken(mail) == \E u \in User : user[u] # NoRow /\ user[u].mail = mail

-----------------------------------------------------------------------------
(* Guests *)

\* Mutant: whatever account has the device is taken for its guest.
FoundByDevice(d) ==
  {u \in User : user[u] # NoRow /\ user[u].device = d /\ ~user[u].deleted}

\* findByDeviceId, and the first statement of createGuest.
FindByDeviceId(d) ==
  {u \in User : user[u].type = "GUEST" /\ user[u].device = d /\ ~user[u].deleted}

\* createGuestSession: the guest of the device, or users has to create it.
CreateGuestSession(k, d) ==
  /\ At(k, "idle")
  /\ \/ \E u \in FindByDeviceId(d) : Do(k, [at |-> "session", user |-> u])
     \/ /\ FindByDeviceId(d) = {}
        /\ Do(k, [at |-> "create", device |-> d, via |-> "auth"])
  /\ UNCHANGED <<user, key, promised, disturbed>>

\* POST /guest of users: the same without a session.
PostGuest(k, d) ==
  /\ At(k, "idle")
  /\ Do(k, [at |-> "create", device |-> d, via |-> "users"])
  /\ UNCHANGED <<user, key, promised, disturbed>>

Answer(k, u) ==
  IF job[k].via = "auth" THEN Do(k, [at |-> "session", user |-> u]) ELSE Finish(k)

\* createGuest looks once more.
CreateGuest(k) ==
  /\ At(k, "create")
  /\ \/ \E u \in FindByDeviceId(job[k].device) : Answer(k, u)
     \/ FindByDeviceId(job[k].device) = {} /\ Do(k, [job[k] EXCEPT !.at = "insert"])
  /\ UNCHANGED <<user, key, promised, disturbed>>

\* The unique index refuses a second row of a device, whatever became of the
\* first: the device of a converted or deleted guest gets no other.
InsertGuest(k) ==
  /\ At(k, "insert")
  /\ LET d == job[k].device
     IN  IF \E u \in User : user[u] # NoRow /\ user[u].device = d
         THEN Finish(k) /\ UNCHANGED user
         ELSE \E u \in {v \in User : user[v] = NoRow} :
                /\ user' = [user EXCEPT ![u] =
                     [type |-> "GUEST", device |-> d, mail |-> None,
                      password |-> None, deleted |-> FALSE]]
                /\ Answer(k, u)
  /\ UNCHANGED <<key, promised, disturbed>>

\* The rest of createGuestSession: the refresh token goes to Redis, which
\* may lose it.
StoreGuestToken(k) ==
  /\ At(k, "session")
  /\ key' \in {key, [key EXCEPT ![job[k].user] = "guest"]}
  /\ Finish(k)
  /\ UNCHANGED <<user, promised, disturbed>>

-----------------------------------------------------------------------------
(* Conversion *)

\* Only guests are converted, to an address no row has.
MayConvert(u, mail) == user[u].type = "GUEST" /\ ~MailTaken(mail)

\* convertGuestToUser up to the hashing of the password, called by auth or
\* by POST /guest/convert of users.
ConvertGuest(k, u) ==
  /\ At(k, "idle")
  /\ \E mail \in Mail, password \in Password, via \in Via :
       /\ MayConvert(u, mail)
       /\ Do(k, [at |-> "convert", user |-> u, mail |-> mail,
                 password |-> password, via |-> via])
  /\ UNCHANGED <<user, key, promised, disturbed>>

\* The update, by id alone; the unique index may refuse the address by now.
StoreConversion(k) ==
  /\ At(k, "convert")
  /\ LET u == job[k].user
     IN  IF MailTaken(job[k].mail) /\ user[u].mail # job[k].mail
         THEN Finish(k) /\ UNCHANGED <<user, promised, disturbed>>
         ELSE /\ user' = [user EXCEPT ![u].type = "REGISTERED",
                                      ![u].mail = job[k].mail,
                                      ![u].password = job[k].password]
              /\ promised' = [promised EXCEPT ![u] =
                   [mail |-> job[k].mail, password |-> job[k].password,
                    signedIn |-> FALSE]]
              /\ Disturb(k, u)
              /\ IF job[k].via = "auth" THEN Do(k, [at |-> "signIn", user |-> u])
                                        ELSE Finish(k)
  /\ UNCHANGED key

\* convertGuestToRegistered replaces the refresh token of the guest.
SignInConverted(k) ==
  /\ At(k, "signIn")
  /\ LET u == job[k].user
     IN  \/ /\ key' = [key EXCEPT ![u] = "registered"]
            /\ promised' = [promised EXCEPT ![u].signedIn = TRUE]
            /\ UNCHANGED disturbed
         \/ disturbed' = disturbed \cup {u} /\ UNCHANGED <<key, promised>>
  /\ Finish(k)
  /\ UNCHANGED user

-----------------------------------------------------------------------------
(* Other operations on accounts *)

\* changePassword: the current password is compared, the new one hashed.
\* Guests have none, and what create stored is no hash of anything.
ChangePassword(k, u) ==
  /\ At(k, "idle") /\ user[u] # NoRow /\ user[u].password \in Password
  /\ \E password \in Password :
       Do(k, [at |-> "change", user |-> u, password |-> password])
  /\ UNCHANGED <<user, key, promised, disturbed>>

StorePassword(k) ==
  /\ At(k, "change")
  /\ LET u == job[k].user
     IN  /\ user' = [user EXCEPT ![u].password = job[k].password]
         /\ promised' = [promised EXCEPT ![u].password = job[k].password]
         /\ Disturb(k, u)
  /\ Finish(k)
  /\ UNCHANGED key

\* POST /users: one statement, refused if the address is taken.
CreateUser(u) ==
  /\ user[u] = NoRow
  /\ \E mail \in Mail :
       /\ ~MailTaken(mail)
       /\ user' = [user EXCEPT ![u] =
            [type |-> "REGISTERED", device |-> None, mail |-> mail,
             password |-> Plain, deleted |-> FALSE]]
  /\ UNCHANGED <<key, job, promised, disturbed>>

\* DELETE /users/:id marks the row; its address and device stay taken.
DeleteUser(u) ==
  /\ user[u] # NoRow
  /\ user' = [user EXCEPT ![u].deleted = TRUE]
  /\ UNCHANGED <<key, job, promised, disturbed>>

\* The answer of users is lost or late: auth gives up, users does not.
GiveUp(k) ==
  /\ job[k].at \in {"create", "insert", "convert"} /\ job[k].via = "auth"
  /\ Do(k, [job[k] EXCEPT !.via = "users"])
  /\ UNCHANGED <<user, key, promised, disturbed>>

\* A process dies, or one of its statements fails.
BreakOff(k) ==
  /\ ~At(k, "idle")
  /\ Finish(k)
  /\ UNCHANGED <<user, key, promised, disturbed>>

Next ==
  \/ \E k \in Call, d \in Device : CreateGuestSession(k, d) \/ PostGuest(k, d)
  \/ \E k \in Call, u \in User : ConvertGuest(k, u) \/ ChangePassword(k, u)
  \/ \E k \in Call :
       \/ CreateGuest(k)
       \/ InsertGuest(k)
       \/ StoreGuestToken(k)
       \/ StoreConversion(k)
       \/ SignInConverted(k)
       \/ StorePassword(k)
       \/ GiveUp(k)
       \/ BreakOff(k)
  \/ \E u \in User : CreateUser(u) \/ DeleteUser(u)

Spec == Init /\ [][Next]_guestVars

(***************************************************************************)
(* Properties                                                              *)
(***************************************************************************)

\* A guest who was told the account is registered keeps it: the account has
\* the address and password of the last success, and no later start of the
\* app on the old device puts a guest's token in place of the one auth gave
\* out - unless two requests worked on the account at once, which nothing in
\* the code prevents, or Redis lost the token.
ConversionStands ==
  \A u \in User : promised[u] # NoRow /\ u \notin disturbed =>
    /\ user[u].type = "REGISTERED"
    /\ user[u].mail = promised[u].mail /\ user[u].password = promised[u].password
    /\ promised[u].signedIn => key[u] = "registered"

-----------------------------------------------------------------------------
(* Proof *)

Settled(u) == promised[u] # NoRow /\ u \notin disturbed

\* Nobody who works on a settled account has read it as a guest's.
JobInv(j) ==
  /\ j.at \in {"session", "convert", "signIn", "change"} => user[j.user] # NoRow
  /\ j.at \in {"signIn", "change"} => promised[j.user] # NoRow
  /\ j.at \in {"session", "convert"} => ~Settled(j.user)

\* Only accounts that were converted have the hash of a password.
UserInv(u) ==
  /\ user[u] = NoRow => promised[u] = NoRow
  /\ user[u] # NoRow /\ user[u].password \in Password => promised[u] # NoRow

AccountInv ==
  /\ TypeOK /\ ConversionStands
  /\ \A u \in User : UserInv(u)
  /\ \A k \in Call : JobInv(job[k])

LEMMA Rows == ASSUME GuestAccountsAssumption PROVE NoRow \notin Row \cup Promise
<1>1. ASSUME NoRow \in Row PROVE FALSE
  BY <1>1 DEF NoRow, Row, GuestAccountsAssumption
<1>2. ASSUME NoRow \in Promise PROVE FALSE
  <2>1. "mail" \in DOMAIN NoRow
    BY <1>2 DEF Promise
  <2>2. QED
    BY <2>1 DEF NoRow
<1>3. QED
  BY <1>1, <1>2

LEMMA AccountInit == ASSUME GuestAccountsAssumption, Init PROVE AccountInv
<1>1. TypeOK
  BY DEF Init, TypeOK
<1>2. QED
  BY <1>1 DEF Init, AccountInv, ConversionStands, UserInv, JobInv, Idle

\* What a step that only begins or ends jobs has to respect.
LEMMA JobStep ==
  ASSUME GuestAccountsAssumption, AccountInv, NEW k \in Call, NEW j \in Job \cup {Idle},
         Do(k, j), JobInv(j), UNCHANGED <<user, key, promised, disturbed>>
  PROVE  AccountInv'
<1>1. TypeOK'
  BY DEF AccountInv, TypeOK, Do
<1>2. ConversionStands' /\ \A u \in User : UserInv(u)'
  BY DEF AccountInv, ConversionStands, UserInv
<1>3. ASSUME NEW c \in Call PROVE JobInv(job[c])'
  <2>1. job'[c] \in {job[c], j}
    BY DEF AccountInv, TypeOK, Do
  <2>2. QED
    BY <2>1 DEF AccountInv, JobInv, Settled
<1>4. QED
  BY <1>1, <1>2, <1>3 DEF AccountInv

\* The jobs a finished request has left undisturbed.
LEMMA Others ==
  ASSUME AccountInv, NEW k \in Call, NEW u \in User, Disturb(k, u), u \notin disturbed'
  PROVE  \A c \in Call \ {k} :
           job[c].at \in {"session", "convert", "signIn", "change"} => job[c].user # u
BY DEF Disturb, Concurrent, AccountInv, TypeOK

LEMMA GuestSteps ==
  ASSUME GuestAccountsAssumption, AccountInv, NEW k \in Call, NEW d \in Device,
         CreateGuestSession(k, d) \/ PostGuest(k, d)
  PROVE  AccountInv'
<1>1. CASE PostGuest(k, d)
  <2> DEFINE j == [at |-> "create", device |-> d, via |-> "users"]
  <2>1. j \in Job /\ JobInv(j)
    BY DEF Job, Via, JobInv
  <2>2. QED
    BY <1>1, <2>1, JobStep DEF PostGuest
<1>2. CASE CreateGuestSession(k, d)
  <2>1. ASSUME NEW u \in FindByDeviceId(d), Do(k, [at |-> "session", user |-> u])
        PROVE  AccountInv'
    <3> DEFINE j == [at |-> "session", user |-> u]
    <3>1. j \in Job
      BY DEF Job, FindByDeviceId
    <3>2. user[u] # NoRow /\ ~Settled(u)
      BY DEF FindByDeviceId, AccountInv, ConversionStands, Settled, NoRow, GuestAccountsAssumption
    <3>3. JobInv(j)
      BY <3>2 DEF JobInv
    <3>4. QED
      BY <1>2, <2>1, <3>1, <3>3, JobStep DEF CreateGuestSession
  <2>2. ASSUME Do(k, [at |-> "create", device |-> d, via |-> "auth"]) PROVE AccountInv'
    <3> DEFINE j == [at |-> "create", device |-> d, via |-> "auth"]
    <3>1. j \in Job /\ JobInv(j)
      BY DEF Job, Via, JobInv
    <3>2. QED
      BY <1>2, <2>2, <3>1, JobStep DEF CreateGuestSession
  <2>3. QED
    BY <1>2, <2>1, <2>2 DEF CreateGuestSession
<1>3. QED
  BY <1>1, <1>2

LEMMA CreateGuestStep ==
  ASSUME GuestAccountsAssumption, AccountInv, NEW k \in Call, CreateGuest(k)
  PROVE  AccountInv'
<1>1. job[k].at = "create" /\ job[k] \in Job
  BY DEF AccountInv, TypeOK, CreateGuest, At, Idle
<1>2. job[k] \in [at : {"create", "insert"}, device : Device, via : Via]
  BY <1>1 DEF Job
<1>3. Idle \in Job \cup {Idle} /\ JobInv(Idle)
  BY DEF Idle, JobInv
<1>4. ASSUME NEW u \in FindByDeviceId(job[k].device), Answer(k, u) PROVE AccountInv'
  <2> DEFINE j == [at |-> "session", user |-> u]
  <2>1. j \in Job
    BY DEF Job, FindByDeviceId
  <2>2. user[u] # NoRow /\ ~Settled(u)
    BY DEF FindByDeviceId, AccountInv, ConversionStands, Settled, NoRow, GuestAccountsAssumption
  <2>3. JobInv(j)
    BY <2>2 DEF JobInv
  <2>4. QED
    BY <1>3, <1>4, <2>1, <2>3, JobStep DEF CreateGuest, Answer, Finish
<1>5. ASSUME Do(k, [job[k] EXCEPT !.at = "insert"]) PROVE AccountInv'
  <2> DEFINE j == [job[k] EXCEPT !.at = "insert"]
  <2>1. j \in Job /\ JobInv(j)
    BY <1>2 DEF Job, JobInv
  <2>2. QED
    BY <1>5, <2>1, JobStep DEF CreateGuest
<1>6. QED
  BY <1>4, <1>5 DEF CreateGuest

LEMMA InsertGuestStep ==
  ASSUME GuestAccountsAssumption, AccountInv, NEW k \in Call, InsertGuest(k)
  PROVE  AccountInv'
<1>1. Idle \in Job \cup {Idle} /\ JobInv(Idle)
  BY DEF Idle, JobInv
<1>2. ASSUME Finish(k), UNCHANGED user PROVE AccountInv'
  BY <1>1, <1>2, JobStep DEF InsertGuest, Finish
<1>3. ASSUME NEW u \in User, user[u] = NoRow,
             user' = [user EXCEPT ![u] =
               [type |-> "GUEST", device |-> job[k].device, mail |-> None,
                password |-> None, deleted |-> FALSE]],
             Answer(k, u)
      PROVE  AccountInv'
  <2> DEFINE row == [type |-> "GUEST", device |-> job[k].device, mail |-> None,
                     password |-> None, deleted |-> FALSE]
  <2>1. job[k] \in [at : {"create", "insert"}, device : Device, via : Via]
    BY DEF AccountInv, TypeOK, InsertGuest, At, Idle, Job
  <2>2. row \in Row /\ row # NoRow
    <3>1. row \in Row
      BY <2>1 DEF Row
    <3>2. QED
      BY <3>1, Rows
  <2>3. user' \in [User -> Row \cup {NoRow}] /\ \A v \in User \ {u} : user'[v] = user[v]
    BY <1>3, <2>2 DEF AccountInv, TypeOK
  <2>4. promised[u] = NoRow /\ UNCHANGED <<key, promised, disturbed>>
    BY <1>3 DEF AccountInv, UserInv, InsertGuest
  <2>5. job'[k] \in {Idle, [at |-> "session", user |-> u]} /\ \A c \in Call \ {k} : job'[c] = job[c]
    BY <1>3 DEF AccountInv, TypeOK, Answer, Finish, Do
  <2>6. TypeOK'
    <3>1. job' \in [Call -> Job \cup {Idle}]
      BY <1>3 DEF AccountInv, TypeOK, Answer, Finish, Do, Job
    <3>2. QED
      BY <2>3, <2>4, <3>1 DEF AccountInv, TypeOK
  <2>7. ConversionStands'
    BY <2>3, <2>4 DEF AccountInv, ConversionStands
  <2>8. ASSUME NEW v \in User PROVE UserInv(v)'
    <3>1. CASE v = u
      BY <1>3, <2>2, <2>4, <3>1 DEF UserInv, AccountInv, TypeOK, GuestAccountsAssumption
    <3>2. CASE v # u
      BY <2>3, <2>4, <3>2 DEF UserInv, AccountInv
    <3>3. QED
      BY <3>1, <3>2
  <2>9. ASSUME NEW c \in Call PROVE JobInv(job[c])'
    <3>1. user'[u] # NoRow
      BY <1>3, <2>2 DEF AccountInv, TypeOK
    <3>2. CASE c = k
      BY <2>4, <2>5, <3>1, <3>2 DEF JobInv, Idle, Settled
    <3>3. CASE c # k
      <4>1. job[c].at \in {"session", "convert", "signIn", "change"} => job[c].user \in User
        BY DEF AccountInv, TypeOK, Job, Idle
      <4>2. QED
        BY <2>3, <2>4, <2>5, <3>1, <3>3, <4>1 DEF JobInv, Settled, AccountInv
    <3>4. QED
      BY <3>2, <3>3
  <2>10. QED
    BY <2>6, <2>7, <2>8, <2>9 DEF AccountInv
<1>4. QED
  BY <1>2, <1>3 DEF InsertGuest

LEMMA StoreGuestTokenStep ==
  ASSUME GuestAccountsAssumption, AccountInv, NEW k \in Call, StoreGuestToken(k)
  PROVE  AccountInv'
<1>1. job[k].at = "session" /\ job[k].user \in User /\ ~Settled(job[k].user)
  BY DEF AccountInv, TypeOK, Job, Idle, JobInv, StoreGuestToken, At
<1>2. UNCHANGED <<user, promised, disturbed>>
  BY DEF StoreGuestToken
<1>3. TypeOK'
  BY <1>1 DEF AccountInv, TypeOK, StoreGuestToken, Finish, Do
<1>4. ConversionStands'
  BY <1>1, <1>2 DEF AccountInv, TypeOK, ConversionStands, StoreGuestToken, Settled
<1>5. ASSUME NEW u \in User PROVE UserInv(u)'
  BY <1>2 DEF AccountInv, UserInv
<1>6. ASSUME NEW c \in Call PROVE JobInv(job[c])'
  BY <1>2 DEF AccountInv, TypeOK, JobInv, Settled, StoreGuestToken, Finish, Do, Idle
<1>7. QED
  BY <1>3, <1>4, <1>5, <1>6 DEF AccountInv

LEMMA ConvertGuestStep ==
  ASSUME GuestAccountsAssumption, AccountInv, NEW k \in Call, NEW u \in User,
         ConvertGuest(k, u)
  PROVE  AccountInv'
<1> PICK mail \in Mail, password \in Password, via \in Via :
      /\ MayConvert(u, mail)
      /\ Do(k, [at |-> "convert", user |-> u, mail |-> mail,
                password |-> password, via |-> via])
  BY DEF ConvertGuest
<1> DEFINE j == [at |-> "convert", user |-> u, mail |-> mail,
                 password |-> password, via |-> via]
<1>1. j \in Job
  BY DEF Job
<1>2. user[u] # NoRow /\ ~Settled(u)
  BY DEF MayConvert, AccountInv, ConversionStands, Settled, NoRow, GuestAccountsAssumption
<1>3. JobInv(j)
  BY <1>2 DEF JobInv
<1>4. QED
  BY <1>1, <1>3, JobStep DEF ConvertGuest

\* An undisturbed conversion settles the account: no other request is at it.
LEMMA StoreConversionStep ==
  ASSUME GuestAccountsAssumption, AccountInv, NEW k \in Call, StoreConversion(k)
  PROVE  AccountInv'
<1> DEFINE u == job[k].user
<1>1. job[k] \in [at : {"convert"}, user : User, mail : Mail, password : Password, via : Via]
  BY DEF AccountInv, TypeOK, StoreConversion, At, Idle, Job
<1>2. u \in User /\ user[u] \in Row
  BY <1>1 DEF AccountInv, TypeOK, JobInv
<1>3. ASSUME Finish(k), UNCHANGED <<user, promised, disturbed>> PROVE AccountInv'
  <2>1. Idle \in Job \cup {Idle} /\ JobInv(Idle)
    BY DEF Idle, JobInv
  <2>2. QED
    BY <1>3, <2>1, JobStep DEF StoreConversion, Finish
<1>4. ASSUME user' = [user EXCEPT ![u].type = "REGISTERED", ![u].mail = job[k].mail,
                                  ![u].password = job[k].password],
             promised' = [promised EXCEPT ![u] =
               [mail |-> job[k].mail, password |-> job[k].password, signedIn |-> FALSE]],
             Disturb(k, u),
             job' = [job EXCEPT ![k] = [at |-> "signIn", user |-> u]] \/ Finish(k)
      PROVE  AccountInv'
  <2>1. /\ user'[u] \in Row /\ user'[u].type = "REGISTERED"
        /\ user'[u].mail = job[k].mail /\ user'[u].password = job[k].password
    BY <1>1, <1>2, <1>4 DEF AccountInv, TypeOK, Row
  <2>2. \A v \in User \ {u} : user'[v] = user[v] /\ promised'[v] = promised[v]
    BY <1>2, <1>4 DEF AccountInv, TypeOK
  <2>3. /\ promised'[u] \in Promise
        /\ promised'[u].mail = job[k].mail /\ promised'[u].password = job[k].password
        /\ ~promised'[u].signedIn
    BY <1>1, <1>2, <1>4 DEF AccountInv, TypeOK, Promise
  <2>4. user'[u] # NoRow /\ promised'[u] # NoRow
    BY <2>1, <2>3, Rows
  <2>5. UNCHANGED key
    BY DEF StoreConversion
  <2>6. disturbed \subseteq disturbed' /\ disturbed' \subseteq disturbed \cup {u}
    BY <1>4 DEF Disturb
  <2>7. /\ job'[k] \in {Idle, [at |-> "signIn", user |-> u]}
        /\ \A c \in Call \ {k} : job'[c] = job[c]
    BY <1>4 DEF AccountInv, TypeOK, Finish, Do
  <2>8. TypeOK'
    <3>1. job' \in [Call -> Job \cup {Idle}]
      BY <1>2, <1>4 DEF AccountInv, TypeOK, Finish, Do, Job
    <3>2. user' \in [User -> Row \cup {NoRow}]
      BY <1>2, <1>4, <2>1, <2>2 DEF AccountInv, TypeOK
    <3>3. promised' \in [User -> Promise \cup {NoRow}]
      BY <1>2, <1>4, <2>2, <2>3 DEF AccountInv, TypeOK
    <3>4. QED
      BY <1>2, <2>5, <2>6, <3>1, <3>2, <3>3 DEF AccountInv, TypeOK
  <2>9. ConversionStands'
    BY <2>1, <2>2, <2>3, <2>5, <2>6 DEF AccountInv, ConversionStands
  <2>10. ASSUME NEW v \in User PROVE UserInv(v)'
    BY <2>2, <2>4 DEF AccountInv, UserInv
  <2>11. ASSUME NEW c \in Call PROVE JobInv(job[c])'
    <3>1. CASE c = k
      BY <2>4, <2>7, <3>1 DEF JobInv, Idle
    <3>2. CASE c # k
      <4>1. job'[c] = job[c] /\ JobInv(job[c])
        BY <2>7, <3>2 DEF AccountInv
      <4>2. job[c].at \in {"session", "convert", "signIn", "change"} => job[c].user \in User
        BY DEF AccountInv, TypeOK, Job, Idle
      <4>3. CASE job[c].user = u
        BY <1>2, <1>4, <2>4, <3>2, <4>1, <4>3, Others DEF JobInv, Settled
      <4>4. CASE job[c].user # u
        BY <2>2, <2>6, <4>1, <4>2, <4>4 DEF JobInv, Settled
      <4>5. QED
        BY <4>3, <4>4
    <3>3. QED
      BY <3>1, <3>2
  <2>12. QED
    BY <2>8, <2>9, <2>10, <2>11 DEF AccountInv
<1>5. QED
  BY <1>3, <1>4 DEF StoreConversion, Do

LEMMA SignInConvertedStep ==
  ASSUME GuestAccountsAssumption, AccountInv, NEW k \in Call, SignInConverted(k)
  PROVE  AccountInv'
<1> DEFINE u == job[k].user
<1>1. job[k].at = "signIn" /\ u \in User /\ promised[u] \in Promise
  BY DEF AccountInv, TypeOK, Job, Idle, JobInv, SignInConverted, At
<1>2. UNCHANGED user /\ Finish(k)
  BY DEF SignInConverted
<1>3. promised' \in [User -> Promise \cup {NoRow}]
  <2>1. CASE UNCHANGED promised
    BY <2>1 DEF AccountInv, TypeOK
  <2>2. CASE promised' = [promised EXCEPT ![u].signedIn = TRUE]
    <3>1. [promised[u] EXCEPT !.signedIn = TRUE] \in Promise
      BY <1>1 DEF Promise
    <3>2. QED
      BY <2>2, <3>1 DEF AccountInv, TypeOK
  <2>3. QED
    BY <2>1, <2>2 DEF SignInConverted
<1>4. \A v \in User :
        /\ promised'[v] = NoRow <=> promised[v] = NoRow
        /\ promised'[v].mail = promised[v].mail
        /\ promised'[v].password = promised[v].password
  <2>1. CASE UNCHANGED promised
    BY <2>1
  <2>2. CASE promised' = [promised EXCEPT ![u].signedIn = TRUE]
    <3>1. /\ promised'[u] \in Promise
          /\ promised'[u].mail = promised[u].mail
          /\ promised'[u].password = promised[u].password
      BY <1>1, <2>2 DEF AccountInv, TypeOK, Promise
    <3>2. \A v \in User \ {u} : promised'[v] = promised[v]
      BY <2>2 DEF AccountInv, TypeOK
    <3>3. promised'[u] # NoRow /\ promised[u] # NoRow
      BY <1>1, <3>1, Rows
    <3>4. QED
      BY <3>1, <3>2, <3>3
  <2>3. QED
    BY <2>1, <2>2 DEF SignInConverted
<1>5. disturbed \subseteq disturbed' /\ disturbed' \subseteq User
  BY <1>1 DEF SignInConverted, AccountInv, TypeOK
<1>6. TypeOK'
  <2>1. job' \in [Call -> Job \cup {Idle}]
    BY <1>2 DEF AccountInv, TypeOK, Finish, Do
  <2>2. key' \in [User -> {"guest", "registered", None}]
    BY <1>1 DEF AccountInv, TypeOK, SignInConverted
  <2>3. QED
    BY <1>2, <1>3, <1>5, <2>1, <2>2 DEF AccountInv, TypeOK
<1>7. ConversionStands'
  <2>1. ASSUME NEW v \in User, promised'[v] # NoRow, v \notin disturbed', promised'[v].signedIn
        PROVE  key'[v] = "registered"
    BY <1>1, <2>1 DEF SignInConverted, AccountInv, TypeOK, ConversionStands
  <2>2. QED
    BY <1>2, <1>4, <1>5, <2>1 DEF AccountInv, ConversionStands
<1>8. ASSUME NEW v \in User PROVE UserInv(v)'
  BY <1>2, <1>4 DEF AccountInv, UserInv
<1>9. ASSUME NEW c \in Call PROVE JobInv(job[c])'
  <2>1. job'[c] \in {Idle, job[c]}
    BY <1>2 DEF AccountInv, TypeOK, Finish, Do
  <2>2. job[c].at \in {"session", "convert", "signIn", "change"} => job[c].user \in User
    BY DEF AccountInv, TypeOK, Job, Idle
  <2>3. QED
    BY <1>2, <1>4, <1>5, <2>1, <2>2 DEF AccountInv, JobInv, Settled, Idle
<1>10. QED
  BY <1>6, <1>7, <1>8, <1>9 DEF AccountInv

LEMMA ChangePasswordStep ==
  ASSUME GuestAccountsAssumption, AccountInv, NEW k \in Call, NEW u \in User,
         ChangePassword(k, u)
  PROVE  AccountInv'
<1> PICK password \in Password :
      Do(k, [at |-> "change", user |-> u, password |-> password])
  BY DEF ChangePassword
<1> DEFINE j == [at |-> "change", user |-> u, password |-> password]
<1>1. j \in Job
  BY DEF Job
<1>2. JobInv(j)
  BY DEF JobInv, ChangePassword, AccountInv, UserInv
<1>3. QED
  BY <1>1, <1>2, JobStep DEF ChangePassword

LEMMA StorePasswordStep ==
  ASSUME GuestAccountsAssumption, AccountInv, NEW k \in Call, StorePassword(k)
  PROVE  AccountInv'
<1> DEFINE u == job[k].user
           password == job[k].password
<1>1. job[k].at = "change" /\ u \in User /\ password \in Password
  BY DEF AccountInv, TypeOK, Job, Idle, StorePassword, At
<1>2. user[u] \in Row /\ promised[u] \in Promise
  BY <1>1 DEF AccountInv, TypeOK, JobInv
<1>3. /\ user' = [user EXCEPT ![u].password = password]
      /\ promised' = [promised EXCEPT ![u].password = password]
      /\ Disturb(k, u) /\ Finish(k) /\ UNCHANGED key
  BY DEF StorePassword
<1>4. /\ user'[u] \in Row /\ user'[u].type = user[u].type
      /\ user'[u].mail = user[u].mail /\ user'[u].password = password
  BY <1>1, <1>2, <1>3 DEF AccountInv, TypeOK, Row
<1>5. /\ promised'[u] \in Promise /\ promised'[u].mail = promised[u].mail
      /\ promised'[u].password = password /\ promised'[u].signedIn = promised[u].signedIn
  BY <1>1, <1>2, <1>3 DEF AccountInv, TypeOK, Promise
<1>6. \A v \in User \ {u} : user'[v] = user[v] /\ promised'[v] = promised[v]
  BY <1>1, <1>3 DEF AccountInv, TypeOK
<1>7. user'[u] # NoRow /\ promised'[u] # NoRow /\ promised[u] # NoRow
  BY <1>2, <1>4, <1>5, Rows
<1>8. disturbed \subseteq disturbed' /\ disturbed' \subseteq User
  BY <1>1, <1>3 DEF Disturb, AccountInv, TypeOK
<1>9. TypeOK'
  <2>1. job' \in [Call -> Job \cup {Idle}]
    BY <1>3 DEF AccountInv, TypeOK, Finish, Do
  <2>2. user' \in [User -> Row \cup {NoRow}]
    BY <1>1, <1>3, <1>4, <1>6 DEF AccountInv, TypeOK
  <2>3. promised' \in [User -> Promise \cup {NoRow}]
    BY <1>1, <1>3, <1>5, <1>6 DEF AccountInv, TypeOK
  <2>4. QED
    BY <1>3, <1>8, <2>1, <2>2, <2>3 DEF AccountInv, TypeOK
<1>10. ConversionStands'
  BY <1>3, <1>4, <1>5, <1>6, <1>7, <1>8 DEF AccountInv, ConversionStands
<1>11. ASSUME NEW v \in User PROVE UserInv(v)'
  BY <1>6, <1>7 DEF AccountInv, UserInv
<1>12. ASSUME NEW c \in Call PROVE JobInv(job[c])'
  <2>1. job'[c] \in {Idle, job[c]}
    BY <1>3 DEF AccountInv, TypeOK, Finish, Do
  <2>2. job[c].at \in {"session", "convert", "signIn", "change"} => job[c].user \in User
    BY DEF AccountInv, TypeOK, Job, Idle
  <2>3. QED
    BY <1>6, <1>7, <1>8, <2>1, <2>2 DEF AccountInv, JobInv, Settled, Idle
<1>13. QED
  BY <1>9, <1>10, <1>11, <1>12 DEF AccountInv

\* A new row is nobody's, and a mark on a row is neither its address nor its
\* password.
LEMMA RowSteps ==
  ASSUME GuestAccountsAssumption, AccountInv, NEW u \in User, CreateUser(u) \/ DeleteUser(u)
  PROVE  AccountInv'
<1>1. UNCHANGED <<key, job, promised, disturbed>>
  BY DEF CreateUser, DeleteUser
<1>2. ASSUME NEW row \in Row, user' = [user EXCEPT ![u] = row],
             promised[u] # NoRow =>
               /\ row.type = user[u].type /\ row.mail = user[u].mail
               /\ row.password = user[u].password,
             row.password \in Password => promised[u] # NoRow
      PROVE  AccountInv'
  <2>1. user' \in [User -> Row \cup {NoRow}]
    BY <1>2 DEF AccountInv, TypeOK
  <2>2. user'[u] = row /\ row # NoRow /\ \A v \in User \ {u} : user'[v] = user[v]
    BY <1>2, Rows DEF AccountInv, TypeOK
  <2>3. TypeOK'
    BY <1>1, <2>1 DEF AccountInv, TypeOK
  <2>4. ConversionStands'
    BY <1>1, <1>2, <2>2 DEF AccountInv, ConversionStands
  <2>5. ASSUME NEW v \in User PROVE UserInv(v)'
    BY <1>1, <1>2, <2>2 DEF AccountInv, UserInv
  <2>6. ASSUME NEW c \in Call PROVE JobInv(job[c])'
    <3>1. job[c].at \in {"session", "convert", "signIn", "change"} => job[c].user \in User
      BY DEF AccountInv, TypeOK, Job, Idle
    <3>2. QED
      BY <1>1, <2>2, <3>1 DEF AccountInv, JobInv, Settled
  <2>7. QED
    BY <2>3, <2>4, <2>5, <2>6 DEF AccountInv
<1>3. CASE CreateUser(u)
  <2> PICK mail \in Mail :
        user' = [user EXCEPT ![u] =
          [type |-> "REGISTERED", device |-> None, mail |-> mail,
           password |-> Plain, deleted |-> FALSE]]
    BY <1>3 DEF CreateUser
  <2> DEFINE row == [type |-> "REGISTERED", device |-> None, mail |-> mail,
                     password |-> Plain, deleted |-> FALSE]
  <2>1. row \in Row
    BY DEF Row
  <2>2. promised[u] = NoRow /\ row.password \notin Password
    BY <1>3 DEF CreateUser, AccountInv, UserInv, GuestAccountsAssumption
  <2>3. QED
    BY <1>2, <2>1, <2>2
<1>4. CASE DeleteUser(u)
  <2> DEFINE row == [user[u] EXCEPT !.deleted = TRUE]
  <2>1. user[u] \in Row
    BY <1>4 DEF DeleteUser, AccountInv, TypeOK
  <2>2. /\ row \in Row /\ row.type = user[u].type
        /\ row.mail = user[u].mail /\ row.password = user[u].password
    BY <2>1 DEF Row
  <2>3. user' = [user EXCEPT ![u] = row]
    BY <1>4 DEF DeleteUser
  <2>4. row.password \in Password => promised[u] # NoRow
    BY <1>4, <2>2 DEF DeleteUser, AccountInv, UserInv
  <2> HIDE DEF row
  <2>5. QED
    BY <1>2, <2>2, <2>3, <2>4
<1>5. QED
  BY <1>3, <1>4

LEMMA EndSteps ==
  ASSUME GuestAccountsAssumption, AccountInv, NEW k \in Call, GiveUp(k) \/ BreakOff(k)
  PROVE  AccountInv'
<1>1. CASE GiveUp(k)
  <2> DEFINE j == [job[k] EXCEPT !.via = "users"]
  <2>1. job[k] \in [at : {"create", "insert"}, device : Device, via : Via]
          \cup [at : {"convert"}, user : User, mail : Mail, password : Password, via : Via]
    BY <1>1 DEF GiveUp, AccountInv, TypeOK, Job, Idle
  <2>2. j \in Job /\ j.at = job[k].at
    BY <2>1 DEF Job, Via
  <2>3. j.at = "convert" => j.user = job[k].user
    BY <2>1
  <2>4. JobInv(j)
    BY <1>1, <2>2, <2>3 DEF GiveUp, AccountInv, JobInv
  <2>5. Do(k, j) /\ UNCHANGED <<user, key, promised, disturbed>>
    BY <1>1 DEF GiveUp
  <2> HIDE DEF j
  <2>6. QED
    BY <2>2, <2>4, <2>5, JobStep
<1>2. CASE BreakOff(k)
  <2>1. Idle \in Job \cup {Idle} /\ JobInv(Idle)
    BY DEF Idle, JobInv
  <2>2. QED
    BY <1>2, <2>1, JobStep DEF BreakOff, Finish
<1>3. QED
  BY <1>1, <1>2

LEMMA AccountStep ==
  ASSUME GuestAccountsAssumption, AccountInv, [Next]_guestVars
  PROVE  AccountInv'
<1>1. CASE UNCHANGED guestVars
  BY <1>1 DEF guestVars, AccountInv, TypeOK, ConversionStands, UserInv, JobInv, Settled
<1>2. CASE Next
  BY <1>2, GuestSteps, CreateGuestStep, InsertGuestStep, StoreGuestTokenStep,
     ConvertGuestStep, StoreConversionStep, SignInConvertedStep, ChangePasswordStep,
     StorePasswordStep, RowSteps, EndSteps
     DEF Next
<1>3. QED
  BY <1>1, <1>2

LEMMA AccountCorrect == ASSUME GuestAccountsAssumption PROVE Spec => []AccountInv
<1>1. Init => AccountInv
  BY AccountInit
<1>2. AccountInv /\ [Next]_guestVars => AccountInv'
  BY AccountStep
<1>3. QED
  BY <1>1, <1>2, PTL DEF Spec

\* A conversion that was answered stands, however many devices and requests
\* there are, whoever gives up or dies, and whatever Redis loses.
THEOREM AnsweredConversionStands ==
  ASSUME GuestAccountsAssumption PROVE Spec => []ConversionStands
<1>1. AccountInv => ConversionStands
  BY DEF AccountInv
<1>2. QED
  BY <1>1, AccountCorrect, PTL
=============================================================================
