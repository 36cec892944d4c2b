---------------------------- MODULE AuthSessions ----------------------------
(***************************************************************************)
(* The sessions of one registered user in apps/auth.  The refresh token    *)
(* the service will redeem is the single Redis key refresh_token:<userId>; *)
(* beside it the auth database has one row of table sessions per token     *)
(* handed out.  Every handler of auth.service.ts is a sequence of awaits,  *)
(* one action per await that changes state, and the handlers of the user's *)
(* devices interleave.  Different users share neither keys nor rows, so    *)
(* one user is the general case.                                           *)
(*                                                                         *)
(* A token is what its claims and the second of its minting make it (the   *)
(* JWT carries no id of its own): two mintings of one second may give the  *)
(* same token, two of different seconds never do.  A token is therefore    *)
(* named by the first minting that gave it, and a session row by the       *)
(* minting it was written for; its id, kind and expiry are left out.       *)
(* Audit rows, which nothing reads, and the read-only handlers are left    *)
(* out too.                                                                *)
(***************************************************************************)
EXTENDS Integers, FiniteSets

CONSTANTS
  Client,       \* tabs and devices of the user, each running one request at a
                \* time; those of one browser hold the same token
  MaxTokens,    \* bound on the refresh tokens minted
  Faults        \* Redis, the database and the process may fail

ASSUME AuthAssumption == MaxTokens \in Nat \ {0} /\ Faults \in BOOLEAN

Token   == 1 .. MaxTokens
NoToken == 0

VARIABLES
  store,   \* the value of refresh_token:<userId>, or NoToken
  row,     \* the session row written after each minting
  token,   \* what each minting gave
  minted,  \* number of mintings so far
  since,   \* how many of them were before the second of the last
  held,    \* the refresh token each client was last answered with
  pc,      \* where each client's request is
  arg,     \* the minting whose row that request will write or revoke
  upset    \* history: something has failed, or a logout has closed the row of
           \* a token that was stored after it had dropped the key

vars == <<store, row, token, minted, since, held, pc, arg, upset>>

\* "login": user and password checked, tokens not yet generated.
\* "refresh": the presented token matched, the RPCs to users and core run.
\* "record": the key is written, the session row is not.
\* "closeRows": logout has deleted the key.  "closeRow": revokeSession has
\* found its row.  "dropKey": rows are revoked, the key still stands.
Places == {"idle", "login", "refresh", "record", "closeRows", "closeRow",
           "dropKey"}

TypeOK ==
  /\ store \in Token \cup {NoToken}
  /\ row \in [Token -> {"none", "active", "revoked"}]
  /\ token \in [Token -> Token \cup {NoToken}]
  /\ minted \in 0 .. MaxTokens
  /\ since \in 0 .. minted
  /\ held \in [Client -> Token \cup {NoToken}]
  /\ pc \in [Client -> Places]
  /\ arg \in [Client -> Token \cup {NoToken}]
  /\ upset \in {"no", "logout", "fault"}

Init ==
  /\ store = NoToken
  /\ row = [n \in Token |-> "none"]
  /\ token = [n \in Token |-> NoToken]
  /\ minted = 0
  /\ since = 0
  /\ held = [c \in Client |-> NoToken]
  /\ pc = [c \in Client |-> "idle"]
  /\ arg = [c \in Client |-> NoToken]
  /\ upset = "no"

-----------------------------------------------------------------------------
(* redis.service.ts: a failed command is logged and forgotten *)

Fault == Faults /\ upset' = "fault"

SetKey(t) ==
  \/ store' = t /\ UNCHANGED upset
  \/ Fault /\ UNCHANGED store

\* Mutant: del reports success before it has been sent.
DelKeyForgotten == UNCHANGED <<store, upset>>

DelKey ==
  \/ store' = NoToken /\ UNCHANGED upset
  \/ Fault /\ UNCHANGED store

\* Mutant: the presented token is only checked for its signature.
MatchesSignature(t) == TRUE

\* A failed GET reads as a missing key, which the caller cannot tell apart.
Matches(t) == store # NoToken /\ store = t

\* The bound: every handler that will mint has a token reserved.
MayMint ==
  minted + Cardinality({c \in Client : pc[c] \in {"login", "refresh"}})
    < MaxTokens

Goto(c, place) == pc' = [pc EXCEPT ![c] = place]

\* Only a client that was once signed in carries an access token, and access
\* tokens are not blacklisted when the session ends.
Authenticated(c) == held[c] # NoToken

RevokeRows(ns) ==
  row' = [n \in Token |-> IF n \in ns /\ row[n] = "active" THEN "revoked"
                                                           ELSE row[n]]

-----------------------------------------------------------------------------
(* login *)

\* Credentials, e-mail and user state were accepted and the assignments
\* loaded; a refused login changes nothing but the audit log.
Login(c) ==
  /\ pc[c] = "idle" /\ MayMint
  /\ Goto(c, "login")
  /\ UNCHANGED <<store, row, token, minted, since, held, arg, upset>>

(* refreshTokens *)

\* The presented token equals the stored one; the handlers of two tabs may
\* both find it so before either goes on.
Refresh(c) ==
  /\ pc[c] = "idle" /\ Authenticated(c) /\ MayMint
  /\ Matches(held[c])
  /\ Goto(c, "refresh")
  /\ UNCHANGED <<store, row, token, minted, since, held, arg, upset>>

\* users or core fails, times out, or reports the user inactive: 401.
RefreshRefused(c) ==
  /\ pc[c] = "refresh"
  /\ Goto(c, "idle")
  /\ UNCHANGED <<store, row, token, minted, since, held, arg, upset>>

\* What signing may give in a second that began after so many mintings: a token
\* of its own, or one of that second's whose claims are the same.
Mintable(before) == {token[n] : n \in before + 1 .. minted} \cup {minted + 1}

\* generateTokenPair, then redis.set, whatever the key holds by now.  The second
\* is that of the last minting or another.
IssueToken(c) ==
  /\ pc[c] \in {"login", "refresh"} /\ minted < MaxTokens
  /\ minted' = minted + 1
  /\ since' \in {since, minted}
  /\ \E t \in Mintable(since') :
       /\ token' = [token EXCEPT ![minted + 1] = t]
       /\ SetKey(t)
  /\ arg' = [arg EXCEPT ![c] = minted + 1]
  /\ Goto(c, "record")
  /\ UNCHANGED <<row, held>>

\* Mutant: the row replaces the ones of later mintings.
InsertRowTruncating(n) ==
  row' = [m \in 1 .. n |-> IF m = n THEN "active" ELSE row[m]] /\ UNCHANGED upset

\* storeSession swallows a failed insert.
InsertRow(n) ==
  \/ row' = [row EXCEPT ![n] = "active"] /\ UNCHANGED upset
  \/ Fault /\ UNCHANGED row

\* Mutant: a client that is signed in is answered with the token it came with.
AnswerStale(c) ==
  held' = [held EXCEPT ![c] = IF held[c] = NoToken THEN token[arg[c]] ELSE held[c]]

Answer(c) == held' = [held EXCEPT ![c] = token[arg[c]]]

\* A row is added (refresh does not close the old one), and the client is
\* answered with its new tokens.
StoreSession(c) ==
  /\ pc[c] = "record"
  /\ InsertRow(arg[c])
  /\ Answer(c)
  /\ arg' = [arg EXCEPT ![c] = NoToken]
  /\ Goto(c, "idle")
  /\ UNCHANGED <<store, token, minted, since>>

-----------------------------------------------------------------------------
(* logout: key first, rows second *)

LogoutDropsKey(c) ==
  /\ pc[c] = "idle" /\ Authenticated(c)
  /\ DelKey
  /\ Goto(c, "closeRows")
  /\ UNCHANGED <<row, token, minted, since, held, arg>>

LogoutClosesRows(c) ==
  /\ pc[c] = "closeRows"
  /\ RevokeRows(Token)
  /\ upset' = IF store # NoToken /\ upset = "no" THEN "logout" ELSE upset
  /\ Goto(c, "idle")
  /\ UNCHANGED <<store, token, minted, since, held, arg>>

(* revokeSession and revokeAllSessions: rows first, key second *)

\* findFirst, unrevoked and the user's own; otherwise 404 and no change.
FindSession(c) ==
  /\ pc[c] = "idle" /\ Authenticated(c)
  /\ \E n \in Token : row[n] = "active" /\ arg' = [arg EXCEPT ![c] = n]
  /\ Goto(c, "closeRow")
  /\ UNCHANGED <<store, row, token, minted, since, held, upset>>

RevokeSession(c) ==
  /\ pc[c] = "closeRow"
  /\ RevokeRows({arg[c]})
  /\ Goto(c, "dropKey")
  /\ UNCHANGED <<store, token, minted, since, held, arg, upset>>

RevokeAllSessions(c) ==
  /\ pc[c] = "idle" /\ Authenticated(c)
  /\ RevokeRows(Token)
  /\ Goto(c, "dropKey")
  /\ UNCHANGED <<store, token, minted, since, held, arg, upset>>

\* The key is dropped whichever session it belongs to.
DropKey(c) ==
  /\ pc[c] = "dropKey"
  /\ DelKey
  /\ arg' = [arg EXCEPT ![c] = NoToken]
  /\ Goto(c, "idle")
  /\ UNCHANGED <<row, token, minted, since, held>>

-----------------------------------------------------------------------------
(* environment *)

\* The key's TTL runs out.
KeyExpires ==
  /\ store # NoToken
  /\ store' = NoToken
  /\ UNCHANGED <<row, token, minted, since, held, pc, arg, upset>>

\* Another tab, or another context of one app, takes over the token kept on the
\* device, so that two requests may present it at once.
Share(c, d) ==
  /\ Authenticated(c)
  /\ pc[d] = "idle" /\ held[d] = NoToken
  /\ held' = [held EXCEPT ![d] = held[c]]
  /\ UNCHANGED <<store, row, token, minted, since, pc, arg, upset>>

\* The process dies, a database call throws, or the connection is gone: the
\* handler stops where it is and the client is not answered with tokens.
Crash(c) ==
  /\ Fault /\ pc[c] # "idle"
  /\ arg' = [arg EXCEPT ![c] = NoToken]
  /\ Goto(c, "idle")
  /\ UNCHANGED <<store, row, token, minted, since, held>>

Next ==
  \/ \E c \in Client :
       \/ Login(c) \/ Refresh(c) \/ RefreshRefused(c)
       \/ IssueToken(c) \/ StoreSession(c)
       \/ LogoutDropsKey(c) \/ LogoutClosesRows(c)
       \/ FindSession(c) \/ RevokeSession(c)
       \/ RevokeAllSessions(c) \/ DropKey(c)
       \/ Crash(c)
       \/ \E d \in Client : Share(c, d)
  \/ KeyExpires

Spec == Init /\ [][Next]_vars

-----------------------------------------------------------------------------
(* Properties *)

Quiet == \A c \in Client : pc[c] = "idle"

\* The user is signed out: no token is stored and no handler that has passed
\* its checks is about to store one.
SignedOut ==
  /\ store = NoToken
  /\ \A c \in Client : pc[c] \notin {"login", "refresh"}

\* Out means out.  Once the user is signed out only a new login lets a token
\* back in: no refresh, replay of an old token, failed call or crash does,
\* whatever Redis and the database do.
SignedOutStaysOut ==
  [][(SignedOut /\ ~ \E c \in Client : Login(c)) => SignedOut']_vars

\* A session that can be continued is a session the user can see: unless
\* something failed or a sign-in passed between the two statements of a logout,
\* the stored token of a user without running requests has an unrevoked row, so
\* getSessions lists it and revokeSession can end it.
NoHiddenSession ==
  Quiet /\ upset = "no" /\ store # NoToken =>
    \E n \in 1 .. minted : token[n] = store /\ row[n] = "active"

\* The one token the service will redeem was handed to a client: refreshes that
\* race, two of one and the same token among them, and sign-ins and logouts in
\* between leave the user a client that can go on, as long as nothing fails.
LiveTokenIsHeld ==
  Quiet /\ upset # "fault" /\ store # NoToken =>
    \E c \in Client : held[c] = store

-----------------------------------------------------------------------------
(* The inductive invariant behind the two.  A stored token has its row, or   *)
(* its row is being written, or a request that revoked rows is yet to drop   *)
(* the key; and it is held by a client, or about to be handed to one.        *)

KnownMintings ==
  \A c \in Client : pc[c] = "record" => arg[c] \in 1 .. minted

Listed ==
  store # NoToken =>
    \/ \E n \in 1 .. minted : token[n] = store /\ row[n] = "active"
    \/ \E c \in Client : pc[c] = "record" /\ token[arg[c]] = store
    \/ \E c \in Client : pc[c] = "dropKey"

\* The token a client goes on with once its present request is answered.
Keeps(c) == IF pc[c] = "record" THEN token[arg[c]] ELSE held[c]

Held == store # NoToken => \E c \in Client : Keeps(c) = store

SessionInv ==
  /\ KnownMintings
  /\ upset = "no" => Listed
  /\ upset # "fault" => Held
=============================================================================
