---------------------------- MODULE MCAuthLogout ----------------------------
(* AuthSessions with one history variable: how far the last logout that no   *)
(* login accompanied or followed has come.                                   *)
EXTENDS AuthSessions

VARIABLE off

LogoutInit == Init /\ off = "no"

LogoutNext ==
  /\ Next
  /\ off' = IF \E c \in Client : Login(c) THEN "no"
            ELSE IF /\ \E c \in Client : LogoutDropsKey(c)
                    /\ \A c \in Client : pc[c] # "login"
                 THEN "running"
            ELSE IF off = "running" /\ \E c \in Client : LogoutClosesRows(c)
                 THEN "answered" ELSE off

LogoutSpec == LogoutInit /\ [][LogoutNext]_<<vars, off>>

\* Logout "invalidates the session": once it has been answered, and nobody has
\* logged in since it began, the service redeems no token of this user.
LogoutEndsSession == off = "answered" => store = NoToken
=============================================================================
