---------------------------- MODULE MCRegistration ----------------------------
\* Registration for TLC: two requests race for one e-mail, a third is alone or
\* joins the race; whether each names a city is chosen by the configuration.
EXTENDS RegistrationSaga

CONSTANTS r1, r2, r3

Requests2 == {r1, r2}
Requests3 == {r1, r2, r3}
Emails    == {"ann", "bob"}
SameEmail == [r \in Requests2 |-> "ann"]
TwoSame   == [r \in Requests3 |-> IF r = r3 THEN "bob" ELSE "ann"]
AllSame   == [r \in Requests3 |-> "ann"]
OneCity   == {r1}
TwoCities == {r1, r2}
===============================================================================
