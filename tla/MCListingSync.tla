--------------------------- MODULE MCListingSync ---------------------------
(* The import of listings on a small feed.  Items and syncs differ in name  *)
(* only, so it is enough that one item is edited and one sync starts first. *)
(* An edit changes the title or the content, not both.                      *)
EXTENDS ListingSync

CONSTANTS v1, t1, s1

MCInit ==
  /\ Init
  /\ \A i \in Item : feed[i].ver = v1
  /\ feed[AnyItem].title = t1

MCSpec     == MCInit /\ [][Next]_vars
MCFairSpec == MCSpec /\ Fairness

SmallSteps ==
  /\ \A i \in Item \ {AnyItem} : feed'[i] = feed[i]
  /\ \A i \in Item : \/ feed'[i].title = feed[i].title
                     \/ feed'[i].ver = feed[i].ver
  /\ at'[s1] = "idle" => \A s \in Sync : at'[s] = "idle"
============================================================================
