------------------------- MODULE MCInventoryCounts -------------------------
(***************************************************************************)
(* Instances of InventoryCounts.  In the first, the supervisor decides:    *)
(*   waits:  when no request of a clerk on the count is open; one count of *)
(*           two locations by two clerks.                                  *)
(*   ~waits: at any moment; two counts of one location and one clerk,      *)
(*           while the product is switched off and on.                     *)
(* The others look at one count, two clerks and one location.              *)
(***************************************************************************)
EXTENDS InventoryCounts, TLC

CONSTANTS p1, l1, l2, w1, k1, k2

OneProduct == {p1}
OneLocation == {l1}
TwoLocations == {l1, l2}
OneWarehouse == {w1}
OneCount == {k1}
TwoCounts == {k1, k2}
InWarehouse == [l \in Locations |-> w1]
NoSwitches == {}
ProductSwitch == {p1}

(* Clerks are interchangeable, and so are the locations of the warehouse.  *)
Symmetry == Permutations(Clients) \cup Permutations(Locations)

UsedCells == {c \in Cells : c \in registered \/ \E k \in Counts : item[k][c] # NoItem}
OpenRequests == {t \in Clients : request[t] # NoRequest}

Within ==
    IF waits
      THEN status'[k2] = "NONE" /\ inactive' = {}
      ELSE Cardinality(UsedCells') <= 1 /\ Cardinality(OpenRequests') <= 1

MCSpec == Init /\ [][Next /\ Within]_vars
=============================================================================
