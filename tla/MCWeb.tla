-------------------------------- MODULE MCWeb --------------------------------
(***************************************************************************)
(* An instance of Web: two users of whom one may only cancel and settle;   *)
(* two requests under way; two events of equal or different content, two   *)
(* clicks before the button is redrawn, one page left and entered again;   *)
(* two filters and pages of one row.                                       *)
(***************************************************************************)
EXTENDS Web

CONSTANTS i1, i2, x1, x2, f1, f2

(* A user with every permission, and one who may only cancel and settle.   *)
TwoGrants ==
    {EveryPermission,
     {"sales_orders.cancel", "purchase_orders.cancel", "inventory_counts.cancel",
      "inventory_counts.approve", "finance.settle"}}

(* Events are alike, and so are contents: the first to be sent is i1 as x1. *)
FirstIsAny ==
    requests = <<>> => typed'.intent \in {NoIntent, i1} /\ typed'.content \in {x1, F!Empty.content}

MCSpec == WebInit /\ [][WebNext /\ FirstIsAny]_webVars /\ WebFairness
==============================================================================
