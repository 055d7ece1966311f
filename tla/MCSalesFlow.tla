---------------------------- MODULE MCSalesFlow ----------------------------
(***************************************************************************)
(* An instance of SalesFlow with two scenarios, one chosen at the start.   *)
(*   races: one order of up to two products and two warehouses, two        *)
(*          clients whose update and confirm overlap with each other and   *)
(*          with cancel, reserve, release and ship.                        *)
(*   stock: two orders that compete for one product in two locations of a  *)
(*          warehouse, beside manual movements, counts and status changes. *)
(***************************************************************************)
EXTENDS SalesFlow, TLC

CONSTANTS o1, o2, p1, p2, l1, l2, l3, w1, w2, t1, t2

VARIABLE scenario

MCOrders == {o1, o2}
MCProducts == {p1, p2}
MCLocations == {l1, l2, l3}
MCWarehouses == {w1, w2}
MCClients == {t1, t2}
MCWarehouseOf == [l \in {l1, l2, l3} |-> IF l = l2 THEN w2 ELSE w1]
MCCodeOrder == <<l3, l2, l1>>
MCSwitchable == {p1, p2, l1, w2}

Items(n, m) == [p \in {p1, p2} |-> IF p = p1 THEN n ELSE m]
RaceItems == {Items(1, 1), Items(1, 0)}
StockItems == {Items(1, 0), Items(2, 0)}
MCItemChoices == RaceItems \cup StockItems

(* Cells that hold stock in a scenario, and how much.                      *)
Holds(cells, most) == \A c \in Cells : balance'[c] <= IF c \in cells THEN most ELSE 0
Asked(choices, w) ==
    /\ \A o \in Orders : status'[o] # "NONE" => items'[o] \in choices /\ warehouse'[o] \in w
    /\ \A t \in Clients : request'[t] # NoRequest =>
         request'[t].items \in choices /\ request'[t].warehouse \in w

(* What the other scenario examines does not happen in this one.           *)
Within ==
    CASE scenario = "races" ->
            /\ status'[o2] = "NONE"
            /\ Asked(RaceItems, {w1, w2})
            /\ Holds({p1, p2} \X {l1, l2}, 1)
            /\ inactive' \in {{}, {p2}, {w2}}
            /\ underInventory' \in {{}, {w1}}
      [] scenario = "stock" ->
            /\ Cardinality({t \in Clients : request'[t] # NoRequest}) <= 1
            /\ Asked(StockItems, {w1})
            /\ Holds({p1} \X {l1, l3}, 2)
            /\ inactive' \subseteq {p1, l1}
            /\ underInventory' \subseteq {w1}

(* Clients are interchangeable.                                            *)
Symmetry == Permutations(Clients)

MCInit == Init /\ scenario \in {"races", "stock"}

MCSpec ==
    /\ MCInit
    /\ [][Next /\ Within /\ UNCHANGED scenario]_<<vars, scenario>>
=============================================================================
