---------------------------- MODULE MCInventory ----------------------------
(***************************************************************************)
(* An instance of Inventory with two scenarios, one chosen at the start.   *)
(*   keys:  two requests that may share an idempotency key, each sent up   *)
(*          to twice, on one cell.                                         *)
(*   stock: one request of any kind beside every other service, on two     *)
(*          locations of different warehouses whose status also changes.   *)
(***************************************************************************)
EXTENDS Inventory

CONSTANTS p1, l1, l2, w1, w2, k1, r1, r2

VARIABLE scenario

MCProducts == {p1}
MCLocations == {l1, l2}
MCWarehouses == {w1, w2}
MCWarehouseOf == [l \in {l1, l2} |-> IF l = l1 THEN w1 ELSE w2]
MCRequests == {r1, r2}
MCKeys == {k1}
MCSwitchable == {p1, l1, w2}

(* The same entry with and without the key, and another command under it.  *)
Keyed == [command |-> Command("ENTRY", p1, 1, NoLocation, l1), key |-> k1]
OtherCommand == [command |-> Command("EXIT", p1, 1, l1, NoLocation), key |-> k1]
Keyless == [command |-> Command("ENTRY", p1, 1, NoLocation, l1), key |-> NoKey]

StockBodies ==
    {[command |-> Command("ENTRY", p1, 2, NoLocation, l1), key |-> NoKey],
     [command |-> Command("EXIT", p1, 1, l1, NoLocation), key |-> NoKey],
     [command |-> Command("ADJUSTMENT_IN", p1, 1, NoLocation, l2), key |-> NoKey],
     [command |-> Command("ADJUSTMENT_OUT", p1, 2, l1, NoLocation), key |-> NoKey],
     [command |-> Command("TRANSFER", p1, 1, l1, l2), key |-> NoKey]}

MCBodies == {Keyed, OtherCommand, Keyless} \cup StockBodies

Pair(b1, b2) == body = [r \in Requests |-> IF r = r1 THEN b1 ELSE b2]

(* The two requests are interchangeable: one order of each pair is enough. *)
MCInit ==
    /\ Init
    /\ \/ scenario = "keys" /\ \E b \in {Keyed, OtherCommand, Keyless} : Pair(Keyed, b)
       \/ scenario = "keys" /\ \E b \in {Keyed, OtherCommand, Keyless} : Pair(OtherCommand, b)
       \/ scenario = "stock" /\ \E b \in StockBodies : Pair(b, Keyless)

(* What the other scenario examines does not happen in this one.           *)
Within ==
    CASE scenario = "keys" ->
            /\ balance'[<<p1, l2>>] = 0
            /\ reserved'[<<p1, l2>>] = 0
            /\ underInventory' \subseteq {w1}
            /\ inactive' = {}
      [] scenario = "stock" -> pc'[r2] = "unsent" /\ attempt'[r1] = 1

MCSpec ==
    /\ MCInit
    /\ [][Next /\ Within /\ UNCHANGED scenario]_<<vars, scenario>>
    /\ \A r \in Requests : WF_vars(Handle(r))
=============================================================================
