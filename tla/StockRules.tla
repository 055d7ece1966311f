----------------------------- MODULE StockRules -----------------------------
(***************************************************************************)
(* The vocabulary of physical stock and the rules every stock movement     *)
(* obeys, whoever asks for it: the checks and effects of                   *)
(* InventoryService.executeTransaction, the one routine through which      *)
(* manual movements, inventory counts, purchase receipts and shipments     *)
(* change a balance.  One company is modelled: every query of the service  *)
(* is scoped by companyId.                                                 *)
(***************************************************************************)
EXTENDS Integers, FiniteSets

CONSTANTS
    Products,      \* product ids of the company
    Locations,     \* stock location ids
    Warehouses,    \* warehouse ids
    WarehouseOf,   \* the warehouse each location belongs to
    NoLocation,    \* the absent side of a movement (NULL in the row)
    Capacity       \* largest quantity the NUMERIC(18,4) balance column holds

ASSUME WarehouseOfAssumption == WarehouseOf \in [Locations -> Warehouses]
ASSUME NoLocationAssumption == NoLocation \notin Locations
ASSUME CapacityAssumption == Capacity \in Nat

(* One InventoryBalance row per product and location; an absent row and a  *)
(* row of quantity 0 answer every check of a movement alike.               *)
Cells == Products \X Locations
CellsOf(w) == {c \in Cells : WarehouseOf[c[2]] = w}
Balances == [Cells -> 0..Capacity]

(* Quantities are positive decimals; an amount per cell may also be 0.     *)
Quantities == 1..Capacity
Amounts == [Cells -> Nat]
NoAmount == [c \in Cells |-> 0]

-----------------------------------------------------------------------------
(* Commands: the movement types and the sides each of them has.            *)

Command(type, p, q, src, dst) ==
    [type |-> type, productId |-> p, quantity |-> q,
     source |-> src, destination |-> dst]

Incoming == {Command(t, p, q, NoLocation, l) :
                t \in {"ENTRY", "ADJUSTMENT_IN"}, p \in Products,
                q \in Quantities, l \in Locations}
Outgoing == {Command(t, p, q, l, NoLocation) :
                t \in {"EXIT", "ADJUSTMENT_OUT"}, p \in Products,
                q \in Quantities, l \in Locations}
Transfers == {Command("TRANSFER", e[1], e[2], e[3], e[4]) :
                e \in {x \in Products \X Quantities \X Locations \X Locations :
                            x[3] # x[4]}}
Commands == Incoming \cup Outgoing \cup Transfers

Endpoints(cmd) == {cmd.source, cmd.destination} \ {NoLocation}
WarehousesOf(cmd) == {WarehouseOf[l] : l \in Endpoints(cmd)}

-----------------------------------------------------------------------------
(* The checks, in the order the routine makes them.                        *)

(* An inactive product blocks a movement unless the caller allows it; an   *)
(* inactive location or warehouse always does.                             *)
EndpointsUsable(inactive, cmd) ==
    /\ Endpoints(cmd) \cap inactive = {}
    /\ WarehousesOf(cmd) \cap inactive = {}
Usable(inactive, cmd) ==
    /\ cmd.productId \notin inactive
    /\ EndpointsUsable(inactive, cmd)

(* Fault: only the source warehouse is checked for an open count.          *)
FaultUnlockedSourceOnly(underInventory, cmd) ==
    \A l \in {cmd.source} \ {NoLocation} : WarehouseOf[l] \notin underInventory

(* No warehouse of the movement has a count that is IN_PROGRESS,           *)
(* RECOUNT_REQUIRED or READY_FOR_APPROVAL.                                 *)
Unlocked(underInventory, cmd) == WarehousesOf(cmd) \cap underInventory = {}

(* Fault: reservations are ignored, any physical stock may leave.          *)
FaultSufficientPhysical(balance, reserved, cmd, allowance) ==
    cmd.source # NoLocation => balance[<<cmd.productId, cmd.source>>] >= cmd.quantity

(* What is left at the source covers the active reservations that the      *)
(* movement itself does not consume.                                       *)
Sufficient(balance, reserved, cmd, allowance) ==
    cmd.source # NoLocation =>
        LET cell == <<cmd.productId, cmd.source>>
            remaining == balance[cell] - cmd.quantity
        IN  /\ remaining >= 0
            /\ remaining >= reserved[cell] - allowance

(* The signed change a movement makes to a cell: the decrement of the      *)
(* source row, then the upsert of the destination row.                     *)
Out(cmd, c) == IF c = <<cmd.productId, cmd.source>> THEN cmd.quantity ELSE 0
In(cmd, c) == IF c = <<cmd.productId, cmd.destination>> THEN cmd.quantity ELSE 0
Moved(balance, cmd) == [c \in Cells |-> (balance[c] - Out(cmd, c)) + In(cmd, c)]

(* An update beyond the column's precision fails and aborts everything.    *)
Fits(balance) == \A c \in Cells : balance[c] <= Capacity
=============================================================================
