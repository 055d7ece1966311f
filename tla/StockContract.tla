--------------------------- MODULE StockContract ---------------------------
(***************************************************************************)
(* What the stock subsystem as a whole promises, whichever service acts:   *)
(* physical stock never falls below what is reserved, and while a physical *)
(* count of a warehouse is open nothing enters, leaves or is promised      *)
(* there except the count's own adjustment.  Inventory, SalesFlow,         *)
(* InventoryCounts and Purchasing are each shown to implement this.        *)
(***************************************************************************)
EXTENDS StockRules

VARIABLES
    balance,         \* physical quantity of each cell
    reserved,        \* sum of the ACTIVE reservations of each cell
    underInventory   \* warehouses with an open physical count

vars == <<balance, reserved, underInventory>>

TypeOK ==
    /\ balance \in Balances
    /\ reserved \in Amounts
    /\ underInventory \in SUBSET Warehouses

(* README.md: physicalQuantity >= reservedQuantity, for every cell.        *)
ReservedWithinPhysical == \A c \in Cells : reserved[c] <= balance[c]

Init ==
    /\ balance \in Balances
    /\ reserved = NoAmount
    /\ underInventory = {}

Open(c) == WarehouseOf[c[2]] \notin underInventory

(* Stock enters, leaves or moves between cells; what leaves was available. *)
Move ==
    /\ balance' \in Balances
    /\ \A c \in Cells :
         \/ balance'[c] = balance[c]
         \/ Open(c) /\ (balance'[c] > balance[c] \/ balance'[c] >= reserved[c])
    /\ UNCHANGED <<reserved, underInventory>>

(* Available stock is promised.                                            *)
Hold ==
    /\ reserved' \in Balances
    /\ \A c \in Cells :
         \/ reserved'[c] = reserved[c]
         \/ Open(c) /\ reserved[c] < reserved'[c] /\ reserved'[c] <= balance[c]
    /\ UNCHANGED <<balance, underInventory>>

(* A promise is withdrawn, whether or not a count is open.                 *)
Free ==
    /\ reserved' \in Balances
    /\ \A c \in Cells : reserved'[c] <= reserved[c]
    /\ UNCHANGED <<balance, underInventory>>

(* Promised stock leaves: both quantities fall by the same amount.         *)
Ship ==
    /\ balance' \in Balances
    /\ reserved' \in Balances
    /\ \A c \in Cells :
         \/ balance'[c] = balance[c] /\ reserved'[c] = reserved[c]
         \/ Open(c) /\ reserved'[c] < reserved[c]
                    /\ balance[c] - balance'[c] = reserved[c] - reserved'[c]
    /\ UNCHANGED underInventory

OpenCount(w) ==
    /\ underInventory' = underInventory \cup {w}
    /\ UNCHANGED <<balance, reserved>>

CloseCount(w) ==
    /\ underInventory' = underInventory \ {w}
    /\ UNCHANGED <<balance, reserved>>

(* Approval sets the counted quantities and reopens the warehouse.         *)
ApproveCount(w) ==
    /\ w \in underInventory
    /\ underInventory' = underInventory \ {w}
    /\ balance' \in Balances
    /\ \A c \in Cells :
         \/ balance'[c] = balance[c]
         \/ c \in CellsOf(w) /\ (balance'[c] > balance[c] \/ balance'[c] >= reserved[c])
    /\ UNCHANGED reserved

Next ==
    \/ Move \/ Hold \/ Free \/ Ship
    \/ \E w \in Warehouses : OpenCount(w) \/ CloseCount(w) \/ ApproveCount(w)

Spec == Init /\ [][Next]_vars
=============================================================================
