-------------------------- MODULE InventoryCounts --------------------------
(***************************************************************************)
(* InventoryCountsService: physical counts of a warehouse, from the        *)
(* snapshot taken at their start to the adjustments made at approval.      *)
(*                                                                         *)
(* start, requestRecount, approve and cancel lock the count's row in a     *)
(* SERIALIZABLE transaction and addItem locks it too: one step each.       *)
(* countItem and recountItem run at READ COMMITTED and lock nothing: they  *)
(* read the status and write later, so another user may act in between.    *)
(***************************************************************************)
EXTENDS StockRules

CONSTANTS
    Counts,      \* inventory count ids
    Clients,     \* clerks whose requests may overlap
    NoRequest,   \* a clerk with no transaction open
    NoItem,      \* no InventoryCountItem row
    NotCounted,  \* NULL in firstCountQuantity or recountQuantity
    Switchable   \* catalogue rows whose isActive changes (bound)

ASSUME NotCountedAssumption == NotCounted \notin Nat
ASSUME CountsWarehousesAssumption == Warehouses # {}  \* warehouseId is NOT NULL
ASSUME CountsSwitchableAssumption ==
    Switchable \subseteq Products \cup Locations \cup Warehouses

VARIABLES
    status,      \* InventoryCount.status; NONE before the row exists
    warehouse,   \* InventoryCount.warehouseId
    item,        \* the InventoryCountItem row of count and cell
    adjusted,    \* per count and cell, the sum of its INVENTORY movements, signed
    request,     \* what each clerk's open transaction has read and will write
    balance,     \* InventoryBalance.quantity
    registered,  \* the cells that have an InventoryBalance row
    reserved,    \* sum of the ACTIVE StockReservation rows per cell
    inactive,    \* products, locations and warehouses with isActive = false
    waits        \* does the supervisor wait for the clerks' requests? never changes

countVars == <<status, warehouse, item>>
stockVars == <<balance, registered, adjusted>>
vars == <<countVars, stockVars, request, reserved, inactive, waits>>

Locking == {"IN_PROGRESS", "RECOUNT_REQUIRED", "READY_FOR_APPROVAL"}
Open == Locking \cup {"DRAFT"}
Decided == {"APPROVED", "CANCELLED"}

Quantity == 0..Capacity
ItemRows == [system : Quantity, first : Quantity \cup {NotCounted},
             recount : Quantity \cup {NotCounted}]
RequestRecords == [op : {"count", "recount"}, count : Counts, cell : Cells,
                   quantity : Quantity, written : BOOLEAN, completes : BOOLEAN]

ASSUME NoItemAssumption == NoItem \notin ItemRows
ASSUME NoRequestAssumption == NoRequest \notin RequestRecords

(* Types: quantities of rows are within their column.                      *)
TypeOK ==
    /\ status \in [Counts -> Open \cup Decided \cup {"NONE"}]
    /\ warehouse \in [Counts -> Warehouses]
    /\ item \in [Counts -> [Cells -> ItemRows \cup {NoItem}]]
    /\ adjusted \in [Counts -> [Cells -> Int]]
    /\ request \in [Clients -> RequestRecords \cup {NoRequest}]
    /\ balance \in Balances
    /\ registered \in SUBSET Cells
    /\ reserved \in Amounts
    /\ inactive \in SUBSET Switchable
    /\ waits \in BOOLEAN

Init ==
    /\ status = [k \in Counts |-> "NONE"]
    /\ warehouse \in [Counts -> {CHOOSE w \in Warehouses : TRUE}]
    /\ item = [k \in Counts |-> [c \in Cells |-> NoItem]]
    /\ adjusted = [k \in Counts |-> NoAmount]
    /\ request = [t \in Clients |-> NoRequest]
    /\ balance = NoAmount
    /\ registered = {}
    /\ reserved = NoAmount
    /\ inactive = {}
    /\ waits \in BOOLEAN

-----------------------------------------------------------------------------
(* What the rows say.                                                      *)

underInventory == {warehouse[k] : k \in {j \in Counts : status[j] \in Locking}}

(* Partial unique index: one open count per warehouse.                     *)
OnlyOpenCount(k, w) ==
    \A j \in Counts \ {k} : ~(warehouse[j] = w /\ status[j] \in Open)

ItemsOf(k) == {c \in Cells : item[k][c] # NoItem}
Divergent(row) == row.first # NotCounted /\ row.first # row.system
FinalQuantity(row) == IF row.first = row.system THEN row.first ELSE row.recount

(* Fault: the difference of the first count is applied.                    *)
FaultFirstDifference(row) == row.first - row.system

Difference(row) == FinalQuantity(row) - row.system

(* A row another transaction has written and not yet committed.            *)
HeldByOther(t, k, c) ==
    \E u \in Clients \ {t} :
        /\ request[u] # NoRequest
        /\ request[u].written /\ request[u].count = k /\ request[u].cell = c

(* A count is decided while a request of a clerk on it is open, or not.    *)
Undisturbed(k) ==
    waits => \A t \in Clients : request[t] # NoRequest => request[t].count # k

-----------------------------------------------------------------------------
(* The supervisor's operations.                                            *)

(* The two checks precede the transaction; the unique index repeats the    *)
(* second, and a warehouse that is deactivated meanwhile leaves the same   *)
(* rows as one deactivated afterwards.                                     *)
create(k, w) ==
    /\ status[k] = "NONE"
    /\ w \notin inactive
    /\ OnlyOpenCount(k, w)
    /\ status' = [status EXCEPT ![k] = "DRAFT"]
    /\ warehouse' = [warehouse EXCEPT ![k] = w]
    /\ UNCHANGED <<item, stockVars, request, reserved, inactive>>

(* The snapshot: one item per balance row of the warehouse.                *)
start(k) ==
    /\ status[k] = "DRAFT"
    /\ warehouse[k] \notin inactive
    /\ item' = [item EXCEPT ![k] = [c \in Cells |->
         IF c \in registered \cap CellsOf(warehouse[k])
           THEN [system |-> balance[c], first |-> NotCounted, recount |-> NotCounted]
           ELSE NoItem]]
    /\ status' = [status EXCEPT ![k] = "IN_PROGRESS"]
    /\ UNCHANGED <<warehouse, stockVars, request, reserved, inactive>>

(* Goods found where the system has no balance row.                        *)
addItem(k, c) ==
    /\ status[k] = "IN_PROGRESS"
    /\ c \in CellsOf(warehouse[k])
    /\ {c[1], c[2], warehouse[k]} \cap inactive = {}
    /\ c \notin registered
    /\ item[k][c] = NoItem
    /\ item' = [item EXCEPT ![k][c] =
         [system |-> 0, first |-> NotCounted, recount |-> NotCounted]]
    /\ UNCHANGED <<status, warehouse, stockVars, request, reserved, inactive>>

(* Ends the first count, or reopens the recount of what differs.           *)
requestRecount(k) ==
    LET divergent == {c \in ItemsOf(k) : Divergent(item[k][c])}
    IN  /\ status[k] \in {"IN_PROGRESS", "READY_FOR_APPROVAL"}
        /\ Undisturbed(k)
        /\ ItemsOf(k) # {}
        /\ \A c \in ItemsOf(k) : item[k][c].first # NotCounted
        /\ IF status[k] = "READY_FOR_APPROVAL"
             THEN /\ \A t \in Clients, c \in divergent : ~HeldByOther(t, k, c)
                  /\ item' = [item EXCEPT ![k] = [c \in Cells |->
                       IF c \in divergent THEN [@[c] EXCEPT !.recount = NotCounted]
                                          ELSE @[c]]]
             ELSE UNCHANGED item
        /\ status' = [status EXCEPT ![k] =
             IF divergent # {} THEN "RECOUNT_REQUIRED" ELSE "READY_FOR_APPROVAL"]
        /\ UNCHANGED <<warehouse, stockVars, request, reserved, inactive>>

(* The adjustment of one item; nothing is moved when nothing differs.      *)
Adjusts(k) == {c \in ItemsOf(k) : Difference(item[k][c]) # 0}
Adjustment(k, c) ==
    LET d == Difference(item[k][c])
    IN  IF d > 0 THEN Command("ADJUSTMENT_IN", c[1], d, NoLocation, c[2])
                 ELSE Command("ADJUSTMENT_OUT", c[1], -d, c[2], NoLocation)

(* Every adjustment goes through the movement routine, the lock bypassed;  *)
(* one that is refused rolls all of them back.                             *)
ApplyAdjustments(k) ==
    LET moved == [c \in Cells |->
            balance[c] + (IF c \in Adjusts(k) THEN Difference(item[k][c]) ELSE 0)]
    IN  /\ \A c \in Adjusts(k) : /\ Usable(inactive, Adjustment(k, c))
                                 /\ Sufficient(balance, reserved, Adjustment(k, c), 0)
        /\ Fits(moved)
        /\ balance' = moved
        /\ registered' = registered \cup Adjusts(k)
        /\ adjusted' = [adjusted EXCEPT ![k] = [c \in Cells |->
             @[c] + (IF c \in Adjusts(k) THEN Difference(item[k][c]) ELSE 0)]]

approve(k) ==
    /\ status[k] = "READY_FOR_APPROVAL"
    /\ Undisturbed(k)
    /\ ItemsOf(k) # {}
    /\ \A c \in ItemsOf(k) : NotCounted \notin {item[k][c].first, FinalQuantity(item[k][c])}
    /\ ApplyAdjustments(k)
    /\ status' = [status EXCEPT ![k] = "APPROVED"]
    /\ UNCHANGED <<warehouse, item, request, reserved, inactive>>

cancel(k) ==
    /\ status[k] \in Open
    /\ Undisturbed(k)
    /\ status' = [status EXCEPT ![k] = "CANCELLED"]
    /\ UNCHANGED <<warehouse, item, stockVars, request, reserved, inactive>>

-----------------------------------------------------------------------------
(* The clerks' operations.                                                 *)

BeginCount(t, k, c, q) ==
    /\ request[t] = NoRequest
    /\ status[k] = "IN_PROGRESS"
    /\ c \in ItemsOf(k)
    /\ request' = [request EXCEPT ![t] =
         [op |-> "count", count |-> k, cell |-> c, quantity |-> q,
          written |-> FALSE, completes |-> FALSE]]
    /\ UNCHANGED <<countVars, stockVars, reserved, inactive>>

CommitCount(t) ==
    LET r == request[t]
    IN  /\ r # NoRequest
        /\ r.op = "count"
        /\ ~HeldByOther(t, r.count, r.cell)
        /\ item' = [item EXCEPT ![r.count][r.cell].first = r.quantity]
        /\ request' = [request EXCEPT ![t] = NoRequest]
        /\ UNCHANGED <<status, warehouse, stockVars, reserved, inactive>>

BeginRecount(t, k, c, q) ==
    /\ request[t] = NoRequest
    /\ status[k] = "RECOUNT_REQUIRED"
    /\ c \in ItemsOf(k)
    /\ Divergent(item[k][c])
    /\ request' = [request EXCEPT ![t] =
         [op |-> "recount", count |-> k, cell |-> c, quantity |-> q,
          written |-> FALSE, completes |-> FALSE]]
    /\ UNCHANGED <<countVars, stockVars, reserved, inactive>>

(* No other committed item still waits for its recount.                    *)
NothingPending(k, c) ==
    \A d \in ItemsOf(k) \ {c} :
        Divergent(item[k][d]) => item[k][d].recount # NotCounted

(* The item is written, not yet committed, and the items are read again.   *)
WriteRecount(t) ==
    LET r == request[t]
    IN  /\ r # NoRequest
        /\ r.op = "recount"
        /\ ~r.written
        /\ ~HeldByOther(t, r.count, r.cell)
        /\ request' = [request EXCEPT ![t] =
             [@ EXCEPT !.written = TRUE, !.completes = NothingPending(r.count, r.cell)]]
        /\ UNCHANGED <<countVars, stockVars, reserved, inactive>>

(* Fault: the unique index does not cover the write of the status.         *)
FaultCommitRecountBesideOpenCount(t) ==
    LET r == request[t]
    IN  /\ r # NoRequest
        /\ r.op = "recount"
        /\ r.written
        /\ item' = [item EXCEPT ![r.count][r.cell].recount = r.quantity]
        /\ status' = IF r.completes
                       THEN [status EXCEPT ![r.count] = "READY_FOR_APPROVAL"] ELSE status
        /\ request' = [request EXCEPT ![t] = NoRequest]
        /\ UNCHANGED <<warehouse, stockVars, reserved, inactive>>

(* The last recount makes the count ready, by an update of the row by id;  *)
(* the unique index refuses it if another count is open by now.            *)
CommitRecount(t) ==
    LET r == request[t]
    IN  /\ r # NoRequest
        /\ r.op = "recount"
        /\ r.written
        /\ r.completes => OnlyOpenCount(r.count, warehouse[r.count])
        /\ item' = [item EXCEPT ![r.count][r.cell].recount = r.quantity]
        /\ status' = IF r.completes
                       THEN [status EXCEPT ![r.count] = "READY_FOR_APPROVAL"] ELSE status
        /\ request' = [request EXCEPT ![t] = NoRequest]
        /\ UNCHANGED <<warehouse, stockVars, reserved, inactive>>

(* The transaction fails or its connection dies.                           *)
Rollback(t) ==
    /\ request[t] # NoRequest
    /\ request' = [request EXCEPT ![t] = NoRequest]
    /\ UNCHANGED <<countVars, stockVars, reserved, inactive>>

-----------------------------------------------------------------------------
(* The same stock in the hands of other services.                          *)

(* InventoryService: a manual movement; a destination row is upserted.     *)
Movement(cmd) ==
    /\ Usable(inactive, cmd)
    /\ Unlocked(underInventory, cmd)
    /\ Sufficient(balance, reserved, cmd, 0)
    /\ Fits(Moved(balance, cmd))
    /\ balance' = Moved(balance, cmd)
    /\ registered' = registered \cup {<<cmd.productId, l>> : l \in {cmd.destination} \ {NoLocation}}
    /\ UNCHANGED <<countVars, adjusted, request, reserved, inactive>>

(* StockReservationsService: reserve, release, ship, seen at one cell.     *)
ReserveStock(c, q) ==
    /\ {c[1], c[2], WarehouseOf[c[2]]} \cap inactive = {}
    /\ WarehouseOf[c[2]] \notin underInventory
    /\ reserved[c] + q <= balance[c]
    /\ reserved' = [reserved EXCEPT ![c] = @ + q]
    /\ UNCHANGED <<countVars, stockVars, request, inactive>>

ReleaseStock(c, q) ==
    /\ q <= reserved[c]
    /\ reserved' = [reserved EXCEPT ![c] = @ - q]
    /\ UNCHANGED <<countVars, stockVars, request, inactive>>

applySalesOrderShipmentExit(c, q) ==
    LET cmd == Command("EXIT", c[1], q, c[2], NoLocation)
    IN  /\ q <= reserved[c]
        /\ EndpointsUsable(inactive, cmd)
        /\ Unlocked(underInventory, cmd)
        /\ Sufficient(balance, reserved, cmd, q)
        /\ balance' = Moved(balance, cmd)
        /\ reserved' = [reserved EXCEPT ![c] = @ - q]
        /\ UNCHANGED <<countVars, registered, adjusted, request, inactive>>

UpdateStatus(x) ==
    /\ inactive' = IF x \in inactive THEN inactive \ {x} ELSE inactive \cup {x}
    /\ UNCHANGED <<countVars, stockVars, request, reserved>>

CountStep(k) ==
    \/ \E w \in Warehouses : create(k, w)
    \/ \E c \in Cells : addItem(k, c)
    \/ start(k) \/ requestRecount(k) \/ approve(k) \/ cancel(k)

ClerkStep(t) ==
    \/ \E k \in Counts, c \in Cells, q \in Quantity :
         BeginCount(t, k, c, q) \/ BeginRecount(t, k, c, q)
    \/ CommitCount(t) \/ WriteRecount(t) \/ CommitRecount(t) \/ Rollback(t)

OtherServices ==
    \/ \E cmd \in Commands : Movement(cmd)
    \/ \E c \in Cells, q \in Quantities :
         ReserveStock(c, q) \/ ReleaseStock(c, q) \/ applySalesOrderShipmentExit(c, q)
    \/ \E x \in Switchable : UpdateStatus(x)

Next ==
    /\ UNCHANGED waits
    /\ \/ \E k \in Counts : CountStep(k)
       \/ \E t \in Clients : ClerkStep(t)
       \/ OtherServices

Spec == Init /\ [][Next]_vars

-----------------------------------------------------------------------------
(* Properties.                                                             *)

(* The snapshot stays the stock: until the count is decided, the balance   *)
(* of every item is its system quantity.  (A late recount can reopen a     *)
(* count whose warehouse was open meanwhile.)                              *)
SnapshotHolds ==
    \A k \in Counts : (waits /\ status[k] \in Locking) =>
        \A c \in ItemsOf(k) : item[k][c].system = balance[c]

(* A count that is ready can be approved if the supervisor waits for the   *)
(* clerks: no item lacks a quantity.                                       *)
ReadyIsComplete ==
    \A k \in Counts : (waits /\ status[k] = "READY_FOR_APPROVAL") =>
        \A c \in ItemsOf(k) :
            NotCounted \notin {item[k][c].first, FinalQuantity(item[k][c])}

(* Approval makes the balances what was counted.                           *)
ApprovalSetsCounted ==
    [][\A k \in Counts : (waits /\ status[k] # "APPROVED" /\ status'[k] = "APPROVED") =>
          \A c \in ItemsOf(k) : balance'[c] = FinalQuantity(item[k][c])]_<<status, balance>>

(* The movements of a count are those of its approval, item by item, and a *)
(* count that is not approved has moved nothing.                           *)
AdjustedOnce ==
    \A k \in Counts, c \in Cells : waits =>
        adjusted[k][c] = IF status[k] = "APPROVED" /\ c \in ItemsOf(k)
                           THEN FinalQuantity(item[k][c]) - item[k][c].system ELSE 0

(* The lock on the row prevents a second approval: a count whose movements *)
(* exist makes no more of them.                                            *)
ApprovedOnce ==
    [][\A k \in Counts : adjusted'[k] # adjusted[k] => adjusted[k] = NoAmount]_adjusted

(* docs/02-requisitos.md: approved and cancelled counts are immutable.     *)
DecidedCountsAreImmutable ==
    [][\A k \in Counts : status[k] \in Decided =>
          status'[k] = status[k] /\ item'[k] = item[k]]_countVars

(* However requests overlap, a warehouse has at most one open count.       *)
OneOpenCount ==
    \A j, k \in Counts :
        (j # k /\ {status[j], status[k]} \subseteq Open) => warehouse[j] # warehouse[k]

(* One open count per warehouse, whoever opens or reopens it; one that can *)
(* be approved is complete, and only its approval moves stock, once.       *)
CountsAreSound == TypeOK /\ OneOpenCount /\ ReadyIsComplete /\ AdjustedOnce

(* Counts keep the contract of the stock they share with other services,   *)
(* even when a late recount reopens a decided count.                       *)
Contract == INSTANCE StockContract
ImplementsContract == Contract!Spec
=============================================================================
