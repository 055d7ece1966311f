----------------------------- MODULE SalesFlow -----------------------------
(***************************************************************************)
(* Sales orders and the stock promised to them: SalesOrdersService and     *)
(* StockReservationsService, beside manual movements and physical counts   *)
(* of the same stock.                                                      *)
(*                                                                         *)
(* update and confirm run at READ COMMITTED: they read the order without a *)
(* lock and write it later, so each is two steps and another transaction   *)
(* may commit between them.  cancel locks the order row before it reads,   *)
(* and reserve, release and ship lock it in a SERIALIZABLE transaction:    *)
(* each of these is one step.                                              *)
(***************************************************************************)
EXTENDS StockRules, Functions, SequencesExt

CONSTANTS
    Orders,       \* sales order ids; a table has finitely many rows
    Clients,      \* users whose requests may overlap
    NoRequest,    \* a client with no transaction open
    ItemChoices,  \* the item lists a client may ask for: quantity per product
    CodeOrder,    \* all locations, sorted by code and id
    Switchable    \* catalogue rows whose isActive changes (bound)

ASSUME ItemChoicesAssumption ==
    ItemChoices \subseteq {i \in [Products -> 0..Capacity] : \E p \in Products : i[p] > 0}
ASSUME SalesFiniteAssumption == IsFiniteSet(Orders) /\ IsFiniteSet(Locations)
ASSUME SalesWarehousesAssumption == Warehouses # {}  \* warehouseId is NOT NULL
ASSUME CodeOrderAssumption ==
    /\ CodeOrder \in [1..Cardinality(Locations) -> Locations]
    /\ \A l \in Locations : \E i \in DOMAIN CodeOrder : CodeOrder[i] = l
ASSUME SalesSwitchableAssumption ==
    Switchable \subseteq Products \cup Locations \cup Warehouses
ASSUME NoRequestAssumption ==
    NoRequest \notin [op : {"update", "confirm"}, order : Orders,
                      warehouse : Warehouses, items : ItemChoices]

VARIABLES
    status,            \* SalesOrder.status; NONE before the row exists
    warehouse,         \* SalesOrder.warehouseId
    items,             \* SalesOrderItem.quantity per product, 0 for no item
    reservedQuantity,  \* SalesOrderItem.reservedQuantity per product
    active,            \* quantity of the ACTIVE StockReservation row of order and cell
    exits,             \* quantity of the SALES_ORDER exit movements of order and cell
    request,           \* what each client's open transaction has read and will write
    balance,           \* InventoryBalance.quantity
    inactive,          \* products, locations and warehouses with isActive = false
    underInventory     \* warehouses with a count that locks movements

orderVars == <<status, warehouse, items>>
reservationVars == <<reservedQuantity, active>>
stockVars == <<balance, exits>>
environmentVars == <<inactive, underInventory>>
vars == <<orderVars, reservationVars, stockVars, request, environmentVars>>

Statuses == {"DRAFT", "CONFIRMED", "RESERVED", "SHIPPED", "CANCELLED"}
NoItems == [p \in Products |-> 0]
RequestRecords == [op : {"update", "confirm"}, order : Orders,
                   warehouse : Warehouses, items : ItemChoices]

(* Types: quantities of rows are within their column.                      *)
TypeOK ==
    /\ status \in [Orders -> Statuses \cup {"NONE"}]
    /\ warehouse \in [Orders -> Warehouses]
    /\ items \in [Orders -> ItemChoices \cup {NoItems}]
    /\ reservedQuantity \in [Orders -> [Products -> 0..Capacity]]
    /\ active \in [Orders -> Balances]
    /\ exits \in [Orders -> Amounts]
    /\ request \in [Clients -> RequestRecords \cup {NoRequest}]
    /\ balance \in Balances
    /\ inactive \in SUBSET Switchable
    /\ underInventory \in SUBSET Warehouses

Init ==
    /\ status = [o \in Orders |-> "NONE"]
    /\ warehouse \in [Orders -> {CHOOSE w \in Warehouses : TRUE}]
    /\ items = [o \in Orders |-> NoItems]
    /\ reservedQuantity = [o \in Orders |-> NoItems]
    /\ active = [o \in Orders |-> NoAmount]
    /\ exits = [o \in Orders |-> NoAmount]
    /\ request = [t \in Clients |-> NoRequest]
    /\ balance = NoAmount
    /\ inactive = {}
    /\ underInventory = {}

-----------------------------------------------------------------------------
(* The commercial part: SalesOrdersService.                                *)

ProductsOf(itemList) == {p \in Products : itemList[p] > 0}

(* ensureHeaderReferences and prepareItems (or ensureProductsActive).      *)
ReferencesActive(w, itemList) ==
    /\ w \notin inactive
    /\ ProductsOf(itemList) \cap inactive = {}

create(o, w, itemList) ==
    /\ status[o] = "NONE"
    /\ ReferencesActive(w, itemList)
    /\ status' = [status EXCEPT ![o] = "DRAFT"]
    /\ warehouse' = [warehouse EXCEPT ![o] = w]
    /\ items' = [items EXCEPT ![o] = itemList]
    /\ UNCHANGED <<reservationVars, stockVars, request, environmentVars>>

(* The client's transaction has read a draft and validated what it will    *)
(* write: the fields of the body, and for the absent ones what it read.    *)
BeginUpdate(t, o, w, itemList) ==
    /\ request[t] = NoRequest
    /\ status[o] = "DRAFT"
    /\ ReferencesActive(w, itemList)
    /\ request' = [request EXCEPT ![t] =
         [op |-> "update", order |-> o, warehouse |-> w, items |-> itemList]]
    /\ UNCHANGED <<orderVars, reservationVars, stockVars, environmentVars>>

(* Fault: the write is not conditional on the status.                      *)
FaultCommitUpdateUnconditionally(t) ==
    /\ request[t] # NoRequest
    /\ request[t].op = "update"
    /\ warehouse' = [warehouse EXCEPT ![request[t].order] = request[t].warehouse]
    /\ items' = [items EXCEPT ![request[t].order] = request[t].items]
    /\ reservedQuantity' = [reservedQuantity EXCEPT ![request[t].order] = NoItems]
    /\ request' = [request EXCEPT ![t] = NoRequest]
    /\ UNCHANGED <<status, active, stockVars, environmentVars>>

(* The conditional updateMany, then the items are deleted and recreated.   *)
CommitUpdate(t) ==
    /\ request[t] # NoRequest
    /\ request[t].op = "update"
    /\ status[request[t].order] = "DRAFT"
    /\ warehouse' = [warehouse EXCEPT ![request[t].order] = request[t].warehouse]
    /\ items' = [items EXCEPT ![request[t].order] = request[t].items]
    /\ reservedQuantity' = [reservedQuantity EXCEPT ![request[t].order] = NoItems]
    /\ request' = [request EXCEPT ![t] = NoRequest]
    /\ UNCHANGED <<status, active, stockVars, environmentVars>>

BeginConfirm(t, o) ==
    /\ request[t] = NoRequest
    /\ status[o] = "DRAFT"
    /\ ProductsOf(items[o]) # {}
    /\ ReferencesActive(warehouse[o], items[o])
    /\ request' = [request EXCEPT ![t] =
         [op |-> "confirm", order |-> o, warehouse |-> warehouse[o], items |-> items[o]]]
    /\ UNCHANGED <<orderVars, reservationVars, stockVars, environmentVars>>

CommitConfirm(t) ==
    /\ request[t] # NoRequest
    /\ request[t].op = "confirm"
    /\ status[request[t].order] = "DRAFT"
    /\ status' = [status EXCEPT ![request[t].order] = "CONFIRMED"]
    /\ request' = [request EXCEPT ![t] = NoRequest]
    /\ UNCHANGED <<warehouse, items, reservationVars, stockVars, environmentVars>>

(* The conditional update matched no row (409), or the connection died:    *)
(* the transaction is rolled back.                                         *)
Rollback(t) ==
    /\ request[t] # NoRequest
    /\ request' = [request EXCEPT ![t] = NoRequest]
    /\ UNCHANGED <<orderVars, reservationVars, stockVars, environmentVars>>

(* Fault: the reservations of a cancelled order stay active.               *)
FaultCancelKeepsReservations(o) ==
    /\ status[o] \in {"DRAFT", "CONFIRMED", "RESERVED"}
    /\ status' = [status EXCEPT ![o] = "CANCELLED"]
    /\ UNCHANGED <<warehouse, items, reservationVars, stockVars, request, environmentVars>>

(* releaseForCancellation does nothing unless the order is RESERVED.       *)
cancel(o) ==
    /\ status[o] \in {"DRAFT", "CONFIRMED", "RESERVED"}
    /\ status' = [status EXCEPT ![o] = "CANCELLED"]
    /\ IF status[o] = "RESERVED"
         THEN /\ active' = [active EXCEPT ![o] = NoAmount]
              /\ reservedQuantity' = [reservedQuantity EXCEPT ![o] = NoItems]
         ELSE UNCHANGED reservationVars
    /\ UNCHANGED <<warehouse, items, stockVars, request, environmentVars>>

-----------------------------------------------------------------------------
(* The physical part: StockReservationsService.                            *)

(* The groupBy over ACTIVE reservation rows.                               *)
reserved == [c \in Cells |-> SumFunction([o \in Orders |-> active[o][c]])]

PositivePart(n) == IF n > 0 THEN n ELSE 0
Smaller(m, n) == IF m < n THEN m ELSE n

(* What an order may take from a location: nothing if it is inactive.      *)
Available(p, l) ==
    IF {l, WarehouseOf[l]} \cap inactive # {} THEN 0
    ELSE PositivePart(balance[<<p, l>>] - reserved[<<p, l>>])

(* Fault: a location that cannot cover all that remains is skipped.        *)
FaultTakeAllOrNothing(p, acc, l) ==
    LET q == IF Available(p, l) >= acc.remaining THEN acc.remaining ELSE 0
    IN  [remaining |-> acc.remaining - q, taken |-> [acc.taken EXCEPT ![l] = q]]

(* One turn of the allocation loop: take as much as there is, or as is     *)
(* still missing.                                                          *)
Take(p, acc, l) ==
    LET q == Smaller(Available(p, l), acc.remaining)
    IN  [remaining |-> acc.remaining - q, taken |-> [acc.taken EXCEPT ![l] = q]]

(* The query returns the locations of the order's warehouse, by code.      *)
Allocation(o, p) ==
    FoldLeft(LAMBDA acc, l : IF WarehouseOf[l] = warehouse[o] THEN Take(p, acc, l) ELSE acc,
             [remaining |-> items[o][p], taken |-> [l \in Locations |-> 0]],
             CodeOrder)

(* All items are allocated in full or nothing is reserved.  A call on a    *)
(* RESERVED order answers and changes nothing.                             *)
reserve(o) ==
    /\ status[o] = "CONFIRMED"
    /\ ReferencesActive(warehouse[o], items[o])
    /\ warehouse[o] \notin underInventory
    /\ \A p \in Products : Allocation(o, p).remaining = 0
    /\ \A p \in ProductsOf(items[o]) : reservedQuantity[o][p] = 0
    /\ active' = [active EXCEPT ![o] = [c \in Cells |-> Allocation(o, c[1]).taken[c[2]]]]
    /\ reservedQuantity' = [reservedQuantity EXCEPT ![o] = items[o]]
    /\ status' = [status EXCEPT ![o] = "RESERVED"]
    /\ UNCHANGED <<warehouse, items, stockVars, request, environmentVars>>

(* A call on a CONFIRMED order whose reservation was released before       *)
(* answers and changes nothing.                                            *)
release(o) ==
    /\ status[o] = "RESERVED"
    /\ active[o] # NoAmount
    /\ active' = [active EXCEPT ![o] = NoAmount]
    /\ reservedQuantity' = [reservedQuantity EXCEPT ![o] = NoItems]
    /\ status' = [status EXCEPT ![o] = "CONFIRMED"]
    /\ UNCHANGED <<warehouse, items, stockVars, request, environmentVars>>

SumOverLocations(amount, p) == SumFunction([l \in Locations |-> amount[<<p, l>>]])

(* RESERVED_STOCK_INCONSISTENCY is thrown unless this holds.               *)
FullyReserved(o) ==
    /\ active[o] # NoAmount
    /\ \A p \in ProductsOf(items[o]) :
         /\ SumOverLocations(active[o], p) = items[o][p]
         /\ reservedQuantity[o][p] = items[o][p]

Allocated(o) == {c \in Cells : active[o][c] > 0}
ShipmentExit(o, c) == Command("EXIT", c[1], active[o][c], c[2], NoLocation)

(* The checks applySalesOrderShipmentExit makes of one reservation row; an *)
(* inactive product is tolerated and the row's own quantity discounted.    *)
ExitAccepted(o, c) ==
    /\ EndpointsUsable(inactive, ShipmentExit(o, c))
    /\ Unlocked(underInventory, ShipmentExit(o, c))
    /\ Sufficient(balance, reserved, ShipmentExit(o, c), active[o][c])

(* Fault: the rows are left ACTIVE and the order RESERVED.                 *)
FaultShipKeepsReservation(o) ==
    /\ status[o] = "RESERVED"
    /\ warehouse[o] \notin underInventory
    /\ FullyReserved(o)
    /\ \A c \in Allocated(o) : ExitAccepted(o, c)
    /\ balance' = [c \in Cells |-> balance[c] - active[o][c]]
    /\ exits' = [exits EXCEPT ![o] = [c \in Cells |-> @[c] + active[o][c]]]
    /\ UNCHANGED <<orderVars, reservationVars, request, environmentVars>>

(* One exit movement and one consumed row per reservation, all or none.    *)
ship(o) ==
    /\ status[o] = "RESERVED"
    /\ warehouse[o] \notin underInventory
    /\ FullyReserved(o)
    /\ \A c \in Allocated(o) : ExitAccepted(o, c)
    /\ balance' = [c \in Cells |-> balance[c] - active[o][c]]
    /\ exits' = [exits EXCEPT ![o] = [c \in Cells |-> @[c] + active[o][c]]]
    /\ active' = [active EXCEPT ![o] = NoAmount]
    /\ reservedQuantity' = [reservedQuantity EXCEPT ![o] = NoItems]
    /\ status' = [status EXCEPT ![o] = "SHIPPED"]
    /\ UNCHANGED <<warehouse, items, request, environmentVars>>

-----------------------------------------------------------------------------
(* The same stock in the hands of other services.                          *)

(* InventoryService: a manual movement of any type.                        *)
Movement(cmd) ==
    /\ Usable(inactive, cmd)
    /\ Unlocked(underInventory, cmd)
    /\ Sufficient(balance, reserved, cmd, 0)
    /\ Fits(Moved(balance, cmd))
    /\ balance' = Moved(balance, cmd)
    /\ UNCHANGED <<orderVars, reservationVars, exits, request, environmentVars>>

(* InventoryCountsService: a count begins, ends, or ends with adjustments. *)
StartCount(w) ==
    /\ w \notin underInventory \cup inactive
    /\ underInventory' = underInventory \cup {w}
    /\ UNCHANGED <<orderVars, reservationVars, stockVars, request, inactive>>

CancelCount(w) ==
    /\ w \in underInventory
    /\ underInventory' = underInventory \ {w}
    /\ UNCHANGED <<orderVars, reservationVars, stockVars, request, inactive>>

applyInventoryAdjustment(cmd) ==
    /\ cmd.type \in {"ADJUSTMENT_IN", "ADJUSTMENT_OUT"}
    /\ WarehousesOf(cmd) \subseteq underInventory
    /\ Usable(inactive, cmd)
    /\ Sufficient(balance, reserved, cmd, 0)
    /\ Fits(Moved(balance, cmd))
    /\ balance' = Moved(balance, cmd)
    /\ underInventory' = underInventory \ WarehousesOf(cmd)
    /\ UNCHANGED <<orderVars, reservationVars, exits, request, inactive>>

UpdateStatus(x) ==
    /\ inactive' = IF x \in inactive THEN inactive \ {x} ELSE inactive \cup {x}
    /\ UNCHANGED <<orderVars, reservationVars, stockVars, request, underInventory>>

OrderStep(o) ==
    \/ \E w \in Warehouses, itemList \in ItemChoices : create(o, w, itemList)
    \/ cancel(o) \/ reserve(o) \/ release(o) \/ ship(o)

ClientStep(t) ==
    \/ \E o \in Orders, w \in Warehouses, itemList \in ItemChoices :
         BeginUpdate(t, o, w, itemList)
    \/ \E o \in Orders : BeginConfirm(t, o)
    \/ CommitUpdate(t) \/ CommitConfirm(t) \/ Rollback(t)

OtherServices ==
    \/ \E cmd \in Commands : Movement(cmd) \/ applyInventoryAdjustment(cmd)
    \/ \E w \in Warehouses : StartCount(w) \/ CancelCount(w)
    \/ \E x \in Switchable : UpdateStatus(x)

Next ==
    \/ \E o \in Orders : OrderStep(o)
    \/ \E t \in Clients : ClientStep(t)
    \/ OtherServices

Spec == Init /\ [][Next]_vars

-----------------------------------------------------------------------------
(* Properties.                                                             *)

(* Reservation rows exist exactly for RESERVED orders, cover every item in *)
(* full, lie in the order's warehouse and agree with reservedQuantity.     *)
ReservedIsAllocated ==
    \A o \in Orders :
        IF status[o] = "RESERVED"
          THEN /\ FullyReserved(o)
               /\ Allocated(o) \subseteq {c \in CellsOf(warehouse[o]) : items[o][c[1]] > 0}
          ELSE active[o] = NoAmount /\ reservedQuantity[o] = NoItems

(* A RESERVED order can be shipped whenever its warehouse has no open      *)
(* count and its locations are active: no movement, count or other order   *)
(* can take the stock away from it, so ship never finds an inconsistency.  *)
ReservedIsShippable ==
    \A o \in Orders :
        (/\ status[o] = "RESERVED"
         /\ warehouse[o] \notin underInventory \cup inactive
         /\ \A c \in Allocated(o) : c[2] \notin inactive)
            => (FullyReserved(o) /\ \A c \in Allocated(o) : ExitAccepted(o, c))

(* However orders, movements and counts interleave, reservations are those *)
(* of RESERVED orders and the stock behind them is there to be shipped.    *)
ReservationsAreSound == TypeOK /\ ReservedIsAllocated /\ ReservedIsShippable

(* What left for an order is what was ordered, once, and only if SHIPPED.  *)
ShippedOnce ==
    \A o \in Orders, p \in Products :
        SumOverLocations(exits[o], p) = IF status[o] = "SHIPPED" THEN items[o][p] ELSE 0

(* The greedy loop fails an item only when the warehouse's active          *)
(* locations together hold too little of it, and never takes from one      *)
(* location more than is available there.                                  *)
AllocationIsExact ==
    \A o \in Orders, p \in Products : status[o] = "CONFIRMED" =>
        LET inWarehouse == {l \in Locations : WarehouseOf[l] = warehouse[o]}
            total == SumFunction([l \in inWarehouse |-> Available(p, l)])
        IN  /\ Allocation(o, p).remaining = PositivePart(items[o][p] - total)
            /\ \A l \in inWarehouse : Allocation(o, p).taken[l] <= Available(p, l)

(* Only drafts are editable: an update that read a draft cannot change an  *)
(* order that has been confirmed or cancelled since.                       *)
OnlyDraftsAreEdited ==
    [][\A o \in Orders : status[o] \notin {"NONE", "DRAFT"} =>
          warehouse'[o] = warehouse[o] /\ items'[o] = items[o]]_orderVars

(* DRAFT, CONFIRMED, RESERVED, SHIPPED in this order; only release goes    *)
(* back, and a SHIPPED or CANCELLED order never changes status again.      *)
StatusPath ==
    [][\A o \in Orders : status'[o] # status[o] =>
          <<status[o], status'[o]>> \in
            {<<"NONE", "DRAFT">>, <<"DRAFT", "CONFIRMED">>, <<"CONFIRMED", "RESERVED">>,
             <<"RESERVED", "CONFIRMED">>, <<"RESERVED", "SHIPPED">>}
            \cup ({"DRAFT", "CONFIRMED", "RESERVED"} \X {"CANCELLED"})]_status

(* A request that read an order before another moved it on changes neither *)
(* its content nor its status out of turn.                                 *)
LateWritesAreRefused == OnlyDraftsAreEdited /\ StatusPath

(* Orders keep the contract of the stock they share with other services.   *)
Contract == INSTANCE StockContract
ImplementsContract == Contract!Spec
=============================================================================
