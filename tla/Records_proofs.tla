---------------------------- MODULE Records_proofs ----------------------------
(***************************************************************************)
(* What Records guarantees for every number of users, partners, products,  *)
(* rows and forms, in each of its nine foci:                               *)
(*   accounts, overlap   AloneInv, GrantsInv: the one request under way    *)
(*       has counted the administrators as they are; whoever a change of   *)
(*       grants concerns is written with a new authVersion.                *)
(*   warehouses          WarehousesInv                                     *)
(*   partners            PartnersInv: what a request read is still so.     *)
(*   addresses           AddressesInv: of the addresses of a partner one   *)
(*       at most is the main one after every transaction.                  *)
(*   products            ProductsInv: what a request checked is active.    *)
(*   lists               ListsInv: while nothing is written the rows seen  *)
(*       are those that rank before the page; while rows only come, those  *)
(*       of the beginning that were not seen are further on.               *)
(*   stock               StockInv: a read under way is traced.             *)
(*   forms               EditingInv: each field of the form is as typed or *)
(*       as the page showed it when the form was filled.                   *)
(* RecordsInv joins them: the module in focus is in its invariant, and the *)
(* others rest in an initial state (StepInFocus).                          *)
(***************************************************************************)
EXTENDS Records, FiniteSetTheorems, SequenceTheorems, TLAPS

-----------------------------------------------------------------------------
(* StockReads: what is shown as available.                                 *)

(* A read under way holds the balances of cells nobody touched since it    *)
(* began, and where it holds less than there is by now the stock rose.     *)
ReadingIsTraced ==
    reading # S!NotReading =>
        /\ shownStock = <<>> /\ truth = <<>>
        /\ \A c \in DOMAIN reading :
             /\ c \notin touched => reading[c] = balance[c]
             /\ reading[c] < balance[c] => c \in risen

StockInv ==
    /\ S!ReadsTypeOK
    /\ S!ReservedWithinPhysical
    /\ ReadingIsTraced
    /\ S!AvailableIsCurrent /\ S!NegativeNeedsEntry

(* Nothing is shown yet: an answer for no cell.                            *)
LEMMA NoAnswer == <<>> \in S!Answers /\ DOMAIN <<>> = {}
  <1>1. DOMAIN <<>> = {}
    OBVIOUS
  <1>2. <<>> \in [{} -> (-Capacity)..Capacity]
    OBVIOUS
  <1>3. {} \in SUBSET S!Cells
    OBVIOUS
  <1>4. [{} -> (-Capacity)..Capacity] \in {[s -> (-Capacity)..Capacity] : s \in SUBSET S!Cells}
    BY <1>3
  <1>5. QED
    BY <1>1, <1>2, <1>4 DEF S!Answers

(* What the constants of StockReads are.                                   *)
LEMMA StockConstants ==
    /\ WarehouseOf \in [Locations -> Warehouses]
    /\ Null \notin Locations
    /\ Capacity \in Nat
  BY RecordsAssumption
  DEF S!WarehouseOfAssumption, S!NoLocationAssumption, S!CapacityAssumption

LEMMA StockInit == S!ReadsInit => StockInv
  <1> SUFFICES ASSUME S!ReadsInit PROVE StockInv
    OBVIOUS
  <1> USE DEF S!ReadsInit, S!Init
  <1>1. S!TypeOK
    BY DEF S!TypeOK, S!NoAmount, S!Amounts
  <1>2. S!ReadsTypeOK
    BY <1>1, NoAnswer DEF S!ReadsTypeOK
  <1>3. S!ReservedWithinPhysical
    BY StockConstants DEF S!ReservedWithinPhysical, S!NoAmount, S!Balances
  <1>4. ReadingIsTraced
    BY DEF ReadingIsTraced
  <1>5. S!AvailableIsCurrent /\ S!NegativeNeedsEntry
    BY NoAnswer DEF S!AvailableIsCurrent, S!NegativeNeedsEntry
  <1>6. QED
    BY <1>2, <1>3, <1>4, <1>5 DEF StockInv

(* Whatever the writers do, the contract keeps the types and what is       *)
(* reserved covered.                                                       *)
LEMMA ContractIsKept ==
    ASSUME S!TypeOK, S!ReservedWithinPhysical, S!Next
    PROVE  S!TypeOK' /\ S!ReservedWithinPhysical'
  <1> USE DEF S!TypeOK, S!ReservedWithinPhysical, S!Balances, S!Amounts
  <1>1. CASE S!Move
    BY <1>1 DEF S!Move
  <1>2. CASE S!Hold
    BY <1>2, StockConstants DEF S!Hold
  <1>3. CASE S!Free
    <2>1. \A c \in S!Cells : reserved'[c] \in Nat /\ reserved[c] \in Nat /\ balance[c] \in Nat
      BY <1>3, StockConstants DEF S!Free
    <2>2. S!ReservedWithinPhysical'
      BY <1>3, <2>1 DEF S!Free
    <2>3. QED
      BY <1>3, <2>2, StockConstants DEF S!Free
  <1>4. CASE S!Ship
    <2>1. \A c \in S!Cells : /\ reserved'[c] \in Nat /\ reserved[c] \in Nat
                             /\ balance'[c] \in Nat /\ balance[c] \in Nat
      BY <1>4, StockConstants DEF S!Ship
    <2>2. S!ReservedWithinPhysical'
      BY <1>4, <2>1 DEF S!Ship
    <2>3. QED
      BY <1>4, <2>2, StockConstants DEF S!Ship
  <1>5. CASE \E w \in Warehouses : S!OpenCount(w) \/ S!CloseCount(w)
    BY <1>5 DEF S!OpenCount, S!CloseCount
  <1>6. CASE \E w \in Warehouses : S!ApproveCount(w)
    BY <1>6 DEF S!ApproveCount
  <1>7. QED
    BY <1>1, <1>2, <1>3, <1>4, <1>5, <1>6 DEF S!Next

(* The types of what was read, and of an answer computed from it.          *)
LEMMA PartialType ==
    ASSUME S!TypeOK, NEW s \in SUBSET S!Cells
    PROVE  [c \in s |-> balance[c]] \in S!Partial
  <1>1. [c \in s |-> balance[c]] \in [s -> 0..Capacity]
    BY DEF S!TypeOK, S!Balances
  <1>2. QED
    BY <1>1 DEF S!Partial

(* A read that holds a balance per cell answers a number per cell, and so  *)
(* would the read that took no time.                                       *)
LEMMA AnswerType ==
    ASSUME S!TypeOK, S!ReservedWithinPhysical, NEW b \in S!Partial
    PROVE  /\ DOMAIN b \subseteq S!Cells
           /\ \A c \in DOMAIN b : b[c] \in 0..Capacity
           /\ [c \in DOMAIN b |-> b[c] - reserved[c]] \in S!Answers
           /\ [c \in DOMAIN b |-> balance[c] - reserved[c]] \in S!Answers
  <1>1. PICK s \in SUBSET S!Cells : b \in [s -> 0..Capacity]
    BY DEF S!Partial
  <1>2. \A c \in s : /\ reserved[c] \in 0..Capacity /\ balance[c] \in 0..Capacity
                     /\ b[c] \in 0..Capacity
    BY <1>1, StockConstants
    DEF S!TypeOK, S!ReservedWithinPhysical, S!Balances, S!Amounts
  <1>3. \A c \in s : /\ b[c] - reserved[c] \in (-Capacity)..Capacity
                     /\ balance[c] - reserved[c] \in (-Capacity)..Capacity
    BY <1>2, StockConstants
  <1>4. DOMAIN b = s
    BY <1>1
  <1>5. /\ [c \in DOMAIN b |-> b[c] - reserved[c]] \in [s -> (-Capacity)..Capacity]
        /\ [c \in DOMAIN b |-> balance[c] - reserved[c]] \in [s -> (-Capacity)..Capacity]
    BY <1>3, <1>4
  <1>6. QED
    BY <1>2, <1>4, <1>5 DEF S!Answers

(* A movement touches the cells it changes, so a read under way stays      *)
(* traced.                                                                 *)
LEMMA WriteIsTraced == StockInv /\ S!Write => StockInv'
  <1> SUFFICES ASSUME StockInv, S!Write PROVE StockInv'
    OBVIOUS
  <1>1. S!TypeOK /\ S!ReservedWithinPhysical
    BY DEF StockInv, S!ReadsTypeOK
  <1>2. S!TypeOK' /\ S!ReservedWithinPhysical'
    BY <1>1, ContractIsKept DEF S!Write
  <1>3. /\ risen' \subseteq touched' /\ touched' \subseteq S!Cells
        /\ risen \subseteq risen' /\ touched \subseteq touched'
    <2>1. \A c \in S!Cells : balance'[c] > balance[c] => balance'[c] # balance[c]
      BY <1>1, <1>2, StockConstants DEF S!TypeOK, S!Balances
    <2>2. QED
      BY <2>1 DEF S!Write, StockInv, S!ReadsTypeOK
  <1>4. S!ReadsTypeOK'
    BY <1>2, <1>3 DEF StockInv, S!ReadsTypeOK, S!Write
  <1>5. ReadingIsTraced'
    <2> SUFFICES ASSUME reading # S!NotReading, NEW c \in DOMAIN reading
                 PROVE  /\ c \notin touched' => reading[c] = balance'[c]
                        /\ reading[c] < balance'[c] => c \in risen'
      BY DEF ReadingIsTraced, S!Write, StockInv
    <2>1. /\ c \notin touched => reading[c] = balance[c]
          /\ reading[c] < balance[c] => c \in risen
      BY DEF StockInv, ReadingIsTraced
    <2>2. reading \in S!Partial
      BY DEF StockInv, S!ReadsTypeOK
    <2>3. c \in S!Cells /\ reading[c] \in Nat
      <3>1. DOMAIN reading \subseteq S!Cells /\ \A d \in DOMAIN reading : reading[d] \in 0..Capacity
        BY <1>1, <2>2, AnswerType
      <3>2. QED
        BY <3>1, StockConstants
    <2>4. balance[c] \in Nat /\ balance'[c] \in Nat
      BY <1>1, <1>2, <2>3, StockConstants DEF S!TypeOK, S!Balances
    <2>5. /\ touched' = touched \cup {d \in S!Cells : balance'[d] # balance[d]}
          /\ risen' = risen \cup {d \in S!Cells : balance'[d] > balance[d]}
      BY DEF S!Write
    <2>6. QED
      BY <2>1, <2>3, <2>4, <2>5
  <1>6. S!AvailableIsCurrent' /\ S!NegativeNeedsEntry'
    BY <1>3 DEF StockInv, S!AvailableIsCurrent, S!NegativeNeedsEntry, S!Write
  <1>7. QED
    BY <1>2, <1>4, <1>5, <1>6 DEF StockInv

(* The first of two queries starts a read that holds what there is.        *)
LEMMA ReadBalancesIsTraced ==
    ASSUME StockInv, NEW s \in SUBSET S!Cells, S!ReadBalances(s)
    PROVE  StockInv'
  <1>1. S!TypeOK' /\ S!ReservedWithinPhysical' /\ S!TypeOK
    BY DEF StockInv, S!ReadBalances, S!ReadsTypeOK, S!TypeOK, S!ReservedWithinPhysical, S!vars
  <1>2. S!ReadsTypeOK'
    BY <1>1, NoAnswer, PartialType DEF S!ReadsTypeOK, S!ReadBalances
  <1>3. ReadingIsTraced'
    <2>1. /\ reading' = [c \in s |-> balance[c]] /\ balance' = balance
          /\ shownStock' = <<>> /\ truth' = <<>>
      BY DEF S!ReadBalances, S!vars
    <2>2. \A c \in s : balance[c] \in Nat
      BY <1>1, StockConstants DEF S!TypeOK, S!Balances
    <2>3. \A c \in DOMAIN reading' : reading'[c] = balance'[c] /\ ~(reading'[c] < balance'[c])
      BY <2>1, <2>2
    <2>4. QED
      BY <2>1, <2>3 DEF ReadingIsTraced
  <1>4. S!AvailableIsCurrent' /\ S!NegativeNeedsEntry'
    BY NoAnswer DEF S!AvailableIsCurrent, S!NegativeNeedsEntry, S!ReadBalances
  <1>5. QED
    BY <1>1, <1>2, <1>3, <1>4 DEF StockInv

(* The answer is computed from balances that are traced.                   *)
LEMMA AnswerIsReal == StockInv /\ S!ReadReserved => StockInv'
  <1> SUFFICES ASSUME StockInv, S!ReadReserved PROVE StockInv'
    OBVIOUS
  <1>1. S!TypeOK /\ S!ReservedWithinPhysical /\ reading \in S!Partial
    BY DEF StockInv, S!ReadsTypeOK, S!ReadReserved
  <1>2. S!TypeOK' /\ S!ReservedWithinPhysical'
    BY <1>1 DEF S!ReadReserved, S!TypeOK, S!ReservedWithinPhysical, S!vars
  <1>3. /\ shownStock' = [c \in DOMAIN reading |-> reading[c] - reserved[c]]
        /\ truth' = [c \in DOMAIN reading |-> balance[c] - reserved[c]]
        /\ touched' = touched /\ risen' = risen /\ reading' = S!NotReading
    BY DEF S!ReadReserved, S!Available
  <1>4. S!ReadsTypeOK'
    BY <1>1, <1>2, <1>3, AnswerType DEF S!ReadsTypeOK, StockInv
  <1>5. \A c \in DOMAIN reading :
          /\ c \notin touched => reading[c] = balance[c]
          /\ reading[c] < balance[c] => c \in risen
    BY DEF StockInv, ReadingIsTraced, S!ReadReserved
  <1>6. S!AvailableIsCurrent'
    BY <1>3, <1>5 DEF S!AvailableIsCurrent
  <1>7. S!NegativeNeedsEntry'
    <2> SUFFICES ASSUME NEW c \in DOMAIN reading, reading[c] - reserved[c] < 0
                 PROVE  c \in risen
      BY <1>3 DEF S!NegativeNeedsEntry
    <2>1. c \in S!Cells /\ reading[c] \in Nat
      <3>1. DOMAIN reading \subseteq S!Cells /\ \A d \in DOMAIN reading : reading[d] \in 0..Capacity
        BY <1>1, AnswerType
      <3>2. QED
        BY <3>1, StockConstants
    <2>2. reserved[c] \in Nat /\ balance[c] \in Nat /\ reserved[c] <= balance[c]
      BY <1>1, <2>1, StockConstants
      DEF S!TypeOK, S!ReservedWithinPhysical, S!Balances, S!Amounts
    <2>3. QED
      BY <1>5, <2>1, <2>2
  <1>8. ReadingIsTraced'
    BY <1>3 DEF ReadingIsTraced
  <1>9. QED
    BY <1>2, <1>4, <1>6, <1>7, <1>8 DEF StockInv

(* A read in one snapshot answers what is available at that moment.        *)
LEMMA SnapshotIsReal ==
    ASSUME StockInv, NEW s \in SUBSET S!Cells, S!ReadBoth(s)
    PROVE  StockInv'
  <1> DEFINE b == [c \in s |-> balance[c]]
  <1>1. S!TypeOK /\ S!ReservedWithinPhysical
    BY DEF StockInv, S!ReadsTypeOK
  <1>2. S!TypeOK' /\ S!ReservedWithinPhysical'
    BY <1>1 DEF S!ReadBoth, S!TypeOK, S!ReservedWithinPhysical, S!vars
  <1>3. b \in S!Partial /\ DOMAIN b = s
    BY <1>1, PartialType
  <1>4. /\ shownStock' = [c \in s |-> balance[c] - reserved[c]]
        /\ truth' = [c \in s |-> balance[c] - reserved[c]]
        /\ touched' = {} /\ risen' = {} /\ reading' = reading /\ reading = S!NotReading
    BY DEF S!ReadBoth, S!Available
  <1>5. [c \in s |-> balance[c] - reserved[c]] \in S!Answers
    BY <1>1, <1>3, AnswerType
  <1>6. S!ReadsTypeOK'
    BY <1>2, <1>4, <1>5 DEF S!ReadsTypeOK
  <1>7. S!AvailableIsCurrent'
    BY <1>4 DEF S!AvailableIsCurrent
  <1>8. S!NegativeNeedsEntry'
    <2>1. \A c \in s : balance[c] \in Nat /\ reserved[c] \in Nat /\ reserved[c] <= balance[c]
      BY <1>1, StockConstants DEF S!TypeOK, S!ReservedWithinPhysical, S!Balances, S!Amounts
    <2>2. \A c \in s : ~(balance[c] - reserved[c] < 0)
      BY <2>1
    <2>3. QED
      BY <1>4, <2>2 DEF S!NegativeNeedsEntry
  <1>9. ReadingIsTraced'
    BY <1>4 DEF ReadingIsTraced
  <1>10. QED
    BY <1>2, <1>6, <1>7, <1>8, <1>9 DEF StockInv

LEMMA StockStep == StockInv /\ [S!ReadsNext]_stockVars => StockInv'
  <1> SUFFICES ASSUME StockInv, [S!ReadsNext]_stockVars PROVE StockInv'
    OBVIOUS
  <1>1. CASE S!Write
    BY <1>1, WriteIsTraced
  <1>2. CASE S!FindBalances \/ S!FindBalance \/ S!FindProductBalance
    <2>1. PICK s \in SUBSET S!Cells : S!ReadBalances(s)
      <3>1. \A c \in S!Cells : {c} \in SUBSET S!Cells
        OBVIOUS
      <3>2. \A p \in Products : {c \in S!Cells : c[1] = p} \in SUBSET S!Cells
        OBVIOUS
      <3>3. QED
        BY <1>2, <3>1, <3>2, Zenon DEF S!FindBalances, S!FindBalance, S!FindProductBalance
    <2>2. QED
      BY <2>1, ReadBalancesIsTraced
  <1>3. CASE S!ReadReserved
    BY <1>3, AnswerIsReal
  <1>4. CASE S!InventoryReport \/ S!InventorySummary
    <2>1. PICK s \in SUBSET S!Cells : S!ReadBoth(s)
      BY <1>4 DEF S!InventoryReport, S!InventorySummary
    <2>2. QED
      BY <2>1, SnapshotIsReal
  <1>5. CASE UNCHANGED stockVars
    BY <1>5 DEF stockVars, StockInv, S!ReadsTypeOK, S!TypeOK, S!ReservedWithinPhysical,
                ReadingIsTraced, S!AvailableIsCurrent, S!NegativeNeedsEntry
  <1>6. QED
    BY <1>1, <1>2, <1>3, <1>4, <1>5 DEF S!ReadsNext
-----------------------------------------------------------------------------
(* Warehouses: active locations are in active warehouses.                  *)

(* What the one open request has checked still holds when it writes.       *)
CheckedHolds ==
    \A c \in {clerk} : moving[c] # NoRequest =>
        LET q == moving[c] IN
        /\ (q.op = "warehouseStatus" /\ ~q.isActive) => W!MayDeactivate(q.id)
        /\ (q.op = "locationStatus" /\ q.isActive) => warehouse[HomeOf[q.id]] = "ACTIVE"
        /\ q.op = "createLocation" => warehouse[HomeOf[q.id]] = "ACTIVE"

WarehousesInv == W!TypeOK /\ W!LocationsAreInActiveWarehouses /\ CheckedHolds

(* What the constant of Warehouses is.                                     *)
LEMMA HomeType == HomeOf \in [Location -> Warehouse]
  BY RecordsAssumption DEF W!HomeOfAssumption

LEMMA WarehousesInit == W!Init => WarehousesInv
  BY HomeType
  DEF W!Init, WarehousesInv, W!TypeOK, W!Status, W!LocationsAreInActiveWarehouses, CheckedHolds

(* A request that begins has found what its operation needs.               *)
LEMMA WarehouseBegin ==
    ASSUME WarehousesInv, NEW c \in {clerk}, NEW q \in W!Requests, W!Begin(c, q),
           CASE q.op = "warehouseStatus" ->
                  warehouse[q.id] # "NONE" /\ (~q.isActive => W!MayDeactivate(q.id))
             [] q.op = "locationStatus" ->
                  location[q.id] # "NONE" /\ (q.isActive => warehouse[HomeOf[q.id]] = "ACTIVE")
             [] OTHER -> q.op = "createLocation" /\ warehouse[HomeOf[q.id]] = "ACTIVE"
    PROVE  WarehousesInv'
  <1>1. moving' = [moving EXCEPT ![c] = q] /\ warehouse' = warehouse /\ location' = location
    BY DEF W!Begin
  <1>2. moving' \in [{clerk} -> W!Requests \cup {NoRequest}] /\ moving'[c] = q
    BY <1>1 DEF WarehousesInv, W!TypeOK
  <1>3. q.op \in {"warehouseStatus", "locationStatus", "createLocation"}
    BY DEF W!Requests
  <1>4. W!TypeOK'
    BY <1>1, <1>2, <1>3 DEF WarehousesInv, W!TypeOK
  <1>5. CheckedHolds'
    BY <1>1, <1>2, <1>3 DEF CheckedHolds, W!MayDeactivate, W!ActiveLocations
  <1>6. QED
    BY <1>1, <1>4, <1>5 DEF WarehousesInv, W!LocationsAreInActiveWarehouses

(* A request holds what it checked only while no other can begin, so the   *)
(* location it writes goes into a warehouse that is still active.          *)
LEMMA WarehousesStep == WarehousesInv /\ [W!Next]_warehouseVars => WarehousesInv'
  <1> SUFFICES ASSUME WarehousesInv, [W!Next]_warehouseVars PROVE WarehousesInv'
    OBVIOUS
  <1> USE HomeType
  <1>a. /\ W!TypeOK /\ W!LocationsAreInActiveWarehouses /\ CheckedHolds
        /\ warehouse \in [Warehouse -> W!Status] /\ location \in [Location -> W!Status]
        /\ moving \in [{clerk} -> W!Requests \cup {NoRequest}]
    BY DEF WarehousesInv, W!TypeOK
  <1>1. ASSUME NEW w \in Warehouse, W!createWarehouse(w) PROVE WarehousesInv'
    <2>1. /\ warehouse' = [warehouse EXCEPT ![w] = "ACTIVE"] /\ warehouse[w] = "NONE"
          /\ location' = location /\ moving' = moving
      BY <1>1 DEF W!createWarehouse
    <2>2. \A v \in Warehouse : warehouse[v] # "NONE" => warehouse'[v] = warehouse[v]
      BY <1>a, <2>1
    <2>3. warehouse' \in [Warehouse -> W!Status]
      BY <1>a, <2>1 DEF W!Status
    <2>4. W!TypeOK'
      BY <1>a, <2>1, <2>2, <2>3 DEF W!TypeOK, W!Requests
    <2>5. W!LocationsAreInActiveWarehouses'
      BY <1>a, <2>1, <2>2 DEF W!LocationsAreInActiveWarehouses
    <2>6. CheckedHolds'
      BY <1>a, <2>1, <2>2 DEF CheckedHolds, W!Requests, W!MayDeactivate, W!ActiveLocations
    <2>7. QED
      BY <2>4, <2>5, <2>6 DEF WarehousesInv
  <1>2. ASSUME NEW c \in {clerk}, NEW w \in Warehouse, NEW on \in BOOLEAN,
               W!BeginWarehouseStatus(c, w, on)
        PROVE  WarehousesInv'
    <2> DEFINE q == [op |-> "warehouseStatus", id |-> w, isActive |-> on]
    <2>1. q \in W!Requests /\ q.op = "warehouseStatus" /\ q.id = w /\ q.isActive = on
      BY DEF W!Requests
    <2>2. W!Begin(c, q) /\ warehouse[w] # "NONE" /\ (~on => W!MayDeactivate(w))
      BY <1>2 DEF W!BeginWarehouseStatus
    <2> HIDE DEF q
    <2>3. QED
      BY <2>1, <2>2, WarehouseBegin
  <1>3. ASSUME NEW c \in {clerk}, NEW l \in Location, NEW on \in BOOLEAN,
               W!BeginLocationStatus(c, l, on)
        PROVE  WarehousesInv'
    <2> DEFINE q == [op |-> "locationStatus", id |-> l, isActive |-> on]
    <2>1. q \in W!Requests /\ q.op = "locationStatus" /\ q.id = l /\ q.isActive = on
      BY DEF W!Requests
    <2>2. W!Begin(c, q) /\ location[l] # "NONE" /\ (on => warehouse[HomeOf[l]] = "ACTIVE")
      BY <1>3 DEF W!BeginLocationStatus
    <2> HIDE DEF q
    <2>3. QED
      BY <2>1, <2>2, WarehouseBegin
  <1>4. ASSUME NEW c \in {clerk}, NEW l \in Location, W!BeginCreateLocation(c, l)
        PROVE  WarehousesInv'
    <2> DEFINE q == [op |-> "createLocation", id |-> l, isActive |-> TRUE]
    <2>1. q \in W!Requests /\ q.op = "createLocation" /\ q.id = l
      BY DEF W!Requests
    <2>2. W!Begin(c, q) /\ warehouse[HomeOf[l]] = "ACTIVE"
      BY <1>4 DEF W!BeginCreateLocation
    <2> HIDE DEF q
    <2>3. QED
      BY <2>1, <2>2, WarehouseBegin
  <1>5. ASSUME NEW c \in {clerk}, W!Done(c)
        PROVE  moving' \in [{clerk} -> W!Requests \cup {NoRequest}] /\ moving'[c] = NoRequest
               /\ CheckedHolds'
    BY <1>a, <1>5 DEF W!Done, CheckedHolds
  <1>6. ASSUME NEW c \in {clerk}, W!CommitWarehouseStatus(c) PROVE WarehousesInv'
    <2>1. PICK q \in W!Requests : q = moving[c] /\ q # NoRequest /\ q.op = "warehouseStatus"
      BY <1>a, <1>6 DEF W!CommitWarehouseStatus
    <2>2. q.id \in Warehouse /\ q.isActive \in BOOLEAN /\ warehouse[q.id] # "NONE"
      BY <1>a, <2>1 DEF W!Requests, W!TypeOK
    <2>3. /\ warehouse' = [warehouse EXCEPT ![q.id] = W!Of(q.isActive)]
          /\ location' = location /\ W!Done(c)
      BY <1>6, <2>1 DEF W!CommitWarehouseStatus
    <2>4. ~q.isActive => \A l \in Location : ~(HomeOf[l] = q.id /\ location[l] = "ACTIVE")
      BY <1>a, <2>1 DEF CheckedHolds, W!MayDeactivate, W!ActiveLocations
    <2>5. /\ warehouse' \in [Warehouse -> W!Status]
          /\ \A v \in Warehouse : warehouse[v] # "NONE" => warehouse'[v] # "NONE"
      BY <1>a, <2>2, <2>3 DEF W!Of, W!Status
    <2>6. W!TypeOK'
      BY <1>5, <1>a, <2>3, <2>5 DEF W!TypeOK
    <2>7. W!LocationsAreInActiveWarehouses'
      BY <1>a, <2>2, <2>3, <2>4 DEF W!LocationsAreInActiveWarehouses, W!Of
    <2>8. QED
      BY <1>5, <2>3, <2>6, <2>7 DEF WarehousesInv
  <1>7. ASSUME NEW c \in {clerk}, W!CommitLocationStatus(c) \/ W!CommitCreateLocation(c)
        PROVE  WarehousesInv'
    <2>1. PICK q \in W!Requests :
            q = moving[c] /\ q # NoRequest /\ q.op \in {"locationStatus", "createLocation"}
      BY <1>a, <1>7 DEF W!CommitLocationStatus, W!CommitCreateLocation
    <2>2. q.id \in Location /\ q.isActive \in BOOLEAN /\ warehouse[HomeOf[q.id]] # "NONE"
      BY <1>a, <2>1 DEF W!Requests, W!TypeOK
    <2>3. /\ warehouse' = warehouse /\ W!Done(c)
          /\ \E s \in {"ACTIVE", "INACTIVE"} \cup {location[q.id]} :
               /\ location' = [location EXCEPT ![q.id] = s]
               /\ s = "ACTIVE" =>
                    \/ q.op = "locationStatus" /\ q.isActive
                    \/ q.op = "createLocation"
                    \/ location[q.id] = "ACTIVE"
      BY <1>7, <2>1 DEF W!CommitLocationStatus, W!CommitCreateLocation, W!Of
    <2>4. PICK s \in {"ACTIVE", "INACTIVE"} \cup {location[q.id]} :
            /\ location' = [location EXCEPT ![q.id] = s]
            /\ s = "ACTIVE" => warehouse[HomeOf[q.id]] = "ACTIVE"
      BY <1>a, <2>1, <2>2, <2>3 DEF CheckedHolds, W!LocationsAreInActiveWarehouses
    <2>5. location' \in [Location -> W!Status]
      BY <1>a, <2>2, <2>4 DEF W!Status
    <2>6. W!TypeOK'
      BY <1>5, <1>a, <2>2, <2>3, <2>4, <2>5 DEF W!TypeOK
    <2>7. W!LocationsAreInActiveWarehouses'
      BY <1>a, <2>2, <2>3, <2>4 DEF W!LocationsAreInActiveWarehouses
    <2>8. QED
      BY <1>5, <2>3, <2>6, <2>7 DEF WarehousesInv
  <1>8. ASSUME NEW c \in {clerk}, W!Crash(c) PROVE WarehousesInv'
    BY <1>5, <1>8, <1>a DEF W!Crash, WarehousesInv, W!TypeOK, W!LocationsAreInActiveWarehouses
  <1>9. CASE UNCHANGED warehouseVars
    BY <1>9 DEF warehouseVars, WarehousesInv, W!TypeOK, W!LocationsAreInActiveWarehouses,
                CheckedHolds, W!MayDeactivate, W!ActiveLocations
  <1>10. QED
    BY <1>1, <1>2, <1>3, <1>4, <1>6, <1>7, <1>8, <1>9 DEF W!Next
-----------------------------------------------------------------------------
(* Partners, one request at a time.                                        *)

(* What the constants of Partners are for requests one after the other.    *)
LEMMA OneConstants ==
    /\ Customers \cap Suppliers = {}
    /\ TypeOf \in [Documents -> One!Type]
    /\ Absent \notin Documents \cup Addresses \cup One!Type
  BY RecordsAssumption DEF One!PartnerAssumption, One!TypeOfAssumption, One!AbsentAssumption

(* Types, and a request that is open has found its row.                    *)
OneTyped ==
    /\ One!TypeOK
    /\ \A c \in {clerk} : updating[c] # NoRequest => document[updating[c].partner] # Absent

LEMMA OneTypedInit == One!Init => OneTyped
  BY DEF One!Init, OneTyped, One!TypeOK

(* An answer closes the request.                                           *)
LEMMA OneAnswered ==
    ASSUME OneTyped, NEW c \in {clerk}, NEW a \in {"NONE", "OK", "DOCUMENT_EXISTS"}, One!Answer(c, a)
    PROVE  /\ updating' \in [{clerk} -> One!Requests \cup {NoRequest}]
           /\ answer' \in [{clerk} -> {"NONE", "OK", "DOCUMENT_EXISTS"}]
           /\ answer'[c] = a /\ updating'[c] = NoRequest
           /\ \A d \in {clerk} : d # c => updating'[d] = updating[d]
  BY DEF OneTyped, One!TypeOK, One!Answer

(* Every handler of Partners keeps the types.                              *)
LEMMA OneTypedStep == OneTyped /\ [One!Next]_partnerVars => OneTyped'
  <1> SUFFICES ASSUME OneTyped, [One!Next]_partnerVars PROVE OneTyped'
    OBVIOUS
  <1> USE OneConstants
  <1>a. /\ type \in [One!Partner -> One!Type \cup {Absent}]
        /\ document \in [One!Partner -> Documents \cup {Absent}]
        /\ primary \in [One!Partner -> SUBSET Addresses]
        /\ updating \in [{clerk} -> One!Requests \cup {NoRequest}]
        /\ answer \in [{clerk} -> {"NONE", "OK", "DOCUMENT_EXISTS"}]
        /\ \A p \in One!Partner : (type[p] = Absent) = (document[p] = Absent)
        /\ \A c \in {clerk} : updating[c] # NoRequest => document[updating[c].partner] # Absent
    BY DEF OneTyped, One!TypeOK
  <1>1. ASSUME NEW c \in {clerk}, NEW p \in One!Partner, NEW d \in Documents,
               NEW a \in Addresses \cup {Absent}, One!create(c, p, d, a)
        PROVE  OneTyped'
    <2>1. CASE One!Refuse(c)
      BY <1>a, <2>1, OneAnswered DEF One!Refuse, OneTyped, One!TypeOK
    <2>2. CASE ~One!Refuse(c)
      <3>1. /\ type' = [type EXCEPT ![p] = TypeOf[d]]
            /\ document' = [document EXCEPT ![p] = d]
            /\ primary' = [primary EXCEPT ![p] = {a} \ {Absent}]
            /\ One!Answer(c, "OK")
        BY <1>1, <2>2 DEF One!create
      <3>2. /\ updating' \in [{clerk} -> One!Requests \cup {NoRequest}]
            /\ answer' \in [{clerk} -> {"NONE", "OK", "DOCUMENT_EXISTS"}]
            /\ updating'[c] = NoRequest
            /\ \A e \in {clerk} : e # c => updating'[e] = updating[e]
        BY <3>1, OneAnswered
      <3>3. TypeOf[d] \in One!Type
        OBVIOUS
      <3>4. One!TypeOK'
        BY <1>a, <3>1, <3>2, <3>3 DEF One!TypeOK
      <3>5. \A q \in One!Partner : document[q] # Absent => document'[q] # Absent
        BY <1>a, <3>1
      <3>6. QED
        BY <1>a, <3>2, <3>4, <3>5 DEF OneTyped, One!Requests
    <2>3. QED
      BY <2>1, <2>2
  <1>2. ASSUME NEW c \in {clerk}, NEW p \in One!Partner, NEW t \in One!Type \cup {Absent},
               NEW d \in Documents \cup {Absent}, NEW a \in Addresses \cup {Absent},
               One!BeginUpdate(c, p, t, d, a)
        PROVE  OneTyped'
    <2> DEFINE q == [partner |-> p, type |-> t, document |-> d, address |-> a,
                     write |-> IF t = Absent /\ d = Absent THEN Absent
                                 ELSE One!Or(d, document[p]),
                     deleting |-> {}, step |-> "read"]
    <2>1. /\ updating' = [updating EXCEPT ![c] = q] /\ answer' = [answer EXCEPT ![c] = "NONE"]
          /\ document[p] # Absent /\ UNCHANGED <<type, document, primary>>
      BY <1>2 DEF One!BeginUpdate
    <2>2. One!Or(d, document[p]) \in Documents \cup {Absent}
      BY <1>a DEF One!Or
    <2>3. q \in One!Requests /\ q.partner = p
      BY <2>2 DEF One!Requests
    <2> HIDE DEF q
    <2>4. /\ updating' \in [{clerk} -> One!Requests \cup {NoRequest}]
          /\ updating'[c] = q /\ \A e \in {clerk} : e # c => updating'[e] = updating[e]
      BY <1>a, <2>1, <2>3
    <2>5. One!TypeOK'
      BY <1>a, <2>1, <2>4 DEF One!TypeOK
    <2>6. QED
      BY <1>a, <2>1, <2>3, <2>4, <2>5 DEF OneTyped
  <1>3. ASSUME NEW c \in {clerk}, One!DeleteAddress(c) PROVE OneTyped'
    <2>1. PICK q \in One!Requests : q = updating[c] /\ q # NoRequest
      BY <1>a, <1>3 DEF One!DeleteAddress
    <2> DEFINE r == [q EXCEPT !.step = "deleted", !.deleting = primary[q.partner]]
    <2>2. updating' = [updating EXCEPT ![c] = r] /\ UNCHANGED <<type, document, primary, answer>>
      BY <1>3, <2>1 DEF One!DeleteAddress
    <2>3. r \in One!Requests /\ r.partner = q.partner
      BY <1>a DEF One!Requests
    <2> HIDE DEF r
    <2>4. /\ updating' \in [{clerk} -> One!Requests \cup {NoRequest}]
          /\ updating'[c] = r /\ \A e \in {clerk} : e # c => updating'[e] = updating[e]
      BY <1>a, <2>2, <2>3
    <2>5. One!TypeOK'
      BY <1>a, <2>2, <2>4 DEF One!TypeOK
    <2>6. QED
      BY <1>a, <2>1, <2>2, <2>3, <2>4, <2>5 DEF OneTyped
  <1>4. ASSUME NEW c \in {clerk}, One!CommitUpdate(c) PROVE OneTyped'
    <2>1. PICK q \in One!Requests : q = updating[c] /\ q # NoRequest
      BY <1>a, <1>4 DEF One!CommitUpdate
    <2>2. CASE One!Refuse(c)
      BY <1>a, <2>2, OneAnswered DEF One!Refuse, OneTyped, One!TypeOK
    <2>3. CASE ~One!Refuse(c)
      <3>1. One!Write(q) /\ One!Answer(c, "OK")
        BY <1>4, <2>1, <2>3 DEF One!CommitUpdate
      <3>2. /\ updating' \in [{clerk} -> One!Requests \cup {NoRequest}]
            /\ answer' \in [{clerk} -> {"NONE", "OK", "DOCUMENT_EXISTS"}]
            /\ updating'[c] = NoRequest
            /\ \A e \in {clerk} : e # c => updating'[e] = updating[e]
        BY <3>1, OneAnswered
      <3>3. /\ q.partner \in One!Partner /\ q.type \in One!Type \cup {Absent}
            /\ q.write \in Documents \cup {Absent} /\ q.address \in Addresses \cup {Absent}
            /\ document[q.partner] # Absent
        BY <1>a, <2>1 DEF One!Requests
      <3>4. /\ type' = [type EXCEPT ![q.partner] = One!Or(q.type, type[q.partner])]
            /\ document' = [document EXCEPT ![q.partner] = One!Or(q.write, document[q.partner])]
        BY <3>1 DEF One!Write
      <3>5. primary' \in [One!Partner -> SUBSET Addresses]
        <4>1. CASE q.address = Absent
          BY <1>a, <3>1, <4>1 DEF One!Write
        <4>2. CASE q.address # Absent
          <5>1. primary' = [primary EXCEPT ![q.partner] =
                  (IF q.partner \in Customers THEN primary[q.partner] \ q.deleting ELSE {})
                     \cup {q.address}]
            BY <3>1, <4>2 DEF One!Write
          <5>2. QED
            BY <1>a, <3>3, <4>2, <5>1
        <4>3. QED
          BY <4>1, <4>2
      <3>6. /\ One!Or(q.type, type[q.partner]) \in One!Type
            /\ One!Or(q.write, document[q.partner]) \in Documents
        BY <1>a, <3>3 DEF One!Or
      <3>7. One!TypeOK'
        BY <1>a, <3>2, <3>3, <3>4, <3>5, <3>6 DEF One!TypeOK
      <3>8. \A p \in One!Partner : document[p] # Absent => document'[p] # Absent
        BY <1>a, <3>3, <3>4, <3>6
      <3>9. QED
        BY <1>a, <3>2, <3>7, <3>8 DEF OneTyped, One!Requests
    <2>4. QED
      BY <2>2, <2>3
  <1>5. ASSUME NEW c \in {clerk}, One!Crash(c) PROVE OneTyped'
    BY <1>a, <1>5 DEF One!Crash, OneTyped, One!TypeOK
  <1>6. CASE UNCHANGED partnerVars
    BY <1>6 DEF partnerVars, OneTyped, One!TypeOK
  <1>7. QED
    BY <1>1, <1>2, <1>3, <1>4, <1>5, <1>6 DEF One!Next

(* What the open request has read of its partner, and means to write,      *)
(* still holds when it writes.                                             *)
ReadHolds ==
    \A c \in {clerk} : updating[c] # NoRequest =>
        LET q == updating[c] IN
        /\ answer[c] = "NONE"
        /\ One!Valid(q.partner, q.type, q.document)
        /\ q.write = IF q.type = Absent /\ q.document = Absent THEN Absent
                        ELSE One!Or(q.document, document[q.partner])
        /\ q.step = "deleted" => q.deleting = primary[q.partner]

PartnersInv == OneTyped /\ One!DocumentFitsType /\ ReadHolds

LEMMA PartnersInit == One!Init => PartnersInv
  BY OneTypedInit DEF PartnersInv, One!Init, One!DocumentFitsType, ReadHolds

(* No address row stays behind beside the one a request brings.            *)
LEMMA NothingIsKept ==
    ASSUME PartnersInv, NEW c \in {clerk}, One!CommitUpdate(c), updating[c].address # Absent
    PROVE  One!Kept(updating[c]) = {}
  <1>1. PICK q \in One!Requests : q = updating[c] /\ q # NoRequest
    BY DEF One!CommitUpdate, PartnersInv, OneTyped, One!TypeOK
  <1>2. CASE q.partner \in Customers
    <2>1. q.step = "deleted"
      BY <1>1, <1>2, OneConstants DEF One!CommitUpdate
    <2>2. q.deleting = primary[q.partner]
      BY <1>1, <2>1 DEF PartnersInv, ReadHolds
    <2>3. QED
      BY <1>1, <2>2 DEF One!Kept
  <1>3. CASE q.partner \notin Customers
    BY <1>1, <1>3 DEF One!Kept
  <1>4. QED
    BY <1>2, <1>3

(* One request at a time: what the handler read of its partner and of the  *)
(* documents taken is still so when it writes.                             *)
LEMMA PartnersStep == PartnersInv /\ [One!Next]_partnerVars => PartnersInv'
  <1> SUFFICES ASSUME PartnersInv, [One!Next]_partnerVars PROVE PartnersInv'
    OBVIOUS
  <1> USE OneConstants
  <1>a. OneTyped /\ OneTyped' /\ One!DocumentFitsType /\ ReadHolds
    BY OneTypedStep DEF PartnersInv
  <1>b. /\ type \in [One!Partner -> One!Type \cup {Absent}]
        /\ document \in [One!Partner -> Documents \cup {Absent}]
        /\ updating \in [{clerk} -> One!Requests \cup {NoRequest}]
        /\ answer \in [{clerk} -> {"NONE", "OK", "DOCUMENT_EXISTS"}]
        /\ \A p \in One!Partner : (type[p] = Absent) = (document[p] = Absent)
    BY <1>a DEF OneTyped, One!TypeOK
  <1>1. ASSUME NEW c \in {clerk}, NEW p \in One!Partner, NEW d \in Documents,
               NEW a \in Addresses \cup {Absent}, One!create(c, p, d, a)
        PROVE  PartnersInv'
    <2>1. updating'[c] = NoRequest
      BY <1>1, <1>b DEF One!create, One!Refuse, One!Answer
    <2>2. ReadHolds'
      BY <2>1 DEF ReadHolds
    <2>3. \/ document' = document /\ type' = type
          \/ document' = [document EXCEPT ![p] = d] /\ type' = [type EXCEPT ![p] = TypeOf[d]]
      BY <1>1 DEF One!create, One!Refuse
    <2>4. One!DocumentFitsType'
      BY <1>a, <1>b, <2>3 DEF One!DocumentFitsType
    <2>5. QED
      BY <1>a, <2>2, <2>4 DEF PartnersInv
  <1>2. ASSUME NEW c \in {clerk}, NEW p \in One!Partner, NEW t \in One!Type \cup {Absent},
               NEW d \in Documents \cup {Absent}, NEW a \in Addresses \cup {Absent},
               One!BeginUpdate(c, p, t, d, a)
        PROVE  PartnersInv'
    <2>1. /\ UNCHANGED <<type, document, primary>>
          /\ updating'[c] = [partner |-> p, type |-> t, document |-> d, address |-> a,
                             write |-> IF t = Absent /\ d = Absent THEN Absent
                                         ELSE One!Or(d, document[p]),
                             deleting |-> {}, step |-> "read"]
          /\ answer'[c] = "NONE" /\ One!Valid(p, t, d)
      BY <1>2, <1>b DEF One!BeginUpdate
    <2>2. ReadHolds'
      BY <2>1 DEF ReadHolds, One!Valid, One!Or
    <2>3. QED
      BY <1>a, <2>1, <2>2 DEF PartnersInv, One!DocumentFitsType
  <1>3. ASSUME NEW c \in {clerk}, One!DeleteAddress(c) PROVE PartnersInv'
    <2>1. PICK q \in One!Requests : q = updating[c] /\ q # NoRequest
      BY <1>b, <1>3 DEF One!DeleteAddress
    <2>2. /\ UNCHANGED <<type, document, primary, answer>>
          /\ updating'[c] = [q EXCEPT !.step = "deleted", !.deleting = primary[q.partner]]
      BY <1>b, <1>3, <2>1 DEF One!DeleteAddress
    <2>3. /\ updating'[c].partner = q.partner /\ updating'[c].type = q.type
          /\ updating'[c].document = q.document /\ updating'[c].write = q.write
          /\ updating'[c].deleting = primary[q.partner]
      BY <2>2 DEF One!Requests
    <2>4. /\ answer[c] = "NONE" /\ One!Valid(q.partner, q.type, q.document)
          /\ q.write = IF q.type = Absent /\ q.document = Absent THEN Absent
                        ELSE One!Or(q.document, document[q.partner])
      BY <1>a, <2>1 DEF ReadHolds
    <2>5. ReadHolds'
      <3>1. /\ UNCHANGED <<type, document, primary>>
            /\ (updating'[c].type # Absent \/ updating'[c].document # Absent) =>
                 TypeOf[One!Or(updating'[c].document, document'[updating'[c].partner])]
                   = One!Or(updating'[c].type, type'[updating'[c].partner])
        BY <2>2, <2>3, <2>4 DEF One!Valid
      <3>2. /\ answer'[c] = "NONE"
            /\ updating'[c].write =
                 IF updating'[c].type = Absent /\ updating'[c].document = Absent THEN Absent
                 ELSE One!Or(updating'[c].document, document'[updating'[c].partner])
            /\ updating'[c].deleting = primary'[updating'[c].partner]
        BY <2>2, <2>3, <2>4
      <3>3. QED
        BY <3>1, <3>2 DEF ReadHolds, One!Valid
    <2>6. QED
      BY <1>a, <2>2, <2>5 DEF PartnersInv, One!DocumentFitsType
  <1>4. ASSUME NEW c \in {clerk}, One!CommitUpdate(c) PROVE PartnersInv'
    <2>1. PICK q \in One!Requests : q = updating[c] /\ q # NoRequest
      BY <1>b, <1>4 DEF One!CommitUpdate
    <2>2. updating'[c] = NoRequest
      BY <1>4, <1>b DEF One!CommitUpdate, One!Refuse, One!Answer
    <2>3. ReadHolds'
      BY <2>2 DEF ReadHolds
    <2>4. /\ q.partner \in One!Partner /\ q.type \in One!Type \cup {Absent}
          /\ q.document \in Documents \cup {Absent} /\ document[q.partner] # Absent
      BY <1>a, <2>1 DEF One!Requests, OneTyped
    <2>5. /\ One!Valid(q.partner, q.type, q.document)
          /\ q.write = IF q.type = Absent /\ q.document = Absent THEN Absent
                          ELSE One!Or(q.document, document[q.partner])
      BY <1>a, <2>1 DEF ReadHolds
    <2>6. \/ type' = type /\ document' = document
          \/ /\ type' = [type EXCEPT ![q.partner] = One!Or(q.type, type[q.partner])]
             /\ document' = [document EXCEPT ![q.partner] = One!Or(q.write, document[q.partner])]
      BY <1>4, <2>1 DEF One!CommitUpdate, One!Refuse, One!Write
    <2>7. TypeOf[document[q.partner]] = type[q.partner]
      BY <1>a, <2>4 DEF One!DocumentFitsType
    <2>8. TypeOf[One!Or(q.write, document[q.partner])] = One!Or(q.type, type[q.partner])
      BY <2>4, <2>5, <2>7 DEF One!Valid, One!Or
    <2>9. One!DocumentFitsType'
      BY <1>a, <1>b, <2>6, <2>8 DEF One!DocumentFitsType
    <2>10. QED
      BY <1>a, <2>3, <2>9 DEF PartnersInv
  <1>5. ASSUME NEW c \in {clerk}, One!Crash(c) PROVE PartnersInv'
    BY <1>a, <1>b, <1>5 DEF One!Crash, PartnersInv, One!DocumentFitsType, ReadHolds
  <1>6. CASE UNCHANGED partnerVars
    BY <1>a, <1>6 DEF partnerVars, PartnersInv, One!DocumentFitsType, ReadHolds, One!Valid
  <1>7. QED
    BY <1>1, <1>2, <1>3, <1>4, <1>5, <1>6 DEF One!Next

(* A 409 for a document comes only while another partner has it.           *)
LEMMA ConflictIsReal ==
    ASSUME PartnersInv, [One!Next]_partnerVars, updating[clerk] # NoRequest
    PROVE  One!AnswerIsTrue(clerk)
  <1>1. /\ answer \in [{clerk} -> {"NONE", "OK", "DOCUMENT_EXISTS"}]
        /\ answer[clerk] = "NONE"
    BY DEF PartnersInv, OneTyped, One!TypeOK, ReadHolds
  <1>2. CASE One!CommitUpdate(clerk)
    <2>1. CASE One!Refuse(clerk)
      <3>1. One!Taken(updating[clerk].partner, updating[clerk].write)
        <4>1. \/ One!Taken(updating[clerk].partner, updating[clerk].write)
              \/ updating[clerk].address # Absent /\ One!Kept(updating[clerk]) # {}
              \/ One!Answer(clerk, "OK")
          BY <1>2 DEF One!CommitUpdate
        <4>2. ~One!Answer(clerk, "OK")
          BY <1>1, <2>1 DEF One!Refuse, One!Answer
        <4>3. QED
          BY <1>2, <4>1, <4>2, NothingIsKept
      <3>2. QED
        BY <3>1 DEF One!AnswerIsTrue
    <2>2. CASE ~One!Refuse(clerk)
      BY <1>1, <1>2, <2>2 DEF One!CommitUpdate, One!Answer, One!AnswerIsTrue
    <2>3. QED
      BY <2>1, <2>2
  <1>3. CASE ~One!CommitUpdate(clerk)
    BY <1>1, <1>3
    DEF One!Next, One!create, One!BeginUpdate, One!DeleteAddress, One!Crash, partnerVars,
        One!AnswerIsTrue
  <1>4. QED
    BY <1>2, <1>3

-----------------------------------------------------------------------------
(* Partners, whose updates interleave: the types need nothing else, and    *)
(* one main address is left by every write.                                *)

(* What the constants of Partners are for overlapping requests.            *)
LEMMA TwoConstants ==
    /\ SharedCustomers \cap Suppliers = {}
    /\ SharedTypes \in [SharedDocuments -> Two!Type]
    /\ Absent \notin SharedDocuments \cup SharedAddresses \cup Two!Type
  BY RecordsAssumption DEF Two!PartnerAssumption, Two!TypeOfAssumption, Two!AbsentAssumption

(* Types, and a request that is open has found its row.                    *)
TwoTyped ==
    /\ Two!TypeOK
    /\ \A c \in Clients : updating[c] # NoRequest => document[updating[c].partner] # Absent

LEMMA TwoTypedInit == Two!Init => TwoTyped
  BY DEF Two!Init, TwoTyped, Two!TypeOK

(* An answer closes the request.                                           *)
LEMMA TwoAnswered ==
    ASSUME TwoTyped, NEW c \in Clients, NEW a \in {"NONE", "OK", "DOCUMENT_EXISTS"}, Two!Answer(c, a)
    PROVE  /\ updating' \in [Clients -> Two!Requests \cup {NoRequest}]
           /\ answer' \in [Clients -> {"NONE", "OK", "DOCUMENT_EXISTS"}]
           /\ answer'[c] = a /\ updating'[c] = NoRequest
           /\ \A d \in Clients : d # c => updating'[d] = updating[d]
  BY DEF TwoTyped, Two!TypeOK, Two!Answer

(* Every handler of Partners keeps the types, also when requests overlap.  *)
LEMMA TwoTypedStep == TwoTyped /\ [Two!Next]_partnerVars => TwoTyped'
  <1> SUFFICES ASSUME TwoTyped, [Two!Next]_partnerVars PROVE TwoTyped'
    OBVIOUS
  <1> USE TwoConstants
  <1>a. /\ type \in [Two!Partner -> Two!Type \cup {Absent}]
        /\ document \in [Two!Partner -> SharedDocuments \cup {Absent}]
        /\ primary \in [Two!Partner -> SUBSET SharedAddresses]
        /\ updating \in [Clients -> Two!Requests \cup {NoRequest}]
        /\ answer \in [Clients -> {"NONE", "OK", "DOCUMENT_EXISTS"}]
        /\ \A p \in Two!Partner : (type[p] = Absent) = (document[p] = Absent)
        /\ \A c \in Clients : updating[c] # NoRequest => document[updating[c].partner] # Absent
    BY DEF TwoTyped, Two!TypeOK
  <1>1. ASSUME NEW c \in Clients, NEW p \in Two!Partner, NEW d \in SharedDocuments,
               NEW a \in SharedAddresses \cup {Absent}, Two!create(c, p, d, a)
        PROVE  TwoTyped'
    <2>1. CASE Two!Refuse(c)
      BY <1>a, <2>1, TwoAnswered DEF Two!Refuse, TwoTyped, Two!TypeOK
    <2>2. CASE ~Two!Refuse(c)
      <3>1. /\ type' = [type EXCEPT ![p] = SharedTypes[d]]
            /\ document' = [document EXCEPT ![p] = d]
            /\ primary' = [primary EXCEPT ![p] = {a} \ {Absent}]
            /\ Two!Answer(c, "OK")
        BY <1>1, <2>2 DEF Two!create
      <3>2. /\ updating' \in [Clients -> Two!Requests \cup {NoRequest}]
            /\ answer' \in [Clients -> {"NONE", "OK", "DOCUMENT_EXISTS"}]
            /\ updating'[c] = NoRequest
            /\ \A e \in Clients : e # c => updating'[e] = updating[e]
        BY <3>1, TwoAnswered
      <3>3. SharedTypes[d] \in Two!Type
        OBVIOUS
      <3>4. Two!TypeOK'
        BY <1>a, <3>1, <3>2, <3>3 DEF Two!TypeOK
      <3>5. \A q \in Two!Partner : document[q] # Absent => document'[q] # Absent
        BY <1>a, <3>1
      <3>6. QED
        BY <1>a, <3>2, <3>4, <3>5 DEF TwoTyped, Two!Requests
    <2>3. QED
      BY <2>1, <2>2
  <1>2. ASSUME NEW c \in Clients, NEW p \in Two!Partner, NEW t \in Two!Type \cup {Absent},
               NEW d \in SharedDocuments \cup {Absent}, NEW a \in SharedAddresses \cup {Absent},
               Two!BeginUpdate(c, p, t, d, a)
        PROVE  TwoTyped'
    <2> DEFINE q == [partner |-> p, type |-> t, document |-> d, address |-> a,
                     write |-> IF t = Absent /\ d = Absent THEN Absent
                                 ELSE Two!Or(d, document[p]),
                     deleting |-> {}, step |-> "read"]
    <2>1. /\ updating' = [updating EXCEPT ![c] = q] /\ answer' = [answer EXCEPT ![c] = "NONE"]
          /\ document[p] # Absent /\ UNCHANGED <<type, document, primary>>
      BY <1>2 DEF Two!BeginUpdate
    <2>2. Two!Or(d, document[p]) \in SharedDocuments \cup {Absent}
      BY <1>a DEF Two!Or
    <2>3. q \in Two!Requests /\ q.partner = p
      BY <2>2 DEF Two!Requests
    <2> HIDE DEF q
    <2>4. /\ updating' \in [Clients -> Two!Requests \cup {NoRequest}]
          /\ updating'[c] = q /\ \A e \in Clients : e # c => updating'[e] = updating[e]
      BY <1>a, <2>1, <2>3
    <2>5. Two!TypeOK'
      BY <1>a, <2>1, <2>4 DEF Two!TypeOK
    <2>6. QED
      BY <1>a, <2>1, <2>3, <2>4, <2>5 DEF TwoTyped
  <1>3. ASSUME NEW c \in Clients, Two!DeleteAddress(c) PROVE TwoTyped'
    <2>1. PICK q \in Two!Requests : q = updating[c] /\ q # NoRequest
      BY <1>a, <1>3 DEF Two!DeleteAddress
    <2> DEFINE r == [q EXCEPT !.step = "deleted", !.deleting = primary[q.partner]]
    <2>2. updating' = [updating EXCEPT ![c] = r] /\ UNCHANGED <<type, document, primary, answer>>
      BY <1>3, <2>1 DEF Two!DeleteAddress
    <2>3. r \in Two!Requests /\ r.partner = q.partner
      BY <1>a DEF Two!Requests
    <2> HIDE DEF r
    <2>4. /\ updating' \in [Clients -> Two!Requests \cup {NoRequest}]
          /\ updating'[c] = r /\ \A e \in Clients : e # c => updating'[e] = updating[e]
      BY <1>a, <2>2, <2>3
    <2>5. Two!TypeOK'
      BY <1>a, <2>2, <2>4 DEF Two!TypeOK
    <2>6. QED
      BY <1>a, <2>1, <2>2, <2>3, <2>4, <2>5 DEF TwoTyped
  <1>4. ASSUME NEW c \in Clients, Two!CommitUpdate(c) PROVE TwoTyped'
    <2>1. PICK q \in Two!Requests : q = updating[c] /\ q # NoRequest
      BY <1>a, <1>4 DEF Two!CommitUpdate
    <2>2. CASE Two!Refuse(c)
      BY <1>a, <2>2, TwoAnswered DEF Two!Refuse, TwoTyped, Two!TypeOK
    <2>3. CASE ~Two!Refuse(c)
      <3>1. Two!Write(q) /\ Two!Answer(c, "OK")
        BY <1>4, <2>1, <2>3 DEF Two!CommitUpdate
      <3>2. /\ updating' \in [Clients -> Two!Requests \cup {NoRequest}]
            /\ answer' \in [Clients -> {"NONE", "OK", "DOCUMENT_EXISTS"}]
            /\ updating'[c] = NoRequest
            /\ \A e \in Clients : e # c => updating'[e] = updating[e]
        BY <3>1, TwoAnswered
      <3>3. /\ q.partner \in Two!Partner /\ q.type \in Two!Type \cup {Absent}
            /\ q.write \in SharedDocuments \cup {Absent} /\ q.address \in SharedAddresses \cup {Absent}
            /\ document[q.partner] # Absent
        BY <1>a, <2>1 DEF Two!Requests
      <3>4. /\ type' = [type EXCEPT ![q.partner] = Two!Or(q.type, type[q.partner])]
            /\ document' = [document EXCEPT ![q.partner] = Two!Or(q.write, document[q.partner])]
        BY <3>1 DEF Two!Write
      <3>5. primary' \in [Two!Partner -> SUBSET SharedAddresses]
        <4>1. CASE q.address = Absent
          BY <1>a, <3>1, <4>1 DEF Two!Write
        <4>2. CASE q.address # Absent
          <5>1. primary' = [primary EXCEPT ![q.partner] =
                  (IF q.partner \in SharedCustomers THEN primary[q.partner] \ q.deleting ELSE {})
                     \cup {q.address}]
            BY <3>1, <4>2 DEF Two!Write
          <5>2. QED
            BY <1>a, <3>3, <4>2, <5>1
        <4>3. QED
          BY <4>1, <4>2
      <3>6. /\ Two!Or(q.type, type[q.partner]) \in Two!Type
            /\ Two!Or(q.write, document[q.partner]) \in SharedDocuments
        BY <1>a, <3>3 DEF Two!Or
      <3>7. Two!TypeOK'
        BY <1>a, <3>2, <3>3, <3>4, <3>5, <3>6 DEF Two!TypeOK
      <3>8. \A p \in Two!Partner : document[p] # Absent => document'[p] # Absent
        BY <1>a, <3>3, <3>4, <3>6
      <3>9. QED
        BY <1>a, <3>2, <3>7, <3>8 DEF TwoTyped, Two!Requests
    <2>4. QED
      BY <2>2, <2>3
  <1>5. ASSUME NEW c \in Clients, Two!Crash(c) PROVE TwoTyped'
    BY <1>a, <1>5 DEF Two!Crash, TwoTyped, Two!TypeOK
  <1>6. CASE UNCHANGED partnerVars
    BY <1>6 DEF partnerVars, TwoTyped, Two!TypeOK
  <1>7. QED
    BY <1>1, <1>2, <1>3, <1>4, <1>5, <1>6 DEF Two!Next

(* The counts of the module Partners are those of this one.                *)
LEMMA SameCount ==
    /\ \A x : Two!Cardinality(x) = Cardinality(x)
    /\ Two!OneMainAddress <=> \A p \in Two!Partner : Cardinality(primary[p]) <= 1
    /\ Two!OneMainAddress' <=> \A p \in Two!Partner : Cardinality(primary'[p]) <= 1
  BY DEF Two!Cardinality, Cardinality, Two!IsFiniteSet, IsFiniteSet, Two!OneMainAddress

AddressesInv == TwoTyped /\ Two!OneMainAddress

LEMMA AddressesInit == Two!Init => AddressesInv
  <1>1. Cardinality({}) = 0
    BY FS_EmptySet
  <1>2. QED
    BY <1>1, TwoTypedInit, SameCount DEF AddressesInv, Two!Init

(* A write that brings an address leaves that one alone: others that would *)
(* stay make it fail.                                                      *)
LEMMA AddressesStep == AddressesInv /\ [Two!Next]_partnerVars => AddressesInv'
  <1> SUFFICES ASSUME AddressesInv, [Two!Next]_partnerVars PROVE AddressesInv'
    OBVIOUS
  <1>1. TwoTyped /\ TwoTyped'
    BY TwoTypedStep DEF AddressesInv
  <1>2. primary \in [Two!Partner -> SUBSET SharedAddresses]
    BY <1>1 DEF TwoTyped, Two!TypeOK
  <1>3. \A a : Cardinality({a}) = 1
    BY FS_Singleton
  <1>4. Cardinality({}) = 0
    BY FS_EmptySet
  <1>5. \A p \in Two!Partner : Cardinality(primary[p]) <= 1
    BY SameCount DEF AddressesInv
  <1> DEFINE OneWritten ==
        \/ primary' = primary
        \/ \E p \in Two!Partner, a \in SharedAddresses \cup {Absent} :
             primary' = [primary EXCEPT ![p] = {a} \ {Absent}]
  <1>6. OneWritten
    <2>1. ASSUME NEW c \in Clients, Two!CommitUpdate(c)
          PROVE  OneWritten
      <3>1. PICK q \in Two!Requests : q = updating[c] /\ q # NoRequest
        BY <1>1, <2>1 DEF Two!CommitUpdate, TwoTyped, Two!TypeOK
      <3>2. /\ q.partner \in Two!Partner /\ q.address \in SharedAddresses \cup {Absent}
            /\ Absent \notin SharedAddresses
        BY TwoConstants DEF Two!Requests
      <3>3. CASE Two!Refuse(c) \/ q.address = Absent
        BY <2>1, <3>1, <3>3 DEF Two!CommitUpdate, Two!Refuse, Two!Write
      <3>4. CASE ~Two!Refuse(c) /\ q.address # Absent
        <4>1. Two!Kept(q) = {} /\ Two!Write(q)
          BY <2>1, <3>1, <3>4 DEF Two!CommitUpdate
        <4>2. (IF q.partner \in SharedCustomers THEN primary[q.partner] \ q.deleting ELSE {})
                 \cup {q.address} = {q.address} \ {Absent}
          BY <3>4, <4>1 DEF Two!Kept
        <4>3. primary' = [primary EXCEPT ![q.partner] = {q.address} \ {Absent}]
          BY <3>4, <4>1, <4>2, Zenon DEF Two!Write
        <4>4. QED
          BY <3>2, <4>3
      <3>5. QED
        BY <3>3, <3>4
    <2>2. ASSUME NEW c \in Clients, NEW p \in Two!Partner, NEW d \in SharedDocuments,
                 NEW a \in SharedAddresses \cup {Absent}, Two!create(c, p, d, a)
          PROVE  OneWritten
      BY <2>2 DEF Two!create, Two!Refuse
    <2>3. ASSUME NEW c \in Clients,
                 \/ \E p \in Two!Partner, t \in Two!Type \cup {Absent},
                       d \in SharedDocuments \cup {Absent}, a \in SharedAddresses \cup {Absent} :
                          Two!BeginUpdate(c, p, t, d, a)
                 \/ Two!DeleteAddress(c) \/ Two!Crash(c)
          PROVE  OneWritten
      BY <2>3 DEF Two!BeginUpdate, Two!DeleteAddress, Two!Crash
    <2>4. CASE UNCHANGED partnerVars
      BY <2>4 DEF partnerVars
    <2> HIDE DEF OneWritten
    <2>5. QED
      BY <2>1, <2>2, <2>3, <2>4 DEF Two!Next
  <1>7. ASSUME NEW p \in Two!Partner, NEW a \in SharedAddresses \cup {Absent},
               primary' = [primary EXCEPT ![p] = {a} \ {Absent}]
        PROVE  Two!OneMainAddress'
    <2>1. {a} \ {Absent} = {} \/ {a} \ {Absent} = {a}
      OBVIOUS
    <2>2. Cardinality({a} \ {Absent}) <= 1
      BY <1>3, <1>4, <2>1
    <2>3. \A q \in Two!Partner : primary'[q] = primary[q] \/ primary'[q] = {a} \ {Absent}
      BY <1>2, <1>7
    <2>4. QED
      BY <1>5, <2>2, <2>3, SameCount
  <1>8. Two!OneMainAddress'
    BY <1>5, <1>6, <1>7, SameCount
  <1>9. QED
    BY <1>1, <1>8 DEF AddressesInv
-----------------------------------------------------------------------------
(* Products: a product is linked to active references.                     *)

(* The product is as the open request has read it, and the references that *)
(* the request changes and has checked are active: their status waits.     *)
ChecksHold ==
    \A c \in {clerk} : linking[c] # NoRequest =>
        LET q == linking[c] IN
        /\ q.current = product[q.product]
        /\ \A f \in P!Field :
             f \in q.unchecked \/ f \notin P!ToCheck(q.current, q.fields)
               \/ isActive[q.fields[f]]

ProductsInv == P!TypeOK /\ ChecksHold

(* What the constants of Products are.                                     *)
LEMMA ProductConstants ==
    /\ Categories \cap Units = {} /\ Categories \cap Suppliers = {} /\ Units \cap Suppliers = {}
    /\ Null \notin P!Reference /\ Absent \notin P!Reference \cup {Null}
  BY RecordsAssumption DEF P!ChoicesAssumption

LEMMA ProductsInit == P!Init => ProductsInv
  BY DEF P!Init, ProductsInv, P!TypeOK, ChecksHold

(* A field that a request checks names a reference.                        *)
LEMMA CheckedIsReference ==
    ASSUME NEW current \in P!Links \cup {Null}, NEW fields \in P!Fields,
           NEW f \in P!ToCheck(current, fields)
    PROVE  f \in P!Field /\ fields[f] \in P!Reference
  BY DEF P!ToCheck, P!Fields, P!Field, P!Reference

(* A create or an update starts with every reference to be checked.        *)
LEMMA BeginProduct ==
    ASSUME ProductsInv, NEW c \in {clerk}, NEW p \in Product, NEW fields \in P!Fields,
           P!BeginCreate(c, p, fields) \/ P!BeginUpdate(c, p, fields)
    PROVE  ProductsInv'
  <1> DEFINE q == [product |-> p, current |-> product[p], fields |-> fields,
                   unchecked |-> P!ToCheck(product[p], fields)]
  <1>1. /\ linking' = [linking EXCEPT ![c] = q] /\ UNCHANGED <<isActive, product>>
        /\ product[p] = Null => fields \in P!Links
    BY DEF P!BeginCreate, P!BeginUpdate, P!Open
  <1>2. product[p] \in P!Links \cup {Null} /\ P!ToCheck(product[p], fields) \in SUBSET P!Field
    BY DEF ProductsInv, P!TypeOK, P!ToCheck
  <1>3. q \in P!Requests
    BY <1>2 DEF P!Requests
  <1>4. /\ q.product = p /\ q.current = product[p] /\ q.fields = fields
        /\ q.unchecked = P!ToCheck(product[p], fields)
    OBVIOUS
  <1> HIDE DEF q
  <1>5. /\ linking' \in [{clerk} -> P!Requests \cup {NoRequest}]
        /\ \A d \in {clerk} : linking'[d] = q
    BY <1>1, <1>3 DEF ProductsInv, P!TypeOK
  <1>6. P!TypeOK'
    BY <1>1, <1>4, <1>5 DEF ProductsInv, P!TypeOK
  <1>7. ChecksHold'
    BY <1>1, <1>4, <1>5 DEF ChecksHold
  <1>8. QED
    BY <1>6, <1>7 DEF ProductsInv

(* A reference that passed its check is active.                            *)
LEMMA CheckProduct ==
    ASSUME ProductsInv, NEW c \in {clerk}, NEW f \in P!Field, P!Check(c, f)
    PROVE  ProductsInv'
  <1>1. PICK q \in P!Requests : q = linking[c] /\ q # NoRequest
    BY DEF P!Check, ProductsInv, P!TypeOK
  <1>2. /\ q.fields \in P!Fields /\ q.unchecked \in SUBSET P!Field
        /\ q.current = Null => q.fields \in P!Links
    BY <1>1 DEF ProductsInv, P!TypeOK, P!Requests
  <1> DEFINE r == [q EXCEPT !.unchecked = q.unchecked \ {f}]
  <1>3. /\ linking' = [linking EXCEPT ![c] = IF isActive[q.fields[f]] THEN r ELSE NoRequest]
        /\ UNCHANGED <<isActive, product>>
    BY <1>1 DEF P!Check
  <1>4. /\ r \in P!Requests /\ r.product = q.product /\ r.current = q.current
        /\ r.fields = q.fields /\ r.unchecked = q.unchecked \ {f}
    BY <1>1, <1>2 DEF P!Requests
  <1> HIDE DEF r
  <1>5. /\ linking' \in [{clerk} -> P!Requests \cup {NoRequest}]
        /\ \A d \in {clerk} : d = c /\
             (linking'[d] = NoRequest \/ (linking'[d] = r /\ isActive[q.fields[f]]))
    BY <1>3, <1>4 DEF ProductsInv, P!TypeOK
  <1>6. P!TypeOK'
    BY <1>2, <1>3, <1>4, <1>5 DEF ProductsInv, P!TypeOK
  <1>7. /\ q.current = product[q.product]
        /\ \A g \in P!Field : g \in q.unchecked \/ g \notin P!ToCheck(q.current, q.fields)
                                \/ isActive[q.fields[g]]
    BY <1>1 DEF ProductsInv, ChecksHold
  <1>8. ChecksHold'
    BY <1>3, <1>4, <1>5, <1>7 DEF ChecksHold
  <1>9. QED
    BY <1>6, <1>8 DEF ProductsInv

(* What a commit writes: the links of a new product, or the old ones with  *)
(* the fields the request carries.                                         *)
LEMMA CommitProduct ==
    ASSUME ProductsInv, NEW c \in {clerk}, P!Commit(c)
    PROVE  ProductsInv' /\ P!LinksToActive
  <1> USE ProductConstants
  <1>1. PICK q \in P!Requests : q = linking[c] /\ q # NoRequest /\ q.unchecked = {}
    BY DEF P!Commit, ProductsInv, P!TypeOK
  <1>2. /\ q.fields \in P!Fields /\ q.product \in Product
        /\ q.current = Null => q.fields \in P!Links
        /\ q.current = product[q.product] /\ q.current \in P!Links \cup {Null}
        /\ \A f \in P!Field : f \notin P!ToCheck(q.current, q.fields) \/ isActive[q.fields[f]]
    BY <1>1 DEF ProductsInv, P!TypeOK, P!Requests, ChecksHold
  <1> DEFINE merged == [f \in P!Field |-> IF q.fields[f] = Absent THEN q.current[f] ELSE q.fields[f]]
             new == IF q.current = Null THEN q.fields ELSE merged
  <1>3. /\ product' = [product EXCEPT ![q.product] = new]
        /\ linking' = [linking EXCEPT ![c] = NoRequest] /\ isActive' = isActive
    <2>1. CASE q.current = Null
      BY <1>1, <1>2, <2>1 DEF P!Commit
    <2>2. CASE q.current # Null
      BY <1>1, <1>2, <2>2 DEF P!Commit
    <2>3. QED
      BY <2>1, <2>2
  <1>4. new \in P!Links
    <2>1. CASE q.current = Null
      BY <1>2, <2>1
    <2>2. CASE q.current # Null
      <3>1. /\ q.current.category \in Categories /\ q.current.unit \in Units
            /\ q.current.supplier \in Suppliers \cup {Null}
            /\ q.fields.category \in Categories \cup {Absent} /\ q.fields.unit \in Units \cup {Absent}
            /\ q.fields.supplier \in Suppliers \cup {Null, Absent}
        BY <1>2, <2>2 DEF P!Links, P!Fields
      <3>2. merged \in P!Links
        BY <3>1 DEF P!Links, P!Field
      <3>3. QED
        BY <2>2, <3>2
    <2>3. QED
      BY <2>1, <2>2
  <1>5. ASSUME NEW f \in P!Field, new[f] # Null, q.current = Null \/ q.current[f] # new[f]
        PROVE  isActive[new[f]]
    <2>1. new[f] = q.fields[f] /\ q.fields[f] # Absent
      <3>1. CASE q.current = Null
        <4>1. new = q.fields
          BY <3>1
        <4>2. q.fields[f] \in P!Reference \cup {Null}
          BY <1>2, <3>1 DEF P!Links, P!Field, P!Reference
        <4>3. QED
          BY <4>1, <4>2
      <3>2. CASE q.current # Null
        BY <1>5, <3>2
      <3>3. QED
        BY <3>1, <3>2
    <2>2. f \in P!ToCheck(q.current, q.fields)
      BY <1>5, <2>1 DEF P!ToCheck
    <2>3. QED
      BY <1>2, <2>1, <2>2
  <1> HIDE DEF new
  <1>6. /\ product' \in [Product -> P!Links \cup {Null}]
        /\ product'[q.product] = new
        /\ \A p \in Product : p # q.product => product'[p] = product[p]
    BY <1>2, <1>3, <1>4 DEF ProductsInv, P!TypeOK
  <1>7. P!LinksToActive
    <2> SUFFICES ASSUME NEW p \in Product, NEW f \in P!Field,
                        product'[p] # Null, product'[p][f] # Null,
                        product[p] = Null \/ product[p][f] # product'[p][f]
                 PROVE  isActive[product'[p][f]]
      BY DEF P!LinksToActive
    <2>1. CASE p # q.product
      BY <1>6, <2>1
    <2>2. CASE p = q.product
      <3>1. new[f] # Null /\ (q.current = Null \/ q.current[f] # new[f])
        BY <1>2, <1>6, <2>2
      <3>2. QED
        BY <1>5, <1>6, <2>2, <3>1
    <2>3. QED
      BY <2>1, <2>2
  <1>8. linking' \in [{clerk} -> P!Requests \cup {NoRequest}] /\ \A d \in {clerk} : linking'[d] = NoRequest
    BY <1>3 DEF ProductsInv, P!TypeOK
  <1>9. P!TypeOK' /\ ChecksHold'
    BY <1>3, <1>6, <1>8 DEF ProductsInv, P!TypeOK, ChecksHold
  <1>10. QED
    BY <1>7, <1>9 DEF ProductsInv

(* No product changes otherwise.                                           *)
LEMMA UnlinkedStays == product' = product => P!LinksToActive
  BY DEF P!LinksToActive

(* A product is linked to what its request checked, which rests meanwhile. *)
LEMMA ProductsStep ==
    ProductsInv /\ [P!QuietNext]_productVars => ProductsInv' /\ P!LinksToActive
  <1> SUFFICES ASSUME ProductsInv, [P!QuietNext]_productVars
               PROVE  ProductsInv' /\ P!LinksToActive
    OBVIOUS
  <1>1. ASSUME NEW r \in P!Reference, P!updateStatus(r), P!QuietNext
        PROVE  ProductsInv' /\ P!LinksToActive
    <2>1. /\ isActive \in [P!Reference -> BOOLEAN]
          /\ isActive' = [isActive EXCEPT ![r] = ~@]
          /\ product' = product /\ linking' = linking
      BY <1>1 DEF P!updateStatus, ProductsInv, P!TypeOK
    <2>2. isActive' # isActive
      BY <2>1
    <2>3. \A c \in {clerk} : linking'[c] = NoRequest
      BY <1>1, <2>1, <2>2 DEF P!QuietNext, P!Quiet
    <2>4. isActive' \in [P!Reference -> BOOLEAN]
      BY <2>1
    <2>5. ProductsInv'
      BY <2>1, <2>3, <2>4 DEF ProductsInv, P!TypeOK, ChecksHold
    <2>6. QED
      BY <2>1, <2>5, UnlinkedStays
  <1>2. ASSUME NEW c \in {clerk}, NEW p \in Product, NEW fields \in P!Fields,
               P!BeginCreate(c, p, fields) \/ P!BeginUpdate(c, p, fields)
        PROVE  ProductsInv' /\ P!LinksToActive
    <2>1. product' = product
      BY <1>2 DEF P!BeginCreate, P!BeginUpdate
    <2>2. QED
      BY <1>2, <2>1, BeginProduct, UnlinkedStays
  <1>3. ASSUME NEW c \in {clerk}, NEW f \in P!Field, P!Check(c, f)
        PROVE  ProductsInv' /\ P!LinksToActive
    <2>1. product' = product
      BY <1>3 DEF P!Check
    <2>2. QED
      BY <1>3, <2>1, CheckProduct, UnlinkedStays
  <1>4. ASSUME NEW c \in {clerk}, P!Commit(c) PROVE ProductsInv' /\ P!LinksToActive
    BY <1>4, CommitProduct
  <1>5. ASSUME NEW c \in {clerk}, P!Crash(c) PROVE ProductsInv' /\ P!LinksToActive
    <2>1. product' = product /\ isActive' = isActive /\ linking' = [linking EXCEPT ![c] = NoRequest]
      BY <1>5 DEF P!Crash
    <2>2. ProductsInv'
      BY <2>1 DEF ProductsInv, P!TypeOK, ChecksHold
    <2>3. QED
      BY <2>1, <2>2, UnlinkedStays
  <1>6. CASE UNCHANGED productVars
    BY <1>6, UnlinkedStays DEF productVars, ProductsInv, P!TypeOK, ChecksHold
  <1>7. QED
    BY <1>1, <1>2, <1>3, <1>4, <1>5, <1>6 DEF P!QuietNext, P!Next
-----------------------------------------------------------------------------
(* Accounts.                                                               *)

(* Tokens issued or being signed are of an account that exists, and of no  *)
(* version it has not reached.                                             *)
HeldVersions ==
    \A k \in tokens \cup signing :
        account[k.user] # "NONE" /\ k.version <= authVersion[k.user]

GrantsInv == TypeOK /\ HeldVersions

LEMMA GrantsInit == Init => GrantsInv
  <1> SUFFICES ASSUME Init PROVE GrantsInv
    OBVIOUS
  <1> USE RolesAssumption, PermissionsAssumption, FounderAssumption, MaxVersionAssumption
  <1>1. account \in [Users -> {"NONE", "ACTIVE", "INACTIVE"}] /\ authVersion \in [Users -> 0..MaxVersion]
    BY DEF Init
  <1>2. roleRows \in SUBSET Roles /\ rolesOf \in [Users -> SUBSET roleRows]
    BY DEF Init
  <1>3. /\ permissionsOf \in [Roles -> SUBSET Permissions]
        /\ \A r \in Roles \ roleRows : permissionsOf[r] = {}
    BY DEF Init
  <1>4. tokens = {} /\ signing = {} /\ request \in [Clients -> Requests \cup {NoRequest}]
    BY DEF Init
  <1>5. QED
    BY <1>1, <1>2, <1>3, <1>4 DEF GrantsInv, TypeOK, HeldVersions

(* What a request that is opened keeps of its reads.                       *)
Fresh(q) ==
    /\ q \in Requests
    /\ account[q.user] # "NONE" \/ q.user = Founder
    /\ q.wasActive <=> account[q.user] = "ACTIVE"
    /\ q.op = "replacePermissions" => q.role \in roleRows /\ q.had = permissionsOf[q.role]

(* What a client asks for is a request that has read nothing yet.          *)
LEMMA AskIsFresh ==
    ASSUME TypeOK, NEW op \in {"updateStatus", "replaceRoles", "replacePermissions", "remove"},
           NEW u \in Users, account[u] # "NONE" \/ u = Founder, NEW r \in Roles,
           op = "replacePermissions" => r \in roleRows, NEW on \in BOOLEAN,
           NEW roles \in SUBSET Roles, NEW permissions \in SUBSET Permissions
    PROVE  Fresh(Ask(op, u, r, on, roles, permissions))
  <1> DEFINE q == Ask(op, u, r, on, roles, permissions)
             active == account[u] = "ACTIVE"
  <1>1. permissionsOf[r] \in SUBSET Permissions /\ active \in BOOLEAN
    BY DEF TypeOK
  <1>2. q = [op |-> op, user |-> u, role |-> r, on |-> on, roles |-> roles,
             permissions |-> permissions, wasActive |-> active, had |-> permissionsOf[r]]
    BY DEF Ask
  <1> HIDE DEF active, q
  <1>3. q \in Requests
    BY <1>1, <1>2, Zenon DEF Requests
  <1>4. q.op = op /\ q.user = u /\ q.role = r /\ q.had = permissionsOf[r]
    BY <1>2
  <1>5. q.wasActive = active
    BY <1>2
  <1>6. q.wasActive <=> account[q.user] = "ACTIVE"
    BY <1>1, <1>4, <1>5, Zenon DEF active
  <1>7. Fresh(q)
    BY <1>3, <1>4, <1>6 DEF Fresh
  <1>8. QED
    BY <1>7 DEF q

(* Every administrative handler begins by opening a fresh request.         *)
LEMMA BeginEffect ==
    ASSUME TypeOK, NEW t \in Clients, NEW actor \in Users, Begin(t, actor)
    PROVE  \E q : Fresh(q) /\ Open(t, q)
  <1> USE RolesAssumption, PermissionsAssumption, FounderAssumption
  <1>1. ASSUME NEW u \in Users, NEW on \in BOOLEAN, BeginUpdateStatus(t, actor, u, on)
        PROVE  \E q : Fresh(q) /\ Open(t, q)
    <2>1. account[u] # "NONE" /\ Open(t, Ask("updateStatus", u, SystemRole, on, {}, {}))
      BY <1>1 DEF BeginUpdateStatus
    <2>2. Fresh(Ask("updateStatus", u, SystemRole, on, {}, {}))
      BY <2>1, AskIsFresh
    <2>3. QED
      BY <2>1, <2>2
  <1>2. ASSUME NEW u \in Users, NEW roles \in RoleChoices, BeginReplaceRoles(t, actor, u, roles)
        PROVE  \E q : Fresh(q) /\ Open(t, q)
    <2>1. account[u] # "NONE" /\ Open(t, Ask("replaceRoles", u, SystemRole, TRUE, roles, {}))
      BY <1>2 DEF BeginReplaceRoles
    <2>2. Fresh(Ask("replaceRoles", u, SystemRole, TRUE, roles, {}))
      BY <2>1, AskIsFresh
    <2>3. QED
      BY <2>1, <2>2
  <1>3. ASSUME NEW r \in Roles, NEW permissions \in PermissionChoices,
               BeginReplacePermissions(t, actor, r, permissions)
        PROVE  \E q : Fresh(q) /\ Open(t, q)
    <2>1. /\ r \in roleRows
          /\ Open(t, Ask("replacePermissions", Founder, r, TRUE, {}, permissions))
      BY <1>3 DEF BeginReplacePermissions
    <2>2. Fresh(Ask("replacePermissions", Founder, r, TRUE, {}, permissions))
      BY <2>1, AskIsFresh
    <2>3. QED
      BY <2>1, <2>2
  <1>4. ASSUME NEW r \in Roles, BeginRemove(t, actor, r)
        PROVE  \E q : Fresh(q) /\ Open(t, q)
    <2>1. Open(t, Ask("remove", Founder, r, TRUE, {}, {}))
      BY <1>4 DEF BeginRemove
    <2>2. Fresh(Ask("remove", Founder, r, TRUE, {}, {}))
      BY AskIsFresh
    <2>3. QED
      BY <2>1, <2>2
  <1>5. QED
    BY <1>1, <1>2, <1>3, <1>4 DEF Begin

(* The accounts whose permissions stay need no new login.                  *)
LEMMA SameGrants == rolesOf' = rolesOf /\ permissionsOf' = permissionsOf => NewGrantsVoidTokens
  BY DEF NewGrantsVoidTokens, Effective

(* A role that nobody holds grants nothing.                                *)
LEMMA UnheldGrantsNothing ==
    ASSUME NEW u \in Users, NEW r, r \notin rolesOf[u], rolesOf'[u] = rolesOf[u],
           \A s \in rolesOf[u] : s # r => permissionsOf'[s] = permissionsOf[s]
    PROVE  Effective(u)' = Effective(u)
  BY DEF Effective

(* Logins and refreshes give a user no permission.                         *)
LEMMA TokensStep ==
    ASSUME GrantsInv,
           \/ \E u \in Users : BeginSigning(u)
           \/ \E k \in Token : IssueTokens(k) \/ DropToken(k)
    PROVE  GrantsInv' /\ NewGrantsVoidTokens
  <1>1. ASSUME NEW u \in Users, BeginSigning(u) PROVE GrantsInv'
    <2>1. [user |-> u, version |-> authVersion[u]] \in Token
      BY DEF GrantsInv, TypeOK, Token
    <2>2. TypeOK'
      BY <1>1, <2>1 DEF BeginSigning, GrantsInv, TypeOK, accounts
    <2>3. authVersion[u] \in Nat
      BY MaxVersionAssumption DEF GrantsInv, TypeOK
    <2>4. HeldVersions'
      BY <1>1, <2>3 DEF BeginSigning, GrantsInv, HeldVersions, accounts
    <2>5. QED
      BY <2>2, <2>4 DEF GrantsInv
  <1>2. ASSUME NEW k \in Token, IssueTokens(k) \/ DropToken(k) PROVE GrantsInv'
    <2>1. TypeOK'
      BY <1>2 DEF IssueTokens, DropToken, GrantsInv, TypeOK, accounts
    <2>2. HeldVersions'
      BY <1>2 DEF IssueTokens, DropToken, GrantsInv, HeldVersions, accounts
    <2>3. QED
      BY <2>1, <2>2 DEF GrantsInv
  <1>3. rolesOf' = rolesOf /\ permissionsOf' = permissionsOf
    BY DEF BeginSigning, IssueTokens, DropToken, accounts
  <1>4. QED
    BY <1>1, <1>2, <1>3, SameGrants

(* Requests that open, that end without a write, and the records they      *)
(* create, take no permission from anybody and give none to a token.       *)
LEMMA OpenStep ==
    ASSUME GrantsInv, NEW t \in Clients, NEW q, Fresh(q), Open(t, q)
    PROVE  GrantsInv' /\ NewGrantsVoidTokens
  <1>1. TypeOK'
    BY DEF Open, Fresh, GrantsInv, TypeOK, accounts
  <1>2. HeldVersions'
    BY DEF Open, GrantsInv, HeldVersions, accounts
  <1>3. QED
    BY <1>1, <1>2, SameGrants DEF GrantsInv, Open, accounts

(* A refused request writes nothing.                                       *)
LEMMA RollbackStep ==
    ASSUME GrantsInv, NEW t \in Clients, Rollback(t)
    PROVE  GrantsInv' /\ NewGrantsVoidTokens
  <1>1. TypeOK'
    BY DEF Rollback, Done, GrantsInv, TypeOK, accounts
  <1>2. HeldVersions'
    BY DEF Rollback, GrantsInv, HeldVersions, accounts
  <1>3. QED
    BY <1>1, <1>2, SameGrants DEF GrantsInv, Rollback, accounts

(* A new user has no token, whatever the roles.                            *)
LEMMA CreateUserStep ==
    ASSUME GrantsInv, NEW actor \in Users, NEW u \in Users, NEW roles \in RoleChoices,
           createUser(actor, u, roles)
    PROVE  GrantsInv' /\ NewGrantsVoidTokens
  <1>1. TypeOK'
    BY DEF createUser, GrantsInv, TypeOK
  <1>2. HeldVersions'
    BY DEF createUser, GrantsInv, TypeOK, HeldVersions, Token
  <1>3. NewGrantsVoidTokens
    <2> SUFFICES ASSUME NEW v \in Users, Effective(v)' # Effective(v), NEW k \in tokens, k.user = v
                 PROVE  ~Valid(k)'
      BY DEF NewGrantsVoidTokens
    <2>1. v # u
      BY DEF createUser, GrantsInv, HeldVersions
    <2>2. rolesOf'[v] = rolesOf[v] /\ permissionsOf' = permissionsOf
      BY <2>1 DEF createUser, GrantsInv, TypeOK
    <2>3. QED
      BY <2>2 DEF Effective
  <1>4. QED
    BY <1>1, <1>2, <1>3 DEF GrantsInv

(* A new role is held by nobody.                                           *)
LEMMA CreateRoleStep ==
    ASSUME GrantsInv, NEW actor \in Users, NEW r \in Roles, NEW permissions \in PermissionChoices,
           createRole(actor, r, permissions)
    PROVE  GrantsInv' /\ NewGrantsVoidTokens /\ \A u \in Users : Effective(u)' = Effective(u)
  <1>1. TypeOK'
    BY PermissionsAssumption DEF createRole, GrantsInv, TypeOK
  <1>2. HeldVersions'
    BY DEF createRole, GrantsInv, HeldVersions
  <1>3. ASSUME NEW u \in Users PROVE Effective(u)' = Effective(u)
    <2>1. /\ r \notin rolesOf[u] /\ rolesOf'[u] = rolesOf[u]
          /\ \A s \in rolesOf[u] : s # r => permissionsOf'[s] = permissionsOf[s]
      BY DEF createRole, GrantsInv, TypeOK
    <2>2. QED
      BY <2>1, UnheldGrantsNothing
  <1>4. QED
    BY <1>1, <1>2, <1>3 DEF GrantsInv, NewGrantsVoidTokens

(* Who is deactivated or activated is written with a new authVersion.      *)
LEMMA StatusStep ==
    ASSUME GrantsInv, NEW t \in Clients, CommitUpdateStatus(t)
    PROVE  GrantsInv' /\ NewGrantsVoidTokens
  <1> USE MaxVersionAssumption
  <1>1. PICK q \in Requests : q = request[t] /\ q # NoRequest
    BY DEF CommitUpdateStatus, GrantsInv, TypeOK
  <1> DEFINE version == VersionAfterStatus(q)
  <1>2. q.user \in Users /\ q.on \in BOOLEAN
    BY <1>1 DEF Requests
  <1>3. /\ account' = [account EXCEPT ![q.user] = IF q.on THEN "ACTIVE" ELSE "INACTIVE"]
        /\ authVersion' = [authVersion EXCEPT ![q.user] = version]
        /\ version <= MaxVersion
        /\ request' = [request EXCEPT ![t] = NoRequest]
        /\ UNCHANGED <<rolesOf, roleRows, permissionsOf, tokens, signing>>
    BY <1>1 DEF CommitUpdateStatus, Done
  <1>4. authVersion[q.user] \in Nat /\ version \in Nat /\ version >= authVersion[q.user]
    BY <1>2 DEF VersionAfterStatus, GrantsInv, TypeOK
  <1> HIDE DEF version
  <1>5. account' \in [Users -> {"NONE", "ACTIVE", "INACTIVE"}] /\ account'[q.user] # "NONE"
    BY <1>2, <1>3 DEF GrantsInv, TypeOK
  <1>6. authVersion' \in [Users -> 0..MaxVersion] /\ authVersion'[q.user] = version
    BY <1>2, <1>3, <1>4 DEF GrantsInv, TypeOK
  <1>7. TypeOK'
    BY <1>3, <1>5, <1>6 DEF GrantsInv, TypeOK
  <1>8. HeldVersions'
    <2> SUFFICES ASSUME NEW k \in tokens \cup signing
                 PROVE  account'[k.user] # "NONE" /\ k.version <= authVersion'[k.user]
      BY <1>3 DEF HeldVersions
    <2>1. k.user \in Users /\ k.version \in Nat /\ account[k.user] # "NONE" /\ k.version <= authVersion[k.user]
      BY DEF GrantsInv, HeldVersions, TypeOK, Token
    <2>2. CASE k.user = q.user
      BY <1>4, <1>5, <1>6, <2>1, <2>2
    <2>3. CASE k.user # q.user
      BY <1>3, <2>1, <2>3 DEF GrantsInv, TypeOK
    <2>4. QED
      BY <2>2, <2>3
  <1>9. QED
    BY <1>3, <1>7, <1>8, SameGrants DEF GrantsInv

(* Who gets other roles is written with a new authVersion.                 *)
LEMMA ReplaceRolesStep ==
    ASSUME GrantsInv, NEW t \in Clients, CommitReplaceRoles(t)
    PROVE  GrantsInv' /\ NewGrantsVoidTokens
  <1> USE MaxVersionAssumption
  <1>1. PICK q \in Requests : q = request[t] /\ q # NoRequest
    BY DEF CommitReplaceRoles, GrantsInv, TypeOK
  <1>2. q.user \in Users /\ authVersion[q.user] \in Nat
    BY <1>1 DEF Requests, GrantsInv, TypeOK
  <1>3. /\ rolesOf' = [rolesOf EXCEPT ![q.user] = q.roles] /\ q.roles \subseteq roleRows
        /\ authVersion' = [authVersion EXCEPT ![q.user] = @ + 1]
        /\ authVersion[q.user] < MaxVersion
        /\ request' = [request EXCEPT ![t] = NoRequest]
        /\ UNCHANGED <<account, roleRows, permissionsOf, tokens, signing>>
    BY <1>1 DEF CommitReplaceRoles, Done
  <1>4. /\ authVersion' \in [Users -> 0..MaxVersion]
        /\ authVersion'[q.user] = authVersion[q.user] + 1
        /\ \A u \in Users : u # q.user => authVersion'[u] = authVersion[u]
    BY <1>2, <1>3 DEF GrantsInv, TypeOK
  <1>5. TypeOK'
    BY <1>3, <1>4 DEF GrantsInv, TypeOK
  <1>6. ASSUME NEW k \in tokens \cup signing
        PROVE  /\ k.user \in Users /\ k.version \in Nat /\ account[k.user] # "NONE"
               /\ k.version <= authVersion[k.user] /\ authVersion[k.user] \in Nat
    BY DEF GrantsInv, HeldVersions, TypeOK, Token
  <1>7. HeldVersions'
    BY <1>3, <1>4, <1>6 DEF HeldVersions
  <1>8. NewGrantsVoidTokens
    <2> SUFFICES ASSUME NEW u \in Users, Effective(u)' # Effective(u), NEW k \in tokens, k.user = u
                 PROVE  ~Valid(k)'
      BY DEF NewGrantsVoidTokens
    <2>1. u = q.user
      BY <1>3 DEF Effective, GrantsInv, TypeOK
    <2>2. authVersion'[k.user] # k.version
      BY <1>4, <1>6, <2>1
    <2>3. QED
      BY <2>2 DEF Valid
  <1>9. QED
    BY <1>5, <1>7, <1>8 DEF GrantsInv

(* Whoever holds a role with other permissions is written with a new       *)
(* authVersion.                                                            *)
LEMMA ReplacePermissionsStep ==
    ASSUME GrantsInv, NEW t \in Clients, CommitReplacePermissions(t)
    PROVE  GrantsInv' /\ NewGrantsVoidTokens
  <1> USE MaxVersionAssumption
  <1>1. PICK q \in Requests : q = request[t] /\ q # NoRequest
    BY DEF CommitReplacePermissions, GrantsInv, TypeOK
  <1>2. q.role \in Roles /\ q.permissions \in SUBSET Permissions
    BY <1>1 DEF Requests
  <1>3. /\ permissionsOf' = [permissionsOf EXCEPT ![q.role] = q.permissions]
        /\ q.role \in roleRows
        /\ authVersion' = [u \in Users |-> authVersion[u] + (IF u \in Affected(q) THEN 1 ELSE 0)]
        /\ \A u \in Affected(q) : authVersion[u] < MaxVersion
        /\ request' = [request EXCEPT ![t] = NoRequest]
        /\ UNCHANGED <<account, rolesOf, roleRows, tokens, signing>>
    BY <1>1 DEF CommitReplacePermissions, Done
  <1>4. \A u \in Users : authVersion[u] \in Nat /\ authVersion[u] <= MaxVersion
    BY DEF GrantsInv, TypeOK
  <1>5. /\ authVersion' \in [Users -> 0..MaxVersion]
        /\ \A u \in Users : authVersion'[u] \in Nat /\ authVersion'[u] >= authVersion[u]
        /\ \A u \in Users : u \in Affected(q) => authVersion'[u] = authVersion[u] + 1
    BY <1>3, <1>4
  <1>6. TypeOK'
    BY <1>2, <1>3, <1>5 DEF GrantsInv, TypeOK
  <1>7. ASSUME NEW k \in tokens \cup signing
        PROVE  /\ k.user \in Users /\ k.version \in Nat /\ account[k.user] # "NONE"
               /\ k.version <= authVersion[k.user] /\ authVersion[k.user] \in Nat
    BY DEF GrantsInv, HeldVersions, TypeOK, Token
  <1>8. HeldVersions'
    BY <1>3, <1>5, <1>7 DEF HeldVersions
  <1>9. NewGrantsVoidTokens
    <2> SUFFICES ASSUME NEW u \in Users, Effective(u)' # Effective(u), NEW k \in tokens, k.user = u
                 PROVE  ~Valid(k)'
      BY DEF NewGrantsVoidTokens
    <2>1. q.role \in rolesOf[u]
      <3>1. \A s \in Roles : s # q.role => permissionsOf'[s] = permissionsOf[s]
        BY <1>3 DEF GrantsInv, TypeOK
      <3>2. rolesOf[u] \subseteq Roles
        BY DEF GrantsInv, TypeOK
      <3>3. QED
        BY <1>3, <3>1, <3>2, UnheldGrantsNothing
    <2>2. u \in Affected(q)
      BY <2>1 DEF Affected, HoldersOf
    <2>3. authVersion'[k.user] # k.version
      BY <1>5, <1>7, <2>2
    <2>4. QED
      BY <2>3 DEF Valid
  <1>10. QED
    BY <1>6, <1>8, <1>9 DEF GrantsInv

(* A role that is removed is held by nobody.                               *)
LEMMA RemoveStep ==
    ASSUME GrantsInv, NEW t \in Clients, CommitRemove(t)
    PROVE  GrantsInv' /\ NewGrantsVoidTokens /\ \A u \in Users : Effective(u)' = Effective(u)
  <1>1. PICK q \in Requests : q = request[t] /\ q # NoRequest
    BY DEF CommitRemove, GrantsInv, TypeOK
  <1>2. /\ roleRows' = roleRows \ {q.role} /\ q.role \in Roles
        /\ permissionsOf' = [permissionsOf EXCEPT ![q.role] = {}]
        /\ \A u \in Users : q.role \notin rolesOf[u]
        /\ request' = [request EXCEPT ![t] = NoRequest]
        /\ UNCHANGED <<account, authVersion, rolesOf, tokens, signing>>
    BY <1>1 DEF CommitRemove, Done, HoldersOf, Requests
  <1>3. TypeOK'
    BY <1>2 DEF GrantsInv, TypeOK
  <1>4. HeldVersions'
    BY <1>2 DEF GrantsInv, HeldVersions
  <1>5. ASSUME NEW u \in Users PROVE Effective(u)' = Effective(u)
    <2>1. /\ q.role \notin rolesOf[u] /\ rolesOf'[u] = rolesOf[u]
          /\ \A s \in rolesOf[u] : s # q.role => permissionsOf'[s] = permissionsOf[s]
      BY <1>2 DEF GrantsInv, TypeOK
    <2>2. QED
      BY <2>1, UnheldGrantsNothing
  <1>6. QED
    BY <1>3, <1>4, <1>5 DEF GrantsInv, NewGrantsVoidTokens

(* A change of what a user may do voids the tokens, whatever else runs.    *)
LEMMA GrantsStep == GrantsInv /\ [Next]_vars => GrantsInv' /\ NewGrantsVoidTokens
  <1> DEFINE Goal == GrantsInv' /\ NewGrantsVoidTokens
  <1> SUFFICES ASSUME GrantsInv, [Next]_vars PROVE Goal
    OBVIOUS
  <1>1. ASSUME \/ \E u \in Users : BeginSigning(u)
               \/ \E k \in Token : IssueTokens(k) \/ DropToken(k)
        PROVE  Goal
    BY <1>1, TokensStep
  <1>2. ASSUME NEW actor \in Users, NEW u \in Users, NEW roles \in RoleChoices,
               createUser(actor, u, roles)
        PROVE  Goal
    BY <1>2, CreateUserStep
  <1>3. ASSUME NEW actor \in Users, NEW r \in Roles, NEW permissions \in PermissionChoices,
               createRole(actor, r, permissions)
        PROVE  Goal
    BY <1>3, CreateRoleStep
  <1>4. ASSUME NEW t \in Clients, NEW actor \in Users, Begin(t, actor) PROVE Goal
    <2>1. PICK q : Fresh(q) /\ Open(t, q)
      BY <1>4, BeginEffect DEF GrantsInv
    <2>2. QED
      BY <2>1, OpenStep
  <1>5. ASSUME NEW t \in Clients,
               \/ CommitUpdateStatus(t) \/ CommitReplaceRoles(t)
               \/ CommitReplacePermissions(t) \/ CommitRemove(t) \/ Rollback(t)
        PROVE  Goal
    BY <1>5, StatusStep, ReplaceRolesStep, ReplacePermissionsStep, RemoveStep, RollbackStep
  <1>6. ASSUME UNCHANGED vars PROVE Goal
    <2>1. GrantsInv'
      BY <1>6 DEF vars, GrantsInv, TypeOK, HeldVersions
    <2>2. QED
      BY <1>6, <2>1, SameGrants DEF vars
  <1> HIDE DEF Goal
  <1>7. QED
    BY <1>1, <1>2, <1>3, <1>4, <1>5, <1>6 DEF Next

(* What holds when requests follow each other: what the open one has read  *)
(* is what the tables say.                                                 *)
OneRequest ==
    \A t, d \in Clients : request[t] # NoRequest /\ request[d] # NoRequest => t = d

ReadIsCurrent ==
    \A t \in Clients : request[t] # NoRequest =>
        LET q == request[t] IN
        /\ account[q.user] # "NONE"
        /\ q.wasActive <=> account[q.user] = "ACTIVE"
        /\ q.op = "replacePermissions" => q.role \in roleRows /\ q.had = permissionsOf[q.role]

AloneInv ==
    /\ GrantsInv /\ OneRequest /\ ReadIsCurrent
    /\ account[Founder] # "NONE"
    /\ AdministratorRemains /\ InactiveHasNoToken

(* Two facts about cardinalities: of a set of at most one element,         *)
LEMMA AtMostOneMember ==
    ASSUME NEW A, IsFiniteSet(A), Cardinality(A) <= 1, NEW a \in A, NEW b \in A
    PROVE  a = b
  <1>1. IsFiniteSet(A \ {a}) /\ Cardinality(A \ {a}) = Cardinality(A) - 1
    BY FS_RemoveElement
  <1>2. Cardinality(A) \in Nat /\ Cardinality(A \ {a}) \in Nat
    BY <1>1, FS_CardinalityType
  <1>3. Cardinality(A \ {a}) = 0
    BY <1>1, <1>2
  <1>4. A \ {a} = {}
    BY <1>1, <1>3, FS_EmptySet
  <1>5. QED
    BY <1>4

(* and of a set of several.                                                *)
LEMMA AnotherMember ==
    ASSUME NEW A, IsFiniteSet(A), Cardinality(A) > 1, NEW a
    PROVE  \E b \in A : b # a
  <1> SUFFICES ASSUME A \subseteq {a} PROVE FALSE
    OBVIOUS
  <1>1. IsFiniteSet({a}) /\ Cardinality({a}) = 1
    BY FS_Singleton
  <1>2. Cardinality(A) <= 1
    BY <1>1, FS_Subset
  <1>3. Cardinality(A) \in Nat
    BY FS_CardinalityType
  <1>4. QED
    BY <1>2, <1>3

(* Where requests follow each other there is one of them.                  *)
LEMMA AloneMeansOne == Alone => OneRequest'
  <1> SUFFICES ASSUME Alone, NEW t \in Clients, NEW d \in Clients,
                      request'[t] # NoRequest, request'[d] # NoRequest
               PROVE  t = d
    BY DEF OneRequest
  <1> DEFINE A == {c \in Clients : request'[c] # NoRequest}
  <1>1. IsFiniteSet(A)
    BY FiniteAssumption, FS_Subset
  <1>2. Cardinality(A) <= 1 /\ t \in A /\ d \in A
    BY DEF Alone
  <1> HIDE DEF A
  <1>3. QED
    BY <1>1, <1>2, AtMostOneMember

(* What the check for another administrator leaves.                        *)
LEMMA AnotherAdministratorRemains ==
    ASSUME AnotherAdministrator, NEW u
    PROVE  \E v \in Administrators : v # u
  <1>1. IsFiniteSet(Administrators)
    BY FiniteAssumption, FS_Subset DEF Administrators
  <1>2. QED
    BY <1>1, AnotherMember DEF AnotherAdministrator

LEMMA AloneInit == Init => AloneInv
  <1> SUFFICES ASSUME Init PROVE AloneInv
    OBVIOUS
  <1> USE RolesAssumption, FounderAssumption
  <1>1. GrantsInv
    BY GrantsInit
  <1>2. OneRequest /\ ReadIsCurrent /\ account[Founder] # "NONE" /\ InactiveHasNoToken
    BY DEF Init, OneRequest, ReadIsCurrent, InactiveHasNoToken
  <1>3. Administers(Founder)
    <2>1. account[Founder] = "ACTIVE" /\ rolesOf[Founder] = {SystemRole}
          /\ "users.manage_roles" \in permissionsOf[SystemRole]
      BY DEF Init, Administrative
    <2>2. QED
      BY <2>1 DEF Administers, Effective
  <1>4. AdministratorRemains
    BY <1>3 DEF AdministratorRemains, Administrators
  <1>5. QED
    BY <1>1, <1>2, <1>4 DEF AloneInv

(* An administrator whose account and grants stay remains one.             *)
LEMMA AdministersStill ==
    ASSUME NEW u \in Users, Administers(u), account'[u] = "ACTIVE", Effective(u)' = Effective(u)
    PROVE  AdministratorRemains'
  BY DEF Administers, AdministratorRemains, Administrators

(* Logins and refreshes carry the authVersion that was read.               *)
LEMMA TokensAlone ==
    ASSUME AloneInv, OneRequest', GrantsInv',
           \/ \E u \in Users : BeginSigning(u)
           \/ \E k \in Token : IssueTokens(k) \/ DropToken(k)
    PROVE  AloneInv'
  <1>1. UNCHANGED <<account, authVersion, rolesOf, roleRows, permissionsOf, request>>
    BY DEF BeginSigning, IssueTokens, DropToken, accounts
  <1>2. ReadIsCurrent' /\ account'[Founder] # "NONE"
    BY <1>1 DEF AloneInv, ReadIsCurrent
  <1>3. AdministratorRemains'
    BY <1>1 DEF AloneInv, AdministratorRemains, Administrators, Administers, Effective
  <1>4. InactiveHasNoToken'
    BY DEF AloneInv, InactiveHasNoToken, BeginSigning, IssueTokens, DropToken, accounts
  <1>5. QED
    BY <1>2, <1>3, <1>4 DEF AloneInv

(* A request that begins has read nothing that could be stale.             *)
LEMMA OpenAlone ==
    ASSUME AloneInv, OneRequest', GrantsInv', NEW t \in Clients, NEW q, Fresh(q), Open(t, q)
    PROVE  AloneInv'
  <1>1. /\ request' = [request EXCEPT ![t] = q]
        /\ UNCHANGED <<account, authVersion, rolesOf, roleRows, permissionsOf, tokens, signing>>
    BY DEF Open, accounts
  <1>2. ReadIsCurrent' /\ account'[Founder] # "NONE"
    BY <1>1 DEF AloneInv, GrantsInv, TypeOK, ReadIsCurrent, Fresh
  <1>3. AdministratorRemains' /\ InactiveHasNoToken'
    BY <1>1 DEF AloneInv, AdministratorRemains, Administrators, Administers, Effective,
                InactiveHasNoToken
  <1>4. QED
    BY <1>2, <1>3 DEF AloneInv

LEMMA RollbackAlone ==
    ASSUME AloneInv, OneRequest', GrantsInv', NEW t \in Clients, Rollback(t)
    PROVE  AloneInv'
  <1>1. /\ request' = [request EXCEPT ![t] = NoRequest]
        /\ UNCHANGED <<account, authVersion, rolesOf, roleRows, permissionsOf, tokens, signing>>
    BY DEF Rollback, Done, accounts
  <1>2. ReadIsCurrent' /\ account'[Founder] # "NONE"
    BY <1>1 DEF AloneInv, GrantsInv, TypeOK, ReadIsCurrent
  <1>3. AdministratorRemains' /\ InactiveHasNoToken'
    BY <1>1 DEF AloneInv, AdministratorRemains, Administrators, Administers, Effective,
                InactiveHasNoToken
  <1>4. QED
    BY <1>2, <1>3 DEF AloneInv

LEMMA CreateUserAlone ==
    ASSUME AloneInv, OneRequest', GrantsInv', NEW actor \in Users, NEW u \in Users,
           NEW roles \in RoleChoices, createUser(actor, u, roles)
    PROVE  AloneInv'
  <1>1. /\ account[u] = "NONE"
        /\ account' = [account EXCEPT ![u] = "ACTIVE"] /\ rolesOf' = [rolesOf EXCEPT ![u] = roles]
        /\ UNCHANGED <<authVersion, roleRows, permissionsOf, tokens, signing, request>>
    BY DEF createUser
  <1>2. ReadIsCurrent' /\ account'[Founder] # "NONE"
    BY <1>1, FounderAssumption DEF AloneInv, GrantsInv, TypeOK, ReadIsCurrent, Requests
  <1>3. AdministratorRemains'
    <2>1. PICK v \in Users : Administers(v)
      BY DEF AloneInv, AdministratorRemains, Administrators
    <2>2. v # u
      BY <1>1, <2>1 DEF Administers
    <2>3. account'[v] = account[v] /\ rolesOf'[v] = rolesOf[v] /\ permissionsOf' = permissionsOf
      BY <1>1, <2>2 DEF AloneInv, GrantsInv, TypeOK
    <2>4. QED
      BY <2>1, <2>3, AdministersStill DEF Administers, Effective
  <1>4. InactiveHasNoToken'
    BY <1>1 DEF AloneInv, GrantsInv, TypeOK, InactiveHasNoToken
  <1>5. QED
    BY <1>2, <1>3, <1>4 DEF AloneInv

LEMMA CreateRoleAlone ==
    ASSUME AloneInv, OneRequest', GrantsInv', NEW actor \in Users, NEW r \in Roles,
           NEW permissions \in PermissionChoices, createRole(actor, r, permissions)
    PROVE  AloneInv'
  <1>1. /\ r \notin roleRows /\ roleRows' = roleRows \cup {r}
        /\ permissionsOf' = [permissionsOf EXCEPT ![r] = permissions]
        /\ UNCHANGED <<account, authVersion, rolesOf, tokens, signing, request>>
    BY DEF createRole
  <1>2. ReadIsCurrent' /\ account'[Founder] # "NONE"
    BY <1>1 DEF AloneInv, GrantsInv, TypeOK, ReadIsCurrent
  <1>3. AdministratorRemains'
    <2>1. PICK v \in Users : Administers(v)
      BY DEF AloneInv, AdministratorRemains, Administrators
    <2>2. Effective(v)' = Effective(v)
      BY CreateRoleStep DEF AloneInv
    <2>3. QED
      BY <1>1, <2>1, <2>2, AdministersStill DEF Administers
  <1>4. InactiveHasNoToken'
    BY <1>1 DEF AloneInv, InactiveHasNoToken
  <1>5. QED
    BY <1>2, <1>3, <1>4 DEF AloneInv

(* The request that ends was the only one.                                 *)
LEMMA NoneOpen ==
    ASSUME AloneInv, NEW t \in Clients, request[t] # NoRequest, Done(t)
    PROVE  \A d \in Clients : request'[d] = NoRequest
  BY DEF AloneInv, OneRequest, Done, GrantsInv, TypeOK

(* The one request under way has counted the administrators as they are,   *)
(* so a deactivation leaves one; and an inactive user has no token, since  *)
(* deactivation raises authVersion.                                        *)
LEMMA StatusAlone ==
    ASSUME AloneInv, OneRequest', GrantsInv', NEW t \in Clients, CommitUpdateStatus(t)
    PROVE  AloneInv'
  <1> USE MaxVersionAssumption
  <1>1. PICK q \in Requests : q = request[t] /\ q # NoRequest
    BY DEF CommitUpdateStatus, AloneInv, GrantsInv, TypeOK
  <1>2. /\ q.user \in Users /\ q.on \in BOOLEAN /\ account[q.user] # "NONE"
        /\ q.wasActive <=> account[q.user] = "ACTIVE"
    BY <1>1 DEF Requests, AloneInv, ReadIsCurrent
  <1>3. /\ account' = [account EXCEPT ![q.user] = IF q.on THEN "ACTIVE" ELSE "INACTIVE"]
        /\ authVersion' = [authVersion EXCEPT ![q.user] = VersionAfterStatus(q)]
        /\ (~q.on /\ q.wasActive /\ Administers(q.user)) => AnotherAdministrator
        /\ Done(t)
        /\ UNCHANGED <<rolesOf, roleRows, permissionsOf, tokens, signing>>
    BY <1>1 DEF CommitUpdateStatus
  <1>4. ReadIsCurrent' /\ account'[Founder] # "NONE"
    BY <1>1, <1>3, NoneOpen, FounderAssumption DEF AloneInv, GrantsInv, TypeOK, ReadIsCurrent
  <1>5. account'[q.user] = IF q.on THEN "ACTIVE" ELSE "INACTIVE"
    BY <1>2, <1>3 DEF AloneInv, GrantsInv, TypeOK
  <1>6. ASSUME NEW v \in Users, Administers(v), v # q.user \/ q.on PROVE AdministratorRemains'
    <2>1. account'[v] = "ACTIVE"
      <3>1. CASE v = q.user
        BY <1>5, <1>6, <3>1
      <3>2. CASE v # q.user
        BY <1>3, <1>6, <3>2 DEF Administers, AloneInv, GrantsInv, TypeOK
      <3>3. QED
        BY <3>1, <3>2
    <2>2. Effective(v)' = Effective(v)
      BY <1>3 DEF Effective
    <2>3. QED
      BY <1>6, <2>1, <2>2, AdministersStill
  <1>7. AdministratorRemains'
    <2>1. PICK u \in Users : Administers(u)
      BY DEF AloneInv, AdministratorRemains, Administrators
    <2>2. CASE u # q.user \/ q.on
      BY <1>6, <2>1, <2>2
    <2>3. CASE u = q.user /\ ~q.on
      <3>1. AnotherAdministrator
        BY <1>2, <1>3, <2>1, <2>3 DEF Administers
      <3>2. PICK v \in Administrators : v # u
        BY <3>1, AnotherAdministratorRemains
      <3>3. QED
        BY <1>6, <2>3, <3>2 DEF Administrators
    <2>4. QED
      BY <2>2, <2>3
  <1>8. InactiveHasNoToken'
    <2> SUFFICES ASSUME NEW u \in Users, account'[u] = "INACTIVE",
                        NEW k \in tokens \cup signing, k.user = u
                 PROVE  k.version # authVersion'[u]
      BY <1>3 DEF InactiveHasNoToken
    <2>1. /\ k.version \in Nat /\ authVersion[u] \in Nat /\ k.version <= authVersion[u]
          /\ account[u] = "INACTIVE" => k.version # authVersion[u]
      BY DEF AloneInv, InactiveHasNoToken, GrantsInv, HeldVersions, TypeOK, Token
    <2>2. CASE u # q.user
      BY <1>3, <2>1, <2>2 DEF AloneInv, GrantsInv, TypeOK
    <2>3. CASE u = q.user
      <3>1. ~q.on
        BY <1>2, <1>5, <2>3
      <3>2. authVersion'[u] = VersionAfterStatus(q)
        BY <1>2, <1>3, <2>3 DEF AloneInv, GrantsInv, TypeOK
      <3>3. CASE q.wasActive
        <4>1. authVersion'[u] = authVersion[u] + 1
          BY <2>3, <3>1, <3>2, <3>3 DEF VersionAfterStatus
        <4>2. QED
          BY <2>1, <4>1
      <3>4. CASE ~q.wasActive
        <4>1. authVersion'[u] = authVersion[u]
          BY <2>3, <3>2, <3>4 DEF VersionAfterStatus
        <4>2. account[u] = "INACTIVE"
          BY <1>2, <2>3, <3>4 DEF AloneInv, GrantsInv, TypeOK
        <4>3. QED
          BY <2>1, <4>1, <4>2
      <3>5. QED
        BY <3>3, <3>4
    <2>4. QED
      BY <2>2, <2>3
  <1>9. QED
    BY <1>4, <1>7, <1>8 DEF AloneInv

(* The same count for a user who loses a role,                             *)
LEMMA ReplaceRolesAlone ==
    ASSUME AloneInv, OneRequest', GrantsInv', NEW t \in Clients, CommitReplaceRoles(t)
    PROVE  AloneInv'
  <1> USE MaxVersionAssumption
  <1>1. PICK q \in Requests : q = request[t] /\ q # NoRequest
    BY DEF CommitReplaceRoles, AloneInv, GrantsInv, TypeOK
  <1>2. q.user \in Users /\ (q.wasActive <=> account[q.user] = "ACTIVE")
    BY <1>1 DEF Requests, AloneInv, ReadIsCurrent
  <1>3. /\ rolesOf' = [rolesOf EXCEPT ![q.user] = q.roles]
        /\ authVersion' = [authVersion EXCEPT ![q.user] = @ + 1]
        /\ (q.wasActive /\ Administers(q.user) /\ ~Remains(q)) => AnotherAdministrator
        /\ Done(t)
        /\ UNCHANGED <<account, roleRows, permissionsOf, tokens, signing>>
    BY <1>1 DEF CommitReplaceRoles
  <1>4. ReadIsCurrent' /\ account'[Founder] # "NONE"
    BY <1>1, <1>3, NoneOpen DEF AloneInv, ReadIsCurrent
  <1>5. ASSUME NEW v \in Users, Administers(v), v # q.user PROVE AdministratorRemains'
    <2>1. rolesOf'[v] = rolesOf[v]
      BY <1>3, <1>5 DEF AloneInv, GrantsInv, TypeOK
    <2>2. Effective(v)' = Effective(v) /\ account'[v] = "ACTIVE"
      BY <1>3, <1>5, <2>1 DEF Effective, Administers
    <2>3. QED
      BY <1>5, <2>2, AdministersStill
  <1>6. AdministratorRemains'
    <2>1. PICK u \in Users : Administers(u)
      BY DEF AloneInv, AdministratorRemains, Administrators
    <2>2. CASE u # q.user
      BY <1>5, <2>1, <2>2
    <2>3. CASE u = q.user /\ Remains(q)
      <3>1. rolesOf'[u] = q.roles
        BY <1>2, <1>3, <2>3 DEF AloneInv, GrantsInv, TypeOK
      <3>2. PICK r \in q.roles : "users.manage_roles" \in permissionsOf[r]
        BY <2>3 DEF Remains
      <3>3. "users.manage_roles" \in Effective(u)'
        BY <1>3, <3>1, <3>2 DEF Effective
      <3>4. QED
        BY <1>3, <2>1, <3>3 DEF Administers, AdministratorRemains, Administrators
    <2>4. CASE u = q.user /\ ~Remains(q)
      <3>1. AnotherAdministrator
        BY <1>2, <1>3, <2>1, <2>4 DEF Administers
      <3>2. PICK v \in Administrators : v # u
        BY <3>1, AnotherAdministratorRemains
      <3>3. QED
        BY <1>5, <2>4, <3>2 DEF Administrators
    <2>5. QED
      BY <2>2, <2>3, <2>4
  <1>7. InactiveHasNoToken'
    <2> SUFFICES ASSUME NEW u \in Users, account[u] = "INACTIVE",
                        NEW k \in tokens \cup signing, k.user = u
                 PROVE  k.version # authVersion'[u]
      BY <1>3 DEF InactiveHasNoToken
    <2>1. /\ k.version \in Nat /\ authVersion[u] \in Nat /\ k.version <= authVersion[u]
          /\ k.version # authVersion[u]
      BY DEF AloneInv, InactiveHasNoToken, GrantsInv, HeldVersions, TypeOK, Token
    <2>2. authVersion'[u] = authVersion[u] \/ authVersion'[u] = authVersion[u] + 1
      BY <1>2, <1>3 DEF AloneInv, GrantsInv, TypeOK
    <2>3. QED
      BY <2>1, <2>2
  <1>8. QED
    BY <1>4, <1>6, <1>7 DEF AloneInv

(* for a role that loses a permission,                                     *)
LEMMA ReplacePermissionsAlone ==
    ASSUME AloneInv, OneRequest', GrantsInv', NEW t \in Clients, CommitReplacePermissions(t)
    PROVE  AloneInv'
  <1> USE MaxVersionAssumption
  <1>1. PICK q \in Requests : q = request[t] /\ q # NoRequest
    BY DEF CommitReplacePermissions, AloneInv, GrantsInv, TypeOK
  <1>2. /\ q.role \in Roles /\ q.had = permissionsOf[q.role]
        /\ "users.manage_roles" \in q.had \ q.permissions
             /\ (\E u \in HoldersOf(q.role) : account[u] = "ACTIVE") => OtherAdministrators(q.role) # {}
    BY <1>1 DEF Requests, AloneInv, ReadIsCurrent, CommitReplacePermissions
  <1>3. /\ permissionsOf' = [permissionsOf EXCEPT ![q.role] = q.permissions]
        /\ authVersion' = [u \in Users |-> authVersion[u] + (IF u \in Affected(q) THEN 1 ELSE 0)]
        /\ Done(t)
        /\ UNCHANGED <<account, rolesOf, roleRows, tokens, signing>>
    BY <1>1 DEF CommitReplacePermissions
  <1>4. ReadIsCurrent' /\ account'[Founder] # "NONE"
    BY <1>1, <1>3, NoneOpen DEF AloneInv, ReadIsCurrent
  <1>5. /\ permissionsOf'[q.role] = q.permissions
        /\ \A s \in Roles : s # q.role => permissionsOf'[s] = permissionsOf[s]
    BY <1>2, <1>3 DEF AloneInv, GrantsInv, TypeOK
  <1>6. ASSUME NEW v \in Users, account[v] = "ACTIVE", NEW s \in rolesOf[v],
               "users.manage_roles" \in permissionsOf'[s]
        PROVE  AdministratorRemains'
    <2>1. "users.manage_roles" \in Effective(v)'
      BY <1>3, <1>6 DEF Effective
    <2>2. QED
      BY <1>3, <1>6, <2>1 DEF Administers, AdministratorRemains, Administrators
  <1>7. AdministratorRemains'
    <2>1. PICK u \in Users : Administers(u)
      BY DEF AloneInv, AdministratorRemains, Administrators
    <2>2. PICK s \in rolesOf[u] : "users.manage_roles" \in permissionsOf[s]
      BY <2>1 DEF Administers, Effective
    <2>3. account[u] = "ACTIVE" /\ s \in Roles
      BY <2>1 DEF Administers, AloneInv, GrantsInv, TypeOK
    <2>4. CASE s # q.role \/ "users.manage_roles" \in q.permissions
      <3>1. "users.manage_roles" \in permissionsOf'[s]
        BY <1>5, <2>2, <2>3, <2>4
      <3>2. QED
        BY <1>6, <2>3, <3>1
    <2>5. CASE s = q.role /\ "users.manage_roles" \notin q.permissions
      <3>1. OtherAdministrators(q.role) # {}
        BY <1>2, <2>2, <2>3, <2>5 DEF HoldersOf
      <3>2. PICK v \in Users : /\ account[v] = "ACTIVE"
                               /\ \E x \in rolesOf[v] \ {q.role} : "users.manage_roles" \in permissionsOf[x]
        BY <3>1 DEF OtherAdministrators
      <3>3. PICK x \in rolesOf[v] : x # q.role /\ "users.manage_roles" \in permissionsOf[x]
        BY <3>2
      <3>4. x \in Roles
        BY DEF AloneInv, GrantsInv, TypeOK
      <3>5. "users.manage_roles" \in permissionsOf'[x]
        BY <1>5, <3>3, <3>4
      <3>6. QED
        BY <1>6, <3>2, <3>5
    <2>6. QED
      BY <2>4, <2>5
  <1>8. InactiveHasNoToken'
    <2> SUFFICES ASSUME NEW u \in Users, account[u] = "INACTIVE",
                        NEW k \in tokens \cup signing, k.user = u
                 PROVE  k.version # authVersion'[u]
      BY <1>3 DEF InactiveHasNoToken
    <2>1. /\ k.version \in Nat /\ authVersion[u] \in Nat /\ k.version <= authVersion[u]
          /\ k.version # authVersion[u]
      BY DEF AloneInv, InactiveHasNoToken, GrantsInv, HeldVersions, TypeOK, Token
    <2>2. authVersion'[u] = authVersion[u] \/ authVersion'[u] = authVersion[u] + 1
      BY <1>3, <2>1
    <2>3. QED
      BY <2>1, <2>2
  <1>9. QED
    BY <1>4, <1>7, <1>8 DEF AloneInv

(* and for a role that is removed, which nobody holds.                     *)
LEMMA RemoveAlone ==
    ASSUME AloneInv, OneRequest', GrantsInv', NEW t \in Clients, CommitRemove(t)
    PROVE  AloneInv'
  <1>1. /\ request[t] # NoRequest /\ Done(t)
        /\ UNCHANGED <<account, authVersion, rolesOf, tokens, signing>>
    BY DEF CommitRemove
  <1>2. ReadIsCurrent' /\ account'[Founder] # "NONE"
    BY <1>1, NoneOpen DEF AloneInv, ReadIsCurrent
  <1>3. AdministratorRemains'
    <2>1. PICK v \in Users : Administers(v)
      BY DEF AloneInv, AdministratorRemains, Administrators
    <2>2. Effective(v)' = Effective(v)
      BY RemoveStep DEF AloneInv
    <2>3. QED
      BY <1>1, <2>1, <2>2, AdministersStill DEF Administers
  <1>4. InactiveHasNoToken'
    BY <1>1 DEF AloneInv, InactiveHasNoToken
  <1>5. QED
    BY <1>2, <1>3, <1>4 DEF AloneInv

(* Requests that follow each other keep an administrator, and no token of  *)
(* an inactive account that an activation could bring back to life.        *)
LEMMA AloneStep == AloneInv /\ Next /\ Alone => AloneInv'
  <1> SUFFICES ASSUME AloneInv, Next, Alone PROVE AloneInv'
    OBVIOUS
  <1>1. OneRequest' /\ GrantsInv'
    BY AloneMeansOne, GrantsStep DEF AloneInv
  <1>2. ASSUME \/ \E u \in Users : BeginSigning(u)
               \/ \E k \in Token : IssueTokens(k) \/ DropToken(k)
        PROVE  AloneInv'
    BY <1>1, <1>2, TokensAlone
  <1>3. ASSUME NEW actor \in Users, NEW u \in Users, NEW roles \in RoleChoices,
               createUser(actor, u, roles)
        PROVE  AloneInv'
    BY <1>1, <1>3, CreateUserAlone
  <1>4. ASSUME NEW actor \in Users, NEW r \in Roles, NEW permissions \in PermissionChoices,
               createRole(actor, r, permissions)
        PROVE  AloneInv'
    BY <1>1, <1>4, CreateRoleAlone
  <1>5. ASSUME NEW t \in Clients, NEW actor \in Users, Begin(t, actor) PROVE AloneInv'
    <2>1. PICK q : Fresh(q) /\ Open(t, q)
      BY <1>5, BeginEffect DEF AloneInv, GrantsInv
    <2>2. QED
      BY <1>1, <2>1, OpenAlone
  <1>6. ASSUME NEW t \in Clients,
               \/ CommitUpdateStatus(t) \/ CommitReplaceRoles(t)
               \/ CommitReplacePermissions(t) \/ CommitRemove(t) \/ Rollback(t)
        PROVE  AloneInv'
    BY <1>1, <1>6, StatusAlone, ReplaceRolesAlone, ReplacePermissionsAlone, RemoveAlone,
       RollbackAlone
  <1>7. QED
    BY <1>2, <1>3, <1>4, <1>5, <1>6 DEF Next

LEMMA AloneRests == AloneInv /\ UNCHANGED vars => AloneInv'
  <1> SUFFICES ASSUME AloneInv, UNCHANGED vars PROVE AloneInv'
    OBVIOUS
  <1>1. GrantsInv'
    BY GrantsStep DEF AloneInv
  <1>2. OneRequest' /\ ReadIsCurrent' /\ account'[Founder] # "NONE" /\ InactiveHasNoToken'
    BY DEF AloneInv, OneRequest, ReadIsCurrent, InactiveHasNoToken, vars
  <1>3. AdministratorRemains'
    BY DEF AloneInv, AdministratorRemains, Administrators, Administers, Effective, vars
  <1>4. QED
    BY <1>1, <1>2, <1>3 DEF AloneInv
-----------------------------------------------------------------------------
(* Editing: what a form holds.                                             *)

(* A field the user has not typed in holds the row that filled the form.   *)
Untouched(h) ==
    h # E!Empty => \A f \in E!Fields \ h.typed : h.fields[f] = h.base[f]

(* That row is, in the fields of the form, the one its page shows.         *)
OnPage(h, r) ==
    (form.follows # "none" /\ ~reverted /\ r # E!NoRow) => \A f \in E!Fields : h.base[f] = r[f]

EditingInv ==
    /\ E!TypeOK
    /\ Untouched(held) /\ OnPage(held, shown)
    /\ save # E!NoSave => Untouched(save.held) /\ OnPage(save.held, save.shown)
    /\ form.dialog /\ open => shown # E!NoRow

(* Rows, contents and saves are told apart from the signs in their places. *)
LEMMA EditingRecords ==
    /\ \A r \in E!Records : r # E!NoRow /\ r.text \in Values /\ r.choice \in Values /\ r.mark \in BOOLEAN
    /\ \A h \in E!Contents : h # E!Empty
    /\ \A s \in E!Saves : s # E!NoSave
    /\ E!NoSave.at = "none"
  <1>1. ASSUME NEW r \in E!Records PROVE r # E!NoRow
    <2>1. "choice" \in DOMAIN r /\ "choice" \notin DOMAIN E!NoRow
      BY DEF E!Records, E!NoRow
    <2>2. QED
      BY <2>1
  <1>2. ASSUME NEW h \in E!Contents PROVE h # E!Empty
    <2>1. h.base \in E!Records /\ E!Empty.base = E!NoRow
      BY DEF E!Contents, E!Empty
    <2>2. QED
      BY <1>1, <2>1
  <1>3. ASSUME NEW s \in E!Saves PROVE s # E!NoSave
    <2>1. s.at # "none" /\ E!NoSave.at = "none"
      BY DEF E!Saves, E!NoSave
    <2>2. QED
      BY <2>1
  <1>4. \A r \in E!Records : r.text \in Values /\ r.choice \in Values /\ r.mark \in BOOLEAN
    BY DEF E!Records
  <1>5. QED
    BY <1>1, <1>2, <1>3, <1>4 DEF E!NoSave

(* The forms whose closing forgets follow everything; the one form that is *)
(* a page but of no document keeps what is typed.                          *)
LEMMA EditFormKinds ==
    \A k \in E!EditForms :
        /\ k.follows \in {"all", "edited", "untouched", "none"}
        /\ k.forgets => k.follows = "all"
        /\ ~k.dialog /\ ~k.drafts => k.follows = "untouched"
  BY DEF E!EditForms, E!Form, E!CustomerForm, E!SupplierForm, E!WarehouseForm,
         E!StockLocationForm, E!RoleForm, E!EditUserForm, E!UserRolesForm,
         E!RolePermissionsForm, E!ProductForm, E!PurchaseOrderForm, E!SalesOrderForm,
         E!FinancialEntryForm

(* A form that is filled from a row shows it and was typed nothing.        *)
LEMMA FilledType ==
    ASSUME NEW r \in E!Records
    PROVE  /\ E!Filled(r) \in E!Contents /\ Untouched(E!Filled(r))
           /\ E!Filled(r).base = r /\ E!Filled(r).typed = {}
           /\ \A f \in E!Fields : E!Filled(r).fields[f] = r[f]
  <1>1. E!Content(r) \in [E!Fields -> Values] /\ \A f \in E!Fields : E!Content(r)[f] = r[f]
    BY DEF E!Content, E!Fields, E!Records
  <1>2. /\ E!Filled(r).base = r /\ E!Filled(r).typed = {}
        /\ E!Filled(r).fields = E!Content(r)
        /\ E!Filled(r) = [fields |-> E!Content(r), typed |-> {}, base |-> r]
    BY DEF E!Filled
  <1>3. E!Filled(r) \in E!Contents
    BY <1>1, <1>2 DEF E!Contents
  <1>4. QED
    BY <1>1, <1>2, <1>3 DEF Untouched

(* What a form holds after a row has arrived, for each way of following.   *)
LEMMA FollowHolds ==
    ASSUME form \in E!EditForms, shown \in E!Records, NEW new \in E!Records,
           NEW h \in E!Contents, Untouched(h)
    PROVE  /\ E!Follow(h, new) \in E!Contents /\ Untouched(E!Follow(h, new))
           /\ (form.follows # "none" /\ \A f \in E!Fields : h.base[f] = shown[f])
                => \A f \in E!Fields : E!Follow(h, new).base[f] = new[f]
           /\ (form.follows # "none" /\ new # shown /\ form.follows # "edited")
                => E!Follow(h, new).base = new
           /\ form.follows = "none" => E!Follow(h, new) = h
           /\ (form.follows = "untouched" /\ "text" \in h.typed)
                => E!Follow(h, new).fields["text"] = h.fields["text"]
  <1> DEFINE g == E!Follow(h, new)
  <1>1. E!Filled(new) \in E!Contents /\ Untouched(E!Filled(new)) /\ E!Filled(new).base = new
    BY FilledType
  <1>2. CASE form.follows = "all"
    <2>1. g = IF new # shown THEN E!Filled(new) ELSE h
      BY <1>2 DEF E!Follow
    <2> HIDE DEF g
    <2>2. QED
      BY <1>1, <1>2, <2>1 DEF g
  <1>3. CASE form.follows = "edited"
    <2>1. g = IF E!Content(new) # E!Content(shown) THEN E!Filled(new) ELSE h
      BY <1>3 DEF E!Follow
    <2>2. E!Content(new) = E!Content(shown) => \A f \in E!Fields : new[f] = shown[f]
      <3>1. \A f \in E!Fields : E!Content(new)[f] = new[f] /\ E!Content(shown)[f] = shown[f]
        BY DEF E!Content
      <3>2. QED
        BY <3>1
    <2> HIDE DEF g
    <2>3. QED
      BY <1>1, <1>3, <2>1, <2>2 DEF g
  <1>4. CASE form.follows = "untouched"
    <2>1. CASE new = shown
      <3>1. g = h
        BY <1>4, <2>1 DEF E!Follow
      <3>2. QED
        BY <1>4, <2>1, <3>1
    <2>2. CASE new # shown
      <3> DEFINE text == IF "text" \in h.typed THEN h.fields["text"] ELSE new.text
                 fields == [E!Content(new) EXCEPT !["text"] = text]
      <3>1. g = [fields |-> [E!Content(new) EXCEPT !["text"] =
                               IF "text" \in h.typed THEN h.fields["text"] ELSE @],
                 typed |-> h.typed \ {"choice"}, base |-> new]
        BY <1>4, <2>2 DEF E!Follow
      <3>2. h.typed \in SUBSET E!Fields /\ h.fields \in [E!Fields -> Values] /\ text \in Values
        BY EditingRecords DEF E!Contents, E!Fields
      <3>3. E!Content(new) \in [E!Fields -> Values] /\ E!Content(new)["text"] = new.text
            /\ E!Content(new)["choice"] = new.choice
        BY DEF E!Content, E!Fields, E!Records
      <3>4. /\ fields \in [E!Fields -> Values] /\ fields["text"] = text
            /\ fields["choice"] = new.choice
        BY <3>2, <3>3 DEF E!Fields
      <3>5. g = [fields |-> fields, typed |-> h.typed \ {"choice"}, base |-> new]
        BY <3>1, <3>3
      <3> HIDE DEF fields, g
      <3>6. g.fields = fields /\ g.typed = h.typed \ {"choice"} /\ g.base = new
        BY <3>5
      <3>7. g \in E!Contents
        BY <3>2, <3>4, <3>5 DEF E!Contents
      <3>8. Untouched(g)
        BY <3>2, <3>4, <3>6 DEF Untouched, E!Fields
      <3>9. g.fields["text"] = text
        BY <3>4, <3>6
      <3>10. QED
        BY <1>4, <2>2, <3>6, <3>7, <3>8, <3>9 DEF g
    <2>3. QED
      BY <2>1, <2>2
  <1>5. CASE form.follows = "none"
    BY <1>5 DEF E!Follow
  <1>6. QED
    BY <1>2, <1>3, <1>4, <1>5, EditFormKinds

LEMMA EditingInit == E!Init => EditingInv
  <1> SUFFICES ASSUME E!Init PROVE EditingInv
    OBVIOUS
  <1>1. /\ form \in E!EditForms /\ row \in E!Records /\ shown \in {row, E!NoRow}
        /\ failed = FALSE /\ fetch = E!Sent /\ open \in BOOLEAN
        /\ held = IF shown = E!NoRow THEN E!Empty ELSE E!Filled(shown)
        /\ save = E!NoSave /\ reverted = FALSE
        /\ moves = 0 /\ changes = 0 /\ refetches = 0
    BY DEF E!Init
  <1>2. E!TypeOK
    <2>1. held = E!Empty \/ held \in E!Contents
      BY <1>1, FilledType
    <2>2. shown # E!NoRow => held # E!Empty
      BY <1>1, FilledType, EditingRecords
    <2>3. moves \in 0..MaxMoves /\ changes \in 0..MaxChanges /\ refetches \in 0..MaxFetches
      BY <1>1, RecordsAssumption DEF E!EditingAssumption
    <2>4. shown \in E!Records \cup {E!NoRow}
      BY <1>1
    <2>5. QED
      BY <1>1, <2>1, <2>2, <2>3, <2>4 DEF E!TypeOK
  <1>3. Untouched(held) /\ OnPage(held, shown)
    BY <1>1, FilledType, EditingRecords DEF Untouched, OnPage
  <1>4. form.dialog /\ open => shown # E!NoRow
    BY DEF E!Init
  <1>5. QED
    BY <1>1, <1>2, <1>3, <1>4 DEF EditingInv

(* What a step of a form keeps.                                            *)
EditingGoal ==
    EditingInv' /\ E!TypedOrShown' /\ E!SaveSparesOthers /\ E!TypedStays

(* A form that is drawn shows the row it holds, where nothing is typed.    *)
LEMMA ShownIsHeld == EditingInv => E!TypedOrShown
  <1> SUFFICES ASSUME EditingInv, open, E!Drawn, form.follows # "none", ~reverted,
                      NEW f \in E!Fields \ held.typed
               PROVE  held.fields[f] = shown[f]
    BY DEF E!TypedOrShown
  <1>1. shown # E!NoRow /\ held # E!Empty
    BY DEF E!Drawn, EditingInv, E!TypeOK
  <1>2. held.fields[f] = held.base[f] /\ held.base[f] = shown[f]
    BY <1>1 DEF EditingInv, Untouched, OnPage
  <1>3. QED
    BY <1>2

(* A step that writes no row takes back no change,                         *)
LEMMA RowRests == row' = row => E!SaveSparesOthers
  BY DEF E!SaveSparesOthers

(* and one that leaves the form leaves what was typed.                     *)
LEMMA FieldsRest == held' = held => E!TypedStays
  BY DEF E!TypedStays

(* Opening, closing and typing are counted.                                *)
LEMMA MoveCounts == E!TypeOK /\ E!Move => moves' \in 0..MaxMoves /\ moves' # moves /\ E!TypedStays
  <1> SUFFICES ASSUME E!TypeOK, E!Move PROVE moves' \in 0..MaxMoves /\ moves' # moves /\ E!TypedStays
    OBVIOUS
  <1>1. moves' \in 0..MaxMoves /\ moves' # moves
    BY RecordsAssumption DEF E!TypeOK, E!Move, E!EditingAssumption
  <1>2. QED
    BY <1>1 DEF E!TypedStays

(* An instance of an invariant's successor, from its parts.                *)
LEMMA EditingNext ==
    ASSUME EditingInv', E!SaveSparesOthers, E!TypedStays
    PROVE  EditingGoal
  BY ShownIsHeld, PTL DEF EditingGoal

(* A form is opened with what its page shows.                              *)
LEMMA OpenForm ==
    ASSUME EditingInv, E!Open \/ E!Close
    PROVE  EditingGoal
  <1>1. /\ E!Move /\ open' \in BOOLEAN /\ held' \in {held, E!Filled(shown)}
        /\ UNCHANGED <<form, row, shown, failed, fetch, save, reverted, changes, refetches>>
    BY DEF E!Open, E!Close
  <1>2. shown \in E!Records /\ held \in E!Contents
    <2>1. CASE E!Open
      BY <2>1 DEF E!Open, E!Drawn, EditingInv, E!TypeOK
    <2>2. CASE E!Close
      BY <2>2 DEF E!Close, EditingInv, E!TypeOK
    <2>3. QED
      BY <2>1, <2>2
  <1>3. /\ held' \in E!Contents /\ Untouched(held)' /\ OnPage(held, shown)'
    <2>1. CASE held' = held
      BY <1>1, <1>2, <2>1 DEF EditingInv, Untouched, OnPage
    <2>2. CASE held' = E!Filled(shown)
      <3>1. held' \in E!Contents /\ Untouched(held') /\ held'.base = shown
        BY <1>2, <2>2, FilledType
      <3>2. QED
        BY <1>1, <3>1 DEF Untouched, OnPage
    <2>3. QED
      BY <1>1, <2>1, <2>2
  <1>4. E!TypeOK'
    BY <1>1, <1>2, <1>3, MoveCounts, EditingRecords DEF EditingInv, E!TypeOK
  <1>5. EditingInv'
    BY <1>1, <1>2, <1>3, <1>4, EditingRecords DEF EditingInv, Untouched, OnPage
  <1>6. QED
    BY <1>1, <1>5, RowRests, MoveCounts, EditingNext DEF EditingInv

(* What is typed is in the form, and remembered as typed.                  *)
LEMMA TypeField ==
    ASSUME EditingInv, NEW f \in E!Fields, NEW v \in Values, E!Type(f, v)
    PROVE  EditingGoal
  <1>1. /\ E!Move /\ open
        /\ held' = [held EXCEPT !.fields[f] = v,
                                !.typed = IF v = held.base[f] THEN @ \ {f} ELSE @ \cup {f}]
        /\ UNCHANGED <<form, row, shown, failed, fetch, open, save, reverted, changes, refetches>>
    BY DEF E!Type
  <1>2. shown \in E!Records /\ held \in E!Contents
    BY DEF E!Type, E!Drawn, EditingInv, E!TypeOK
  <1>3. held.fields \in [E!Fields -> Values] /\ held.typed \in SUBSET E!Fields /\ held.base \in E!Records
    BY <1>2 DEF E!Contents
  <1>4. /\ held'.fields = [held.fields EXCEPT ![f] = v] /\ held'.base = held.base
        /\ held'.typed = IF v = held.base[f] THEN held.typed \ {f} ELSE held.typed \cup {f}
        /\ held' = [fields |-> held'.fields, typed |-> held'.typed, base |-> held'.base]
    BY <1>1, <1>2 DEF E!Contents
  <1>5. held' \in E!Contents
    BY <1>3, <1>4 DEF E!Contents
  <1>6. Untouched(held)'
    BY <1>2, <1>3, <1>4, EditingRecords DEF EditingInv, Untouched
  <1>7. OnPage(held, shown)'
    BY <1>1, <1>4 DEF EditingInv, OnPage
  <1>8. E!TypeOK'
    BY <1>1, <1>5, MoveCounts, EditingRecords DEF EditingInv, E!TypeOK
  <1>9. EditingInv'
    BY <1>1, <1>2, <1>6, <1>7, <1>8, EditingRecords DEF EditingInv, Untouched, OnPage
  <1>10. QED
    BY <1>1, <1>9, RowRests, MoveCounts, EditingNext DEF EditingInv

(* A save carries the form as it stands, and the page it stands on.        *)
LEMMA SubmitForm ==
    ASSUME EditingInv, E!Submit
    PROVE  EditingGoal
  <1> DEFINE s == [at |-> "sent", held |-> held, shown |-> shown, alive |-> TRUE]
  <1>1. /\ E!Move /\ save' = s
        /\ UNCHANGED <<form, row, shown, failed, fetch, open, held, reverted, changes, refetches>>
    BY DEF E!Submit
  <1>2. shown \in E!Records /\ held \in E!Contents
    BY DEF E!Submit, E!Drawn, EditingInv, E!TypeOK
  <1>3. s \in E!Saves /\ s.held = held /\ s.shown = shown
    BY <1>2 DEF E!Saves
  <1> HIDE DEF s
  <1>4. E!TypeOK'
    BY <1>1, <1>3, MoveCounts DEF EditingInv, E!TypeOK
  <1>5. EditingInv'
    BY <1>1, <1>3, <1>4 DEF EditingInv, Untouched, OnPage
  <1>6. QED
    BY <1>1, <1>5, RowRests, MoveCounts, EditingNext DEF EditingInv

(* Other users, fetches, and answers that leave the form as it is.         *)
LEMMA ElsewhereStep ==
    ASSUME EditingInv,
           UNCHANGED <<form, shown, held, reverted>>,
           row' \in E!Records, failed' \in BOOLEAN,
           fetch' \in {E!Idle, E!Sent} \cup {E!Back(r) : r \in E!Records},
           open' \in BOOLEAN, open' => open,
           \/ save' = E!NoSave
           \/ save # E!NoSave /\ save' \in E!Saves /\ save'.held = save.held /\ save'.shown = save.shown
           \/ save' = save,
           moves' \in 0..MaxMoves, changes' \in 0..MaxChanges, refetches' \in 0..MaxFetches
    PROVE  EditingInv' /\ E!TypedStays
  <1>2. save' = E!NoSave \/ save' \in E!Saves
    BY DEF EditingInv, E!TypeOK
  <1>3. E!TypeOK'
    BY <1>2 DEF EditingInv, E!TypeOK
  <1>4. Untouched(held)' /\ OnPage(held, shown)'
    BY DEF EditingInv, Untouched, OnPage
  <1>5. (save # E!NoSave => Untouched(save.held) /\ OnPage(save.held, save.shown))'
    BY DEF EditingInv, Untouched, OnPage
  <1>6. EditingInv'
    BY <1>3, <1>4, <1>5 DEF EditingInv
  <1>7. QED
    BY <1>6, FieldsRest

LEMMA RefetchStep == EditingInv /\ E!Refetch => EditingGoal
  <1> SUFFICES ASSUME EditingInv, E!Refetch PROVE EditingGoal
    OBVIOUS
  <1>1. /\ fetch' = E!Sent /\ refetches < MaxFetches /\ refetches' = refetches + 1
        /\ UNCHANGED <<form, row, shown, failed, open, held, save, reverted, moves, changes>>
    BY DEF E!Refetch
  <1>2. refetches' \in 0..MaxFetches
    BY <1>1, RecordsAssumption DEF EditingInv, E!TypeOK, E!EditingAssumption
  <1>3. EditingInv' /\ E!TypedStays
    BY <1>1, <1>2, ElsewhereStep DEF EditingInv, E!TypeOK
  <1>4. QED
    BY <1>1, <1>3, RowRests, EditingNext

(* A fetch is answered with the row as it is.                              *)
LEMMA ServeStep == EditingInv /\ E!Serve => EditingGoal
  <1> SUFFICES ASSUME EditingInv, E!Serve PROVE EditingGoal
    OBVIOUS
  <1>1. /\ fetch' = E!Back(row) /\ row \in E!Records
        /\ UNCHANGED <<form, row, shown, failed, open, held, save, reverted, moves, changes,
                       refetches>>
    BY DEF E!Serve, EditingInv, E!TypeOK
  <1>2. EditingInv' /\ E!TypedStays
    BY <1>1, ElsewhereStep DEF EditingInv, E!TypeOK
  <1>3. QED
    BY <1>1, <1>2, RowRests, EditingNext

(* A save writes what was not typed as the page showed it, or as the form  *)
(* was filled: it takes back no change that the page had shown.            *)
LEMMA ProcessStep == EditingInv /\ E!Process => EditingGoal
  <1> SUFFICES ASSUME EditingInv, E!Process PROVE EditingGoal
    OBVIOUS
  <1>1. save.at = "sent" /\ save # E!NoSave /\ save \in E!Saves
    BY EditingRecords DEF E!Process, EditingInv, E!TypeOK
  <1>2. /\ save.held \in E!Contents /\ save.held # E!Empty /\ save.shown \in E!Records /\ save.shown # E!NoRow
        /\ save.held.fields \in [E!Fields -> Values] /\ row \in E!Records
    BY <1>1, EditingRecords DEF E!Saves, E!Contents, EditingInv, E!TypeOK
  <1>3. save.held.fields["text"] \in Values /\ save.held.fields["choice"] \in Values
    BY <1>2 DEF E!Fields
  <1>4. /\ row' \in E!Records
        /\ row' = row \/ \A f \in E!Fields : row'[f] = save.held.fields[f]
    BY <1>2, <1>3 DEF E!Process, E!Records, E!Fields
  <1>5. /\ save' \in E!Saves /\ save'.held = save.held /\ save'.shown = save.shown
    <2>1. save' = [save EXCEPT !.at = "refused"] \/ save' = [save EXCEPT !.at = "saved"]
      BY DEF E!Process
    <2>2. QED
      BY <1>1, <2>1 DEF E!Saves
  <1>6. UNCHANGED <<form, shown, failed, fetch, open, held, reverted, moves, changes, refetches>>
    BY DEF E!Process
  <1>7. EditingInv' /\ E!TypedStays
    BY <1>1, <1>4, <1>5, <1>6, ElsewhereStep DEF EditingInv, E!TypeOK
  <1>8. E!SaveSparesOthers
    <2> SUFFICES ASSUME NEW f \in E!Fields, f \notin save.held.typed, row'[f] # row[f], ~reverted
                 PROVE  E!KnownTo(save)[f] # row[f]
      BY DEF E!SaveSparesOthers
    <2>1. row'[f] = save.held.fields[f]
      BY <1>4
    <2>2. save.held.fields[f] = save.held.base[f]
      BY <1>1, <1>2 DEF EditingInv, Untouched
    <2>3. form.follows # "none" => save.held.base[f] = save.shown[f]
      BY <1>1, <1>2 DEF EditingInv, OnPage
    <2>4. QED
      BY <2>1, <2>2, <2>3 DEF E!KnownTo
  <1>9. QED
    BY <1>7, <1>8, EditingNext

(* A broken connection leaves row and form.                                *)
LEMMA BreakStep == EditingInv /\ E!Break => EditingGoal
  <1> SUFFICES ASSUME EditingInv, E!Break PROVE EditingGoal
    OBVIOUS
  <1>1. save # E!NoSave /\ save \in E!Saves
    BY EditingRecords DEF E!Break, EditingInv, E!TypeOK
  <1>2. /\ save' = [save EXCEPT !.at = "refused"]
        /\ UNCHANGED <<form, row, shown, failed, fetch, open, held, reverted, moves, changes, refetches>>
    BY DEF E!Break
  <1>3. save' \in E!Saves /\ save'.held = save.held /\ save'.shown = save.shown
    BY <1>1, <1>2 DEF E!Saves
  <1>4. EditingInv' /\ E!TypedStays
    BY <1>1, <1>2, <1>3, ElsewhereStep DEF EditingInv, E!TypeOK
  <1>5. QED
    BY <1>2, <1>4, RowRests, EditingNext

(* A change by another user is no save of this form.                       *)
LEMMA OthersStep ==
    ASSUME EditingInv, NEW f \in E!Fields, NEW v \in Values, E!OtherSaves(f, v) \/ E!OtherMarks
    PROVE  EditingGoal
  <1>1. /\ changes < MaxChanges /\ changes' = changes + 1
        /\ row' = [row EXCEPT ![f] = v] \/ row' = [row EXCEPT !.mark = ~@]
        /\ UNCHANGED <<form, shown, failed, fetch, open, held, save, reverted, moves, refetches>>
    BY DEF E!OtherSaves, E!OtherMarks
  <1>2. changes' \in 0..MaxChanges /\ changes' # changes
    BY <1>1, RecordsAssumption DEF EditingInv, E!TypeOK, E!EditingAssumption
  <1>3. row' \in E!Records
    BY <1>1 DEF EditingInv, E!TypeOK, E!Records, E!Fields
  <1>4. EditingInv' /\ E!TypedStays
    BY <1>1, <1>2, <1>3, ElsewhereStep DEF EditingInv, E!TypeOK
  <1>5. E!SaveSparesOthers
    BY <1>2 DEF E!SaveSparesOthers
  <1>6. QED
    BY <1>4, <1>5, EditingNext

(* A success fetches the row; the form waits for it or is left.            *)
LEMMA SucceedStep == EditingInv /\ E!Succeed => EditingGoal
  <1> SUFFICES ASSUME EditingInv, E!Succeed PROVE EditingGoal
    OBVIOUS
  <1>1. save # E!NoSave /\ save \in E!Saves
    BY EditingRecords DEF E!Succeed, EditingInv, E!TypeOK
  <1>2. /\ fetch' = E!Sent
        /\ \/ save' = [save EXCEPT !.at = "waits"] /\ open' = open
           \/ save' = E!NoSave /\ open' = FALSE
        /\ UNCHANGED <<form, row, shown, failed, held, reverted, moves, changes, refetches>>
    BY DEF E!Succeed
  <1>3. \/ save' = E!NoSave
        \/ save' \in E!Saves /\ save'.held = save.held /\ save'.shown = save.shown
    BY <1>1, <1>2 DEF E!Saves
  <1>4. open' \in BOOLEAN /\ (open' => open)
    <2>1. open \in BOOLEAN /\ (open' = open \/ open' = FALSE)
      BY <1>2 DEF EditingInv, E!TypeOK
    <2>2. CASE open' = open
      BY <2>1, <2>2
    <2>3. CASE open' = FALSE
      BY <2>3
    <2>4. QED
      BY <2>1, <2>2, <2>3
  <1>5. EditingInv' /\ E!TypedStays
    BY <1>1, <1>2, <1>3, <1>4, ElsewhereStep DEF EditingInv, E!TypeOK
  <1>6. QED
    BY <1>2, <1>5, RowRests, EditingNext

LEMMA ComplainStep == EditingInv /\ E!Complain => EditingGoal
  <1> SUFFICES ASSUME EditingInv, E!Complain PROVE EditingGoal
    OBVIOUS
  <1>1. /\ save' = E!NoSave
        /\ UNCHANGED <<form, row, shown, failed, fetch, open, held, reverted, moves, changes, refetches>>
    BY DEF E!Complain
  <1>2. EditingInv' /\ E!TypedStays
    BY <1>1, ElsewhereStep DEF EditingInv, E!TypeOK
  <1>3. QED
    BY <1>1, <1>2, RowRests, EditingNext

LEMMA FailStep == EditingInv /\ E!Fail => EditingGoal
  <1> SUFFICES ASSUME EditingInv, E!Fail PROVE EditingGoal
    OBVIOUS
  <1>1. /\ fetch' = E!Idle /\ failed' = TRUE
        /\ \/ save' = E!NoSave
           \/ save # E!NoSave /\ save' = [save EXCEPT !.alive = FALSE]
           \/ save' = save
        /\ UNCHANGED <<form, row, shown, held, reverted, moves, changes, refetches>>
    BY DEF E!Fail
  <1>2. open' \in BOOLEAN /\ (open' => open)
    BY DEF E!Fail
  <1>3. \/ save' = E!NoSave
        \/ save # E!NoSave /\ save' \in E!Saves /\ save'.held = save.held /\ save'.shown = save.shown
        \/ save' = save
    BY <1>1 DEF EditingInv, E!TypeOK, E!Saves
  <1>4. EditingInv' /\ E!TypedStays
    BY <1>1, <1>2, <1>3, ElsewhereStep DEF EditingInv, E!TypeOK
  <1>5. QED
    BY <1>1, <1>4, RowRests, EditingNext

(* A row arrives: what was typed stays where the form keeps it, and the    *)
(* rest follows the page, unless a closing dialog puts an older row back.  *)
LEMMA ArriveStep == EditingInv /\ E!Arrive => EditingGoal
  <1> SUFFICES ASSUME EditingInv, E!Arrive PROVE EditingGoal
    OBVIOUS
  <1> USE EditingRecords
  <1>1. PICK new \in E!Records : fetch = E!Back(new) /\ fetch.row = new
    <2>1. fetch.at = "back" /\ E!Idle.at = "idle" /\ E!Sent.at = "sent"
      BY DEF E!Arrive, E!Idle, E!Sent
    <2>2. fetch # E!Idle /\ fetch # E!Sent
      BY <2>1
    <2>3. PICK r \in E!Records : fetch = E!Back(r)
      BY <2>2 DEF EditingInv, E!TypeOK
    <2>4. fetch.row = r
      BY <2>3 DEF E!Back
    <2>5. QED
      BY <2>3, <2>4
  <1> DEFINE h == IF save.at = "waits" THEN E!Ended ELSE held
  <1>2. /\ fetch' = E!Idle /\ shown' = new /\ failed' = FALSE
        /\ E!Redrawn => held' = E!Filled(new)
        /\ ~E!Redrawn => held' = E!Follow(h, new)
        /\ UNCHANGED <<form, row, moves, changes, refetches>>
    BY <1>1 DEF E!Arrive
  <1>3. /\ save.at = "waits" =>
             /\ save' = E!NoSave /\ open' = FALSE
             /\ reverted' = (reverted \/ (~E!Redrawn /\ E!Ended # held /\ new = shown
                                            /\ save.shown # shown))
        /\ save.at # "waits" => UNCHANGED <<save, open, reverted>>
    BY <1>1 DEF E!Arrive
  <1>4. form \in E!EditForms /\ (form.forgets => form.follows = "all")
    BY EditFormKinds DEF EditingInv, E!TypeOK
  <1>5. \/ save' = E!NoSave /\ open' = FALSE
        \/ save' = save /\ open' = open /\ reverted' = reverted
    BY <1>3
  <1>6. open' \in BOOLEAN /\ reverted' \in BOOLEAN /\ (reverted => reverted')
    <2>1. open \in BOOLEAN /\ reverted \in BOOLEAN
      BY DEF EditingInv, E!TypeOK
    <2>2. CASE save.at = "waits"
      BY <1>3, <2>1, <2>2, Zenon
    <2>3. CASE save.at # "waits"
      BY <1>3, <2>1, <2>3, Zenon
    <2>4. QED
      BY <2>2, <2>3
  <1>7. ASSUME held' \in E!Contents, Untouched(held'),
               (form.follows # "none" /\ ~reverted') => \A f \in E!Fields : held'.base[f] = new[f]
        PROVE  EditingInv'
    <2>1. E!TypeOK'
      <3>1. save' = E!NoSave \/ save' \in E!Saves
        BY <1>5 DEF EditingInv, E!TypeOK
      <3>2. held' # E!Empty /\ fetch' \in {E!Idle, E!Sent} \cup {E!Back(r) : r \in E!Records}
        BY <1>2, <1>7
      <3>3. failed' \in BOOLEAN
        BY <1>2
      <3>4. QED
        BY <1>2, <1>6, <1>7, <3>1, <3>2, <3>3 DEF EditingInv, E!TypeOK
    <2>2. Untouched(held)' /\ OnPage(held, shown)'
      BY <1>2, <1>7 DEF Untouched, OnPage
    <2>3. (save # E!NoSave => Untouched(save.held) /\ OnPage(save.held, save.shown))'
      BY <1>2, <1>5 DEF EditingInv, Untouched, OnPage
    <2>4. (form.dialog /\ open => shown # E!NoRow)'
      BY <1>2
    <2>5. QED
      BY <2>1, <2>2, <2>3, <2>4 DEF EditingInv
  <1>8. row' = row
    BY <1>2
  <1>9. CASE E!Redrawn
    <2>1. held' \in E!Contents /\ Untouched(held') /\ held'.base = new
      BY <1>2, <1>9, FilledType
    <2>2. EditingInv'
      BY <1>7, <2>1
    <2>3. E!TypedStays
      BY <1>9 DEF E!Redrawn, E!TypedStays, E!Drawn
    <2>4. QED
      BY <1>8, <2>2, <2>3, RowRests, EditingNext
  <1>10. CASE ~E!Redrawn
    <2>1. shown \in E!Records /\ shown # E!NoRow /\ held \in E!Contents /\ Untouched(held)
      BY <1>10 DEF E!Redrawn, EditingInv, E!TypeOK
    <2>2. /\ h \in E!Contents /\ Untouched(h)
          /\ h = held \/ (save.at = "waits" /\ form.follows = "all" /\ h = E!Ended
                            /\ h = E!Filled(save.shown) /\ h.base = save.shown)
      <3>1. CASE save.at = "waits" /\ save.alive /\ form.forgets
        <4>1. save \in E!Saves
          BY <3>1 DEF EditingInv, E!TypeOK
        <4>2. save.shown \in E!Records /\ h = E!Filled(save.shown)
          BY <3>1, <4>1 DEF E!Saves, E!Ended
        <4>3. QED
          BY <1>4, <3>1, <4>2, FilledType
      <3>2. CASE ~(save.at = "waits" /\ save.alive /\ form.forgets)
        <4>1. h = held
          BY <3>2 DEF E!Ended
        <4>2. QED
          BY <2>1, <4>1
      <3>3. QED
        BY <3>1, <3>2
    <2>3. held' = E!Follow(h, new)
      BY <1>2, <1>10
    <2>4. (save.at = "waits" /\ h = E!Ended /\ h # held /\ new = shown /\ save.shown # shown) => reverted'
      BY <1>3, <1>10
    <2> HIDE DEF h
    <2>5. /\ held' \in E!Contents /\ Untouched(held')
          /\ (form.follows # "none" /\ \A f \in E!Fields : h.base[f] = shown[f])
                => \A f \in E!Fields : held'.base[f] = new[f]
          /\ (form.follows # "none" /\ new # shown /\ form.follows # "edited") => held'.base = new
          /\ form.follows = "none" => held' = h
          /\ (form.follows = "untouched" /\ "text" \in h.typed) => held'.fields["text"] = h.fields["text"]
      BY <1>4, <2>1, <2>2, <2>3, FollowHolds
    <2>6. ASSUME form.follows # "none", ~reverted' PROVE \A f \in E!Fields : held'.base[f] = new[f]
      <3>1. \A f \in E!Fields : held.base[f] = shown[f]
        BY <1>6, <2>1, <2>6 DEF EditingInv, OnPage
      <3>2. CASE h = held
        BY <2>5, <2>6, <3>1, <3>2
      <3>3. CASE h # held /\ new = shown
        <4>1. h.base = shown
          BY <2>2, <2>4, <2>6, <3>3
        <4>2. QED
          BY <2>5, <2>6, <4>1
      <3>4. CASE h # held /\ new # shown
        BY <2>2, <2>5, <2>6, <3>4
      <3>5. QED
        BY <3>2, <3>3, <3>4
    <2>7. EditingInv'
      BY <1>7, <2>5, <2>6
    <2>8. E!TypedStays
      <3> SUFFICES ASSUME NEW f \in E!Fields, f \in held.typed, E!Survives(f)
                   PROVE  held'.fields[f] = held.fields[f]
        BY DEF E!TypedStays
      <3>1. form.follows = "none" \/ (form.follows = "untouched" /\ f = "text")
        BY <1>4, EditFormKinds DEF E!Survives
      <3>2. h = held
        BY <2>2, <3>1
      <3>3. QED
        BY <2>5, <3>1, <3>2
    <2>9. QED
      BY <1>8, <2>7, <2>8, RowRests, EditingNext
  <1>11. QED
    BY <1>9, <1>10

LEMMA EditingRests == EditingInv /\ UNCHANGED formVars => EditingGoal
  <1> SUFFICES ASSUME EditingInv, UNCHANGED formVars PROVE EditingGoal
    OBVIOUS
  <1>1. EditingInv'
    BY DEF formVars, EditingInv, E!TypeOK, Untouched, OnPage
  <1>2. row' = row /\ held' = held
    BY DEF formVars
  <1>3. QED
    BY <1>1, <1>2, RowRests, FieldsRest, EditingNext

LEMMA EditingStep == EditingInv /\ [E!Next]_formVars => EditingGoal
  <1> SUFFICES ASSUME EditingInv, [E!Next]_formVars PROVE EditingGoal
    OBVIOUS
  <1>1. ASSUME E!Open \/ E!Close PROVE EditingGoal
    BY <1>1, OpenForm
  <1>2. ASSUME E!Submit PROVE EditingGoal
    BY <1>2, SubmitForm
  <1>3. ASSUME NEW f \in E!Fields, NEW v \in Values, E!Type(f, v) PROVE EditingGoal
    BY <1>3, TypeField
  <1>4. ASSUME NEW f \in E!Fields, NEW v \in Values, E!OtherSaves(f, v) PROVE EditingGoal
    BY <1>4, OthersStep
  <1>5. ASSUME E!OtherMarks PROVE EditingGoal
    <2>1. "text" \in E!Fields /\ row.text \in Values
      BY EditingRecords DEF E!Fields, EditingInv, E!TypeOK
    <2>2. QED
      BY <1>5, <2>1, OthersStep
  <1>6. ASSUME \/ E!Refetch \/ E!Process \/ E!Break \/ E!Succeed \/ E!Complain
               \/ E!Serve \/ E!Arrive \/ E!Fail
        PROVE  EditingGoal
    BY <1>6, RefetchStep, ProcessStep, BreakStep, SucceedStep, ComplainStep, ServeStep,
       ArriveStep, FailStep
  <1>7. QED
    BY <1>1, <1>2, <1>3, <1>4, <1>5, <1>6, EditingRests DEF E!Next
-----------------------------------------------------------------------------
(* ListQueries: the pages of a list.                                       *)

(* The operators of the library in the instance are those of the library.  *)
LEMMA QueryLibrary ==
    /\ \A x : Q!Cardinality(x) = Cardinality(x)
    /\ \A f : Q!IsInjective(f) <=> IsInjective(f)
  BY DEF Q!Cardinality, Cardinality, Q!IsFiniteSet, IsFiniteSet, Q!IsInjective, IsInjective

(* What the constants of ListQueries are.                                  *)
LEMMA QueryConstants ==
    MaxRow \in Nat /\ MaxKey \in Nat \ {0} /\ Limit \in Nat \ {0} /\ MaxWrites \in Nat
  BY RecordsAssumption DEF Q!ListQueriesAssumption

Listed == Q!Present(table)

(* How many rows come before a row.                                        *)
Before(r) == {s \in Listed : Q!Precedes(s, r)}
Rank(r) == Cardinality(Before(r))

On(r, rows) == \E i \in DOMAIN rows : rows[i] = r

ListsTyped == Q!TypeOK /\ Q!Allowed(list, table)

(* Nothing was written: each row on the pages so far was seen once.        *)
Walked ==
    /\ \A r \in Q!Rows : seen[r] = IF r \in Listed /\ (over \/ Rank(r) < Q!Skip) THEN 1 ELSE 0
    /\ found # Q!NotYet => \A r \in Q!Rows :
         On(r, found) <=> (r \in Listed /\ Q!Skip <= Rank(r) /\ Rank(r) < Q!Skip + Limit)
    /\ total # Q!NotCounted => total = Cardinality(Listed)

(* Rows came at most: a row of the beginning that was not seen is further  *)
(* on, and a total counted since has room for it.                          *)
Unskipped ==
    /\ first \subseteq Listed
    /\ total # Q!NotCounted => found # Q!NotYet
    /\ \A r \in first : seen[r] > 0 \/ (~over /\ Rank(r) >= Q!Skip)
    /\ found # Q!NotYet => \A r \in first :
         seen[r] > 0 \/ On(r, found) \/ Rank(r) >= Q!Skip + Limit
    /\ total # Q!NotCounted => \A r \in first :
         seen[r] > 0 \/ On(r, found) \/ total > Q!Skip + Limit

ListsInv ==
    /\ ListsTyped
    /\ over => found = Q!NotYet /\ total = Q!NotCounted
    /\ Q!InOrder /\ written = {} => Walked
    /\ Q!InOrder /\ written \subseteq {"come"} /\ ~list.together => Unskipped

(* The lists without pages in order are those whose order is total.        *)
LEMMA ListKinds ==
    \A l \in Q!Lists :
        l.name \in {"units", "categories", "finance", "sales report", "purchases report"}
          => l.unique \/ l.byId
  <1>1. Q!UnitsList.unique /\ Q!CategoriesList.unique
    BY DEF Q!UnitsList, Q!CategoriesList, Q!List
  <1>2. Q!FinanceList.byId /\ Q!SalesReport.byId /\ Q!PurchasesReport.byId
    BY DEF Q!FinanceList, Q!SalesReport, Q!PurchasesReport, Q!List
  <1>3. /\ Q!UsersList.name = "users" /\ Q!CustomersList.name = "customers"
        /\ Q!SuppliersList.name = "suppliers" /\ Q!WarehousesList.name = "warehouses"
        /\ Q!LocationsList.name = "locations" /\ Q!ProductsList.name = "products"
        /\ Q!BalancesList.name = "balances" /\ Q!MovementsList.name = "movements"
        /\ Q!CountsList.name = "counts" /\ Q!CountItemsList.name = "items of a count"
        /\ Q!ReservationsList.name = "reservations" /\ Q!SalesOrdersList.name = "sales orders"
        /\ Q!PurchaseOrdersList.name = "purchase orders" /\ Q!ReceiptsList.name = "receipts"
        /\ Q!InventoryReport.name = "inventory report"
    BY DEF Q!List, Q!UsersList, Q!CustomersList, Q!SuppliersList, Q!WarehousesList,
           Q!LocationsList, Q!ProductsList, Q!BalancesList, Q!MovementsList, Q!CountsList,
           Q!CountItemsList, Q!ReservationsList, Q!SalesOrdersList, Q!PurchaseOrdersList,
           Q!ReceiptsList, Q!InventoryReport
  <1>4. QED
    BY <1>1, <1>2, <1>3 DEF Q!Lists

(* What skip and take compute of a page number.                            *)
LEMMA SkipGrows ==
    ASSUME Q!TypeOK
    PROVE  /\ Q!Skip \in Nat /\ page * Limit = Q!Skip + Limit /\ page * Limit >= page
           /\ (page = 1 => Q!Skip = 0)
  <1>1. page \in Nat /\ page >= 1 /\ Limit \in Nat /\ Limit >= 1
    BY QueryConstants DEF Q!TypeOK
  <1>2. PICK p \in Nat : page = p + 1
    BY <1>1
  <1>3. PICK l \in Nat : Limit = l + 1
    BY <1>1
  <1>4. Q!Skip = p * Limit
    BY <1>2 DEF Q!Skip
  <1>5. p * Limit \in Nat /\ (p + 1) * Limit = p * Limit + Limit /\ 0 * Limit = 0
    BY <1>1, <1>2
  <1>6. p * (l + 1) = p * l + p /\ p * l \in Nat
    BY <1>2, <1>3
  <1>7. QED
    BY <1>1, <1>2, <1>3, <1>4, <1>5, <1>6

(* There are finitely many rows, and every rank is a number.               *)
LEMMA RowsFinite ==
    ASSUME Q!TypeOK
    PROVE  /\ IsFiniteSet(Listed) /\ Cardinality(Listed) \in Nat /\ Cardinality(Listed) <= MaxRow
           /\ \A r \in Q!Rows : IsFiniteSet(Before(r)) /\ Rank(r) \in Nat
  <1>1. IsFiniteSet(Q!Rows) /\ Cardinality(Q!Rows) = MaxRow
    BY FS_Interval, QueryConstants DEF Q!Rows
  <1>2. Listed \in SUBSET Q!Rows
    BY DEF Listed, Q!Present
  <1>3. IsFiniteSet(Listed) /\ Cardinality(Listed) <= MaxRow
    BY <1>1, <1>2, FS_Subset
  <1>4. Cardinality(Listed) \in Nat
    BY <1>3, FS_CardinalityType
  <1>5. ASSUME NEW r \in Q!Rows PROVE IsFiniteSet(Before(r)) /\ Rank(r) \in Nat
    <2>1. Before(r) \in SUBSET Listed
      BY DEF Before
    <2>2. IsFiniteSet(Before(r))
      BY <1>3, <2>1, FS_Subset
    <2>3. QED
      BY <2>2, FS_CardinalityType DEF Rank
  <1>6. QED
    BY <1>3, <1>4, <1>5

(* Lists in order compare any two of their rows.                           *)
LEMMA OrderIsStrict ==
    ASSUME ListsTyped, Q!InOrder, NEW r \in Listed, NEW s \in Listed
    PROVE  /\ ~Q!Precedes(r, r)
           /\ r # s => Q!Precedes(r, s) \/ Q!Precedes(s, r)
           /\ Q!Precedes(r, s) => ~Q!Precedes(s, r)
  <1>1. r \in Nat /\ s \in Nat /\ table[r] \in Nat /\ table[s] \in Nat
    BY QueryConstants DEF Listed, Q!Present, Q!Rows, ListsTyped, Q!TypeOK
  <1>2. list.unique \/ list.byId
    BY ListKinds DEF ListsTyped, Q!TypeOK, Q!InOrder
  <1>3. list.unique /\ r # s => table[r] # table[s]
    BY DEF ListsTyped, Q!Allowed, Listed
  <1>4. QED
    BY <1>1, <1>2, <1>3 DEF Q!Precedes

(* An order of the query puts every row of the list in one place, and none *)
(* before one that precedes it.                                            *)
LEMMA OrdersList ==
    ASSUME ListsTyped, NEW o \in Q!Orders
    PROVE  /\ o \in [1..Cardinality(Listed) -> Listed] /\ Len(o) = Cardinality(Listed)
           /\ o \in Seq(Q!Rows)
           /\ \A i, j \in 1..Cardinality(Listed) : i # j => o[i] # o[j]
           /\ \A i, j \in 1..Cardinality(Listed) : i < j => ~Q!Precedes(o[j], o[i])
           /\ \A r \in Listed : \E i \in 1..Cardinality(Listed) : o[i] = r
  <1> DEFINE n == Cardinality(Listed)
  <1>1. n \in Nat /\ IsFiniteSet(Listed)
    BY RowsFinite DEF ListsTyped
  <1>2. /\ o \in [1..n -> Listed]
        /\ \A i, j \in 1..n : i # j => o[i] # o[j]
        /\ \A i, j \in DOMAIN o : i < j => ~Q!Precedes(o[j], o[i])
    BY QueryLibrary DEF Q!Orders, Q!SetToSeqs, Listed
  <1> HIDE DEF n
  <1>3. o \in Seq(Listed) /\ Len(o) = n /\ Listed \subseteq Q!Rows
    BY <1>1, <1>2 DEF Listed, Q!Present
  <1>4. o \in Seq(Q!Rows)
    BY <1>3
  <1>5. o \in Injection(1..n, Listed)
    BY <1>2 DEF Injection, IsInjective
  <1>6. Cardinality(1..n) = n
    BY <1>1, FS_Interval
  <1>7. o \in Surjection(1..n, Listed)
    BY <1>1, <1>5, <1>6, FS_Injection DEF n
  <1>8. \A r \in Listed : \E i \in 1..n : o[i] = r
    BY <1>7 DEF Surjection
  <1>9. QED
    BY <1>2, <1>3, <1>4, <1>8 DEF n

(* In every order that the database may choose, a row has its rank.        *)
LEMMA RowHasItsPlace ==
    ASSUME ListsTyped, Q!InOrder, NEW o \in Q!Orders, NEW i \in 1..Cardinality(Listed)
    PROVE  Rank(o[i]) = i - 1
  <1> DEFINE n == Cardinality(Listed)
             B == Before(o[i])
             b == [j \in 1..(i - 1) |-> o[j]]
  <1>1. n \in Nat
    BY RowsFinite DEF ListsTyped
  <1>2. /\ o \in [1..n -> Listed]
        /\ \A j, k \in 1..n : j # k => o[j] # o[k]
        /\ \A j, k \in 1..n : j < k => ~Q!Precedes(o[k], o[j])
        /\ \A r \in Listed : \E j \in 1..n : o[j] = r
    BY OrdersList
  <1> HIDE DEF n
  <1>3. \A j \in 1..n : o[j] \in Listed
    BY <1>2
  <1>4. ASSUME NEW j \in 1..n PROVE j < i <=> o[j] \in B
    <2>1. CASE j < i
      <3>1. o[j] # o[i] /\ ~Q!Precedes(o[i], o[j])
        BY <1>2, <2>1 DEF n
      <3>2. Q!Precedes(o[j], o[i])
        BY <1>3, <3>1, OrderIsStrict DEF n
      <3>3. QED
        BY <1>3, <2>1, <3>2 DEF Before
    <2>2. CASE j = i
      <3>1. ~Q!Precedes(o[i], o[i])
        BY <1>3, OrderIsStrict DEF n
      <3>2. QED
        BY <2>2, <3>1 DEF Before
    <2>3. CASE j > i
      <3>1. ~Q!Precedes(o[j], o[i])
        BY <1>2, <2>3 DEF n
      <3>2. QED
        BY <2>3, <3>1 DEF Before
    <2>4. QED
      BY <1>1, <2>1, <2>2, <2>3 DEF n
  <1>5. \A j \in 1..(i - 1) : j \in 1..n /\ j < i
    BY <1>1 DEF n
  <1>6. b \in [1..(i - 1) -> B]
    BY <1>4, <1>5
  <1>7. \A r \in B : r \in Listed
    BY DEF Before
  <1>8. \A r \in B : \E j \in 1..(i - 1) : b[j] = r
    <2> SUFFICES ASSUME NEW r \in B PROVE \E j \in 1..(i - 1) : b[j] = r
      OBVIOUS
    <2>1. PICK j \in 1..n : o[j] = r
      BY <1>2, <1>7
    <2>2. j \in 1..(i - 1)
      BY <1>1, <1>4, <2>1 DEF n
    <2>3. QED
      BY <2>1, <2>2
  <1>9. \A j, k \in 1..(i - 1) : b[j] = b[k] => j = k
    BY <1>2, <1>5
  <1> HIDE DEF B
  <1>10. b \in Injection(1..(i - 1), B)
    BY <1>6, <1>9 DEF Injection, IsInjective
  <1>11. b \in Surjection(1..(i - 1), B)
    BY <1>6, <1>8 DEF Surjection
  <1>12. ExistsBijection(1..(i - 1), B)
    BY <1>10, <1>11 DEF ExistsBijection, Bijection
  <1>13. i - 1 \in Nat
    BY <1>1 DEF n
  <1>14. Cardinality(B) = i - 1
    BY <1>12, <1>13, FS_CountingElements
  <1>15. QED
    BY <1>14 DEF B, Rank

(* What a SubSeq of an order is,                                           *)
LEMMA CutOfSequence ==
    ASSUME NEW Elems, NEW o, NEW from \in Int, NEW to \in Int, \A i \in from..to : o[i] \in Elems,
           NEW rows, rows = SubSeq(o, from, to)
    PROVE  /\ rows \in Seq(Elems)
           /\ Len(rows) = IF from <= to THEN to - from + 1 ELSE 0
           /\ \A i \in 1..(to - from + 1) : rows[i] = o[from + i - 1]
  BY SubSeqProperties

(* A stretch of a sequence without repetitions.                            *)
Stretch(rows, Elems, o, n, skip, limit, top) ==
    /\ n \in Nat /\ skip \in Nat /\ limit \in Nat /\ top \in Nat
    /\ \A i \in 1..n : o[i] \in Elems
    /\ \A i, j \in 1..n : i # j => o[i] # o[j]
    /\ top <= n /\ top <= skip + limit /\ (top = n \/ top = skip + limit)
    /\ rows = SubSeq(o, skip + 1, top)

(* and what the rows between skip and skip + limit are.                    *)
LEMMA StretchOfSequence ==
    ASSUME NEW rows, NEW Elems, NEW o, NEW n, NEW skip, NEW limit, NEW top,
           Stretch(rows, Elems, o, n, skip, limit, top)
    PROVE  /\ rows \in Seq(Elems) /\ Len(rows) <= limit /\ IsInjective(rows)
           /\ \A r : On(r, rows) <=>
                \E i \in 1..n : o[i] = r /\ skip + 1 <= i /\ i <= skip + limit
  <1>0. /\ n \in Nat /\ skip \in Nat /\ limit \in Nat /\ top \in Nat
        /\ \A i \in 1..n : o[i] \in Elems
        /\ \A i, j \in 1..n : i # j => o[i] # o[j]
        /\ top <= n /\ top <= skip + limit /\ (top = n \/ top = skip + limit)
        /\ rows = SubSeq(o, skip + 1, top)
    BY DEF Stretch
  <1> USE <1>0
  <1>1. /\ rows \in Seq(Elems)
        /\ Len(rows) = IF skip + 1 <= top THEN top - (skip + 1) + 1 ELSE 0
        /\ \A i \in 1..(top - (skip + 1) + 1) : rows[i] = o[(skip + 1) + i - 1]
    <2>1. \A i \in (skip + 1)..top : o[i] \in Elems
      OBVIOUS
    <2>2. skip + 1 \in Int /\ top \in Int
      OBVIOUS
    <2>3. QED
      BY <2>1, <2>2, CutOfSequence
  <1>2. PICK m \in Nat : /\ Len(rows) = m
                         /\ m = 0 \/ skip + m <= n
                         /\ m <= limit
                         /\ m = 0 => top <= skip
                         /\ m > 0 => top = skip + m
    <2>1. CASE skip + 1 <= top
      <3>1. top - skip \in Nat /\ top - skip > 0 /\ Len(rows) = top - skip
        BY <1>1, <2>1
      <3>2. skip + (top - skip) <= n /\ top - skip <= limit /\ top = skip + (top - skip)
        OBVIOUS
      <3> WITNESS top - skip \in Nat
      <3>3. QED
        BY <3>1, <3>2
    <2>2. CASE ~(skip + 1 <= top)
      <3>1. Len(rows) = 0 /\ top <= skip
        BY <1>1, <2>2
      <3>2. QED
        BY <3>1
    <2>3. QED
      BY <2>1, <2>2
  <1>3. Len(rows) = m /\ DOMAIN rows = 1..m
    BY <1>1, <1>2
  <1>4. ASSUME NEW i \in 1..m
        PROVE  rows[i] = o[skip + i] /\ skip + i \in 1..n /\ skip + i <= skip + limit
    <2>1. top = skip + m /\ m >= 1 /\ skip + m <= n /\ i \in Nat /\ 1 <= i /\ i <= m
      BY <1>2
    <2>2. i \in 1..(top - (skip + 1) + 1) /\ (skip + 1) + i - 1 = skip + i
      BY <2>1
    <2>3. skip + i \in 1..n /\ skip + i <= skip + limit
      BY <1>2, <2>1
    <2>4. QED
      BY <1>1, <2>2, <2>3
  <1>5. IsInjective(rows)
    <2> SUFFICES ASSUME NEW i \in 1..m, NEW j \in 1..m, i # j PROVE rows[i] # rows[j]
      BY <1>3 DEF IsInjective
    <2>1. /\ rows[i] = o[skip + i] /\ skip + i \in 1..n
          /\ rows[j] = o[skip + j] /\ skip + j \in 1..n
      BY <1>4
    <2>2. skip + i # skip + j
      OBVIOUS
    <2>3. QED
      BY <2>1, <2>2
  <1>6. ASSUME NEW r
        PROVE  On(r, rows) <=> \E i \in 1..n : o[i] = r /\ skip + 1 <= i /\ i <= skip + limit
    <2>1. ASSUME NEW i \in 1..m, rows[i] = r
          PROVE  \E j \in 1..n : o[j] = r /\ skip + 1 <= j /\ j <= skip + limit
      <3>1. skip + i \in 1..n /\ skip + i <= skip + limit /\ o[skip + i] = r
        BY <1>4, <2>1
      <3>2. skip + 1 <= skip + i
        OBVIOUS
      <3>3. QED
        BY <3>1, <3>2
    <2>2. ASSUME NEW j \in 1..n, o[j] = r, skip + 1 <= j, j <= skip + limit
          PROVE  \E i \in 1..m : rows[i] = r
      <3>1. j <= top
        BY <2>2
      <3>2. top = skip + m
        BY <1>2, <2>2, <3>1
      <3>3. j - skip \in 1..m /\ skip + (j - skip) = j
        BY <1>2, <2>2, <3>1, <3>2
      <3>4. rows[j - skip] = r
        BY <1>4, <2>2, <3>3
      <3>5. QED
        BY <3>3, <3>4
    <2>3. QED
      BY <1>3, <2>1, <2>2 DEF On
  <1>7. QED
    BY <1>1, <1>2, <1>3, <1>5, <1>6

(* What the statement for the rows of a page returns.                      *)
PageOf(o) == SubSeq(o, Q!Skip + 1, Q!Min({Q!Skip + Limit, Len(o)}))

(* The rows of a page: a stretch of an order of the list.                  *)
LEMMA PageIsStretch ==
    ASSUME ListsTyped, NEW o \in Q!Orders,
           NEW rows, rows = PageOf(o)
    PROVE  /\ rows \in Seq(Q!Rows) /\ Len(rows) <= Limit /\ Q!IsInjective(rows)
           /\ \A r : On(r, rows) <=>
                \E i \in 1..Cardinality(Listed) :
                    o[i] = r /\ Q!Skip + 1 <= i /\ i <= Q!Skip + Limit
  <1> DEFINE n == Cardinality(Listed)
             skip == Q!Skip
             top == Q!Min({skip + Limit, n})
  <1>1. n \in Nat /\ skip \in Nat /\ Limit \in Nat
    BY RowsFinite, SkipGrows, QueryConstants DEF ListsTyped
  <1>2. /\ \A i \in 1..n : o[i] \in Q!Rows
        /\ \A i, j \in 1..n : i # j => o[i] # o[j]
        /\ Len(o) = n
    BY OrdersList DEF Listed, Q!Present
  <1>3. rows = SubSeq(o, skip + 1, top)
    BY <1>2 DEF PageOf
  <1> HIDE DEF n, skip
  <1>4. top \in Nat /\ top <= n /\ top <= skip + Limit /\ (top = n \/ top = skip + Limit)
    <2>1. \E x \in {skip + Limit, n} : \A y \in {skip + Limit, n} : x <= y
      BY <1>1
    <2>2. top \in {skip + Limit, n} /\ \A y \in {skip + Limit, n} : top <= y
      BY <2>1 DEF Q!Min
    <2>3. QED
      BY <1>1, <2>2
  <1> HIDE DEF top
  <1>5. Stretch(rows, Q!Rows, o, n, skip, Limit, top)
    BY <1>1, <1>2, <1>3, <1>4 DEF Stretch
  <1>6. /\ rows \in Seq(Q!Rows) /\ Len(rows) <= Limit /\ IsInjective(rows)
        /\ \A r : On(r, rows) <=>
             \E i \in 1..n : o[i] = r /\ skip + 1 <= i /\ i <= skip + Limit
    BY <1>5, StretchOfSequence
  <1>7. QED
    BY <1>6, QueryLibrary DEF n, skip

(* A page that was read is told apart from none.                           *)
LEMMA PageIsNoNothing == \A rows \in Seq(Q!Rows) : rows # Q!NotYet
  <1> SUFFICES ASSUME Q!NotYet \in Seq(Q!Rows) PROVE FALSE
    OBVIOUS
  <1>1. Len(Q!NotYet) = 1 /\ Q!NotYet[1] = 0
    BY DEF Q!NotYet
  <1>2. Q!NotYet[1] \in Q!Rows
    BY <1>1
  <1>3. 0 \notin Q!Rows
    BY QueryConstants DEF Q!Rows
  <1>4. QED
    BY <1>1, <1>2, <1>3

(* A page of a list in order holds the rows of its ranks.                  *)
LEMMA PageHoldsRanks ==
    ASSUME ListsTyped, Q!InOrder, NEW o \in Q!Orders,
           NEW rows, rows = PageOf(o)
    PROVE  \A r \in Q!Rows : On(r, rows) <=>
               (r \in Listed /\ Q!Skip <= Rank(r) /\ Rank(r) < Q!Skip + Limit)
  <1>1. \A r \in Q!Rows : On(r, rows) <=>
          \E i \in 1..Cardinality(Listed) : o[i] = r /\ Q!Skip + 1 <= i /\ i <= Q!Skip + Limit
    BY PageIsStretch
  <1>2. /\ \A i \in 1..Cardinality(Listed) : o[i] \in Listed
        /\ \A r \in Listed : \E i \in 1..Cardinality(Listed) : o[i] = r
    BY OrdersList
  <1>3. \A i \in 1..Cardinality(Listed) : Rank(o[i]) = i - 1
    BY RowHasItsPlace
  <1>4. Q!Skip \in Nat /\ Limit \in Nat /\ Cardinality(Listed) \in Nat
    BY SkipGrows, RowsFinite, QueryConstants DEF ListsTyped
  <1>5. ASSUME NEW i \in 1..Cardinality(Listed)
        PROVE  (Q!Skip + 1 <= i /\ i <= Q!Skip + Limit)
                 <=> (Q!Skip <= Rank(o[i]) /\ Rank(o[i]) < Q!Skip + Limit)
    BY <1>3, <1>4
  <1>6. QED
    BY <1>1, <1>2, <1>5

(* How often a page shows a row.                                           *)
LEMMA RowIsShownOnce ==
    ASSUME NEW rows \in Seq(Q!Rows), Q!IsInjective(rows), NEW r \in Q!Rows
    PROVE  Q!Cardinality({i \in DOMAIN rows : rows[i] = r}) = IF On(r, rows) THEN 1 ELSE 0
  <1> DEFINE A == {i \in DOMAIN rows : rows[i] = r}
  <1>1. CASE On(r, rows)
    <2>1. PICK i \in DOMAIN rows : rows[i] = r
      BY <1>1 DEF On
    <2>2. A = {i}
      BY <2>1, QueryLibrary DEF IsInjective
    <2>3. Cardinality(A) = 1
      BY <2>2, FS_Singleton
    <2>4. QED
      BY <1>1, <2>3, QueryLibrary
  <1>2. CASE ~On(r, rows)
    <2>1. A = {}
      BY <1>2 DEF On
    <2>2. Cardinality(A) = 0
      BY <2>1, FS_EmptySet
    <2>3. QED
      BY <1>2, <2>2, QueryLibrary
  <1>3. QED
    BY <1>1, <1>2

(* Before a row there is room for it.                                      *)
LEMMA RankIsBelow ==
    ASSUME ListsTyped, NEW r \in Listed
    PROVE  Rank(r) \in Nat /\ Rank(r) < Cardinality(Listed)
  <1>1. r \in Q!Rows
    BY DEF Listed, Q!Present
  <1>2. IsFiniteSet(Listed) /\ Rank(r) \in Nat /\ Cardinality(Listed) \in Nat
    BY <1>1, RowsFinite DEF ListsTyped
  <1>3. r \notin Before(r)
    <2>1. r \in Nat /\ table[r] \in Nat
      BY <1>1, QueryConstants DEF ListsTyped, Q!TypeOK, Q!Rows
    <2>2. QED
      BY <2>1 DEF Before, Q!Precedes
  <1>4. Before(r) \in SUBSET Listed /\ Before(r) # Listed
    BY <1>3 DEF Before
  <1>5. Cardinality(Before(r)) <= Cardinality(Listed) /\ Cardinality(Listed) # Cardinality(Before(r))
    BY <1>2, <1>4, FS_Subset
  <1>6. QED
    BY <1>2, <1>5 DEF Rank

LEMMA ListsInit == Q!Init => ListsInv
  <1> SUFFICES ASSUME Q!Init PROVE ListsInv
    OBVIOUS
  <1> USE QueryConstants
  <1>1. Q!TypeOK
    <2>1. /\ list \in Q!Lists /\ table \in [Q!Rows -> 0..MaxKey] /\ page = 1 /\ found = Q!NotYet
          /\ total = Q!NotCounted /\ seen = [r \in Q!Rows |-> 0] /\ first = Q!Present(table)
          /\ over = FALSE /\ written = {} /\ writes = 0
      BY DEF Q!Init
    <2>2. page \in 1..(MaxRow + 1) /\ total \in 0..Q!NotCounted /\ writes \in 0..MaxWrites
      BY <2>1 DEF Q!NotCounted
    <2>3. first \subseteq Q!Rows /\ seen \in [Q!Rows -> Nat]
      BY <2>1 DEF Q!Present
    <2>4. QED
      BY <2>1, <2>2, <2>3 DEF Q!TypeOK
  <1>2. ListsTyped
    BY <1>1 DEF Q!Init, ListsTyped
  <1>3. /\ found = Q!NotYet /\ total = Q!NotCounted /\ first = Listed /\ ~over
        /\ \A r \in Q!Rows : seen[r] = 0
        /\ Listed \subseteq Q!Rows
    BY DEF Q!Init, Listed, Q!Present
  <1>4. Q!Skip = 0
    BY <1>1, SkipGrows DEF Q!Init
  <1>5. \A r \in Q!Rows : Rank(r) \in Nat
    BY <1>1, RowsFinite
  <1>6. Walked
    BY <1>3, <1>4, <1>5 DEF Walked
  <1>7. Unskipped
    BY <1>3, <1>4, <1>5 DEF Unskipped
  <1>8. QED
    BY <1>2, <1>3, <1>6, <1>7 DEF ListsInv

(* The query of the rows reads a stretch of an order of the rows as they   *)
(* are.                                                                    *)
LEMMA ReadRowsStep == ListsInv /\ Q!ReadRows => ListsInv'
  <1> SUFFICES ASSUME ListsInv, Q!ReadRows PROVE ListsInv'
    OBVIOUS
  <1>1. PICK o \in Q!Orders : found' = PageOf(o)
    BY DEF Q!ReadRows, PageOf
  <1>2. /\ ~over /\ found = Q!NotYet
        /\ UNCHANGED <<list, table, page, total, seen, first, over, written, writes>>
    BY DEF Q!ReadRows
  <1>3. ListsTyped
    BY DEF ListsInv
  <1>4. found' \in Seq(Q!Rows) /\ Len(found') <= Limit /\ Q!IsInjective(found') /\ found' # Q!NotYet
    BY <1>1, <1>3, PageIsStretch, PageIsNoNothing
  <1>5. ListsTyped'
    <2>1. Q!TypeOK'
      BY <1>2, <1>3, <1>4 DEF ListsTyped, Q!TypeOK, Q!IsInjective
    <2>2. QED
      BY <1>2, <1>3, <2>1 DEF ListsTyped, Q!Allowed, Q!Present
  <1>6. Listed' = Listed /\ Q!Skip' = Q!Skip /\ \A r : Rank(r)' = Rank(r)
    BY <1>2 DEF Listed, Q!Present, Q!Skip, Rank, Before, Q!Precedes
  <1>7. ASSUME Q!InOrder
        PROVE  \A r \in Q!Rows : On(r, found') <=>
                   (r \in Listed /\ Q!Skip <= Rank(r) /\ Rank(r) < Q!Skip + Limit)
    BY <1>1, <1>3, <1>7, PageHoldsRanks
  <1>8. ASSUME Q!InOrder, Walked PROVE Walked'
    BY <1>2, <1>6, <1>7, <1>8 DEF Walked
  <1>9. ASSUME Q!InOrder, Unskipped PROVE Unskipped'
    <2>1. /\ first \subseteq Listed /\ Listed \subseteq Q!Rows /\ total = Q!NotCounted
          /\ \A r \in first : seen[r] > 0 \/ (~over /\ Rank(r) >= Q!Skip)
      BY <1>2, <1>9 DEF Unskipped, Listed, Q!Present
    <2>2. \A r \in Q!Rows : Rank(r) \in Nat
      BY <1>3, RowsFinite DEF ListsTyped
    <2>3. Q!Skip \in Nat /\ Limit \in Nat
      BY <1>3, SkipGrows, QueryConstants DEF ListsTyped
    <2>4. \A r \in first : seen[r] > 0 \/ On(r, found') \/ Rank(r) >= Q!Skip + Limit
      BY <1>7, <1>9, <2>1, <2>2, <2>3
    <2>5. QED
      BY <1>2, <1>4, <1>6, <2>1, <2>4 DEF Unskipped, Q!NotCounted
  <1>10. QED
    BY <1>2, <1>5, <1>8, <1>9 DEF ListsInv, Q!InOrder

(* The count is that of the rows as they are.                              *)
LEMMA ReadTotalStep == ListsInv /\ Q!ReadTotal => ListsInv'
  <1> SUFFICES ASSUME ListsInv, Q!ReadTotal PROVE ListsInv'
    OBVIOUS
  <1>1. /\ ~over /\ total = Q!NotCounted /\ (list.together \/ found # Q!NotYet)
        /\ total' = Cardinality(Listed)
        /\ UNCHANGED <<list, table, page, found, seen, first, over, written, writes>>
    BY QueryLibrary DEF Q!ReadTotal, Q!MayCount, Listed
  <1>2. ListsTyped
    BY DEF ListsInv
  <1>3. Cardinality(Listed) \in Nat /\ Cardinality(Listed) <= MaxRow /\ MaxRow \in Nat
    BY <1>2, RowsFinite, QueryConstants DEF ListsTyped
  <1>4. total' \in 0..Q!NotCounted
    BY <1>1, <1>3 DEF Q!NotCounted
  <1>5. ListsTyped'
    <2>1. Q!TypeOK'
      BY <1>1, <1>2, <1>4 DEF ListsTyped, Q!TypeOK, Q!IsInjective
    <2>2. QED
      BY <1>1, <1>2, <2>1 DEF ListsTyped, Q!Allowed, Q!Present
  <1>6. Listed' = Listed /\ Q!Skip' = Q!Skip /\ \A r : Rank(r)' = Rank(r)
    BY <1>1 DEF Listed, Q!Present, Q!Skip, Rank, Before, Q!Precedes
  <1>7. ASSUME Walked PROVE Walked'
    BY <1>1, <1>6, <1>7 DEF Walked
  <1>8. ASSUME Unskipped, ~list.together PROVE Unskipped'
    <2>1. found # Q!NotYet
      BY <1>1, <1>8
    <2>2. \A r \in first : seen[r] > 0 \/ On(r, found) \/ Rank(r) >= Q!Skip + Limit
      BY <1>8, <2>1 DEF Unskipped
    <2>3. \A r \in first : Rank(r) \in Nat /\ Rank(r) < Cardinality(Listed)
      BY <1>2, <1>8, RankIsBelow DEF Unskipped
    <2>4. Q!Skip \in Nat /\ Limit \in Nat
      BY <1>2, SkipGrows, QueryConstants DEF ListsTyped
    <2>5. \A r \in first : seen[r] > 0 \/ On(r, found) \/ Cardinality(Listed) > Q!Skip + Limit
      BY <1>3, <2>2, <2>3, <2>4
    <2>6. QED
      BY <1>1, <1>6, <1>8, <2>1, <2>2, <2>5 DEF Unskipped
  <1>9. QED
    BY <1>1, <1>5, <1>7, <1>8 DEF ListsInv, Q!InOrder

(* The answer is seen by the walker, who then asks for the next page.      *)
LEMMA AnswerStep == ListsInv /\ Q!Answer => ListsInv'
  <1> SUFFICES ASSUME ListsInv, Q!Answer PROVE ListsInv'
    OBVIOUS
  <1>1. /\ found # Q!NotYet /\ total # Q!NotCounted
        /\ found' = Q!NotYet /\ total' = Q!NotCounted
        /\ seen' = [r \in Q!Rows |-> seen[r] + Q!Cardinality({i \in DOMAIN found : found[i] = r})]
        /\ UNCHANGED <<list, table, first, written, writes>>
    BY DEF Q!Answer
  <1>2. ListsTyped /\ ~over /\ found \in Seq(Q!Rows) /\ Q!IsInjective(found)
    BY <1>1 DEF ListsInv, ListsTyped, Q!TypeOK
  <1>3. PICK upTo \in Nat :
          /\ upTo = page * Limit /\ upTo = Q!Skip + Limit /\ upTo >= page
          /\ Q!Skip \in Nat /\ Limit \in Nat /\ MaxRow \in Nat
    BY <1>2, SkipGrows, QueryConstants DEF ListsTyped
  <1>4. /\ total \in Nat
        /\ \/ upTo < total /\ page' = page + 1 /\ over' = over
           \/ total <= upTo /\ page' = page /\ over' = TRUE
    <2>1. total \in Nat
      BY <1>2, <1>3 DEF ListsTyped, Q!TypeOK, Q!NotCounted
    <2>2. IF upTo < total THEN page' = page + 1 /\ over' = over ELSE page' = page /\ over' = TRUE
      BY <1>3 DEF Q!Answer
    <2>3. QED
      BY <2>1, <2>2
  <1>5. \A r \in Q!Rows : seen[r] \in Nat /\ seen'[r] = seen[r] + (IF On(r, found) THEN 1 ELSE 0)
    BY <1>1, <1>2, RowIsShownOnce DEF ListsTyped, Q!TypeOK
  <1>6. page \in Nat /\ page >= 1 /\ page <= MaxRow + 1 /\ total <= MaxRow
    BY <1>1, <1>2, <1>3, <1>4 DEF ListsTyped, Q!TypeOK, Q!NotCounted
  <1>7. ListsTyped'
    <2>1. page' \in 1..(MaxRow + 1)
      BY <1>3, <1>4, <1>6
    <2>2. seen' \in [Q!Rows -> Nat]
      <3>1. \A r \in Q!Rows : seen'[r] \in Nat
        BY <1>5
      <3>2. QED
        BY <1>1, <3>1
    <2>3. total' \in 0..Q!NotCounted /\ over' \in BOOLEAN
      <3>1. total' \in 0..Q!NotCounted
        BY <1>1, <1>3 DEF Q!NotCounted
      <3>2. over' = FALSE \/ over' = TRUE
        BY <1>2, <1>4 DEF ListsTyped, Q!TypeOK
      <3>3. QED
        BY <3>1, <3>2
    <2>4. Q!TypeOK'
      BY <1>1, <1>2, <2>1, <2>2, <2>3 DEF ListsTyped, Q!TypeOK
    <2>5. QED
      BY <1>1, <1>2, <2>4 DEF ListsTyped, Q!Allowed, Q!Present
  <1>8. Listed' = Listed /\ \A r : Rank(r)' = Rank(r)
    BY <1>1 DEF Listed, Q!Present, Rank, Before, Q!Precedes
  <1>9. ~over' => Q!Skip' = Q!Skip + Limit
    <2>1. ~over' => page' = page + 1
      BY <1>4
    <2>2. page' = page + 1 => Q!Skip' = page * Limit
      <3>1. Q!Skip' = (page' - 1) * Limit
        BY DEF Q!Skip
      <3>2. (page + 1) - 1 = page
        BY <1>6
      <3>3. QED
        BY <3>1, <3>2
    <2>3. QED
      BY <1>3, <2>1, <2>2
  <1>10. /\ Listed \subseteq Q!Rows /\ Cardinality(Listed) \in Nat
         /\ \A r \in Q!Rows : Rank(r) \in Nat
    BY <1>2, RowsFinite DEF ListsTyped, Listed, Q!Present
  <1>11. ASSUME Walked PROVE Walked'
    <2> SUFFICES ASSUME NEW r \in Q!Rows
                 PROVE  seen'[r] = IF r \in Listed /\ (over' \/ Rank(r) < Q!Skip') THEN 1 ELSE 0
      BY <1>1, <1>8 DEF Walked
    <2>1. /\ seen[r] = IF r \in Listed /\ Rank(r) < Q!Skip THEN 1 ELSE 0
          /\ On(r, found) <=> (r \in Listed /\ Q!Skip <= Rank(r) /\ Rank(r) < Q!Skip + Limit)
          /\ total = Cardinality(Listed)
      BY <1>1, <1>2, <1>11 DEF Walked
    <2>2. seen'[r] = IF r \in Listed /\ Rank(r) < Q!Skip + Limit THEN 1 ELSE 0
      BY <1>3, <1>5, <1>10, <2>1
    <2>3. over' /\ r \in Listed => Rank(r) < Q!Skip + Limit
      <3>1. r \in Listed => Rank(r) < Cardinality(Listed)
        BY <1>2, RankIsBelow
      <3>2. over' => total <= upTo
        BY <1>2, <1>4
      <3>3. QED
        BY <1>3, <1>10, <2>1, <3>1, <3>2
    <2>4. QED
      BY <1>9, <2>2, <2>3
  <1>12. ASSUME Unskipped PROVE Unskipped'
    <2>1. first \subseteq Listed
      BY <1>12 DEF Unskipped
    <2>2. \A r \in first : seen'[r] > 0 \/ (~over' /\ Rank(r) >= Q!Skip')
      <3> SUFFICES ASSUME NEW r \in first PROVE seen'[r] > 0 \/ (~over' /\ Rank(r) >= Q!Skip')
        OBVIOUS
      <3>1. /\ seen[r] > 0 \/ On(r, found) \/ Rank(r) >= Q!Skip + Limit
            /\ seen[r] > 0 \/ On(r, found) \/ total > Q!Skip + Limit
            /\ r \in Q!Rows
        BY <1>1, <1>10, <1>12, <2>1 DEF Unskipped
      <3>2. CASE seen[r] > 0 \/ On(r, found)
        BY <1>5, <3>1, <3>2
      <3>3. CASE Rank(r) >= Q!Skip + Limit /\ total > Q!Skip + Limit
        BY <1>2, <1>3, <1>4, <1>6, <1>9, <3>3
      <3>4. QED
        BY <3>1, <3>2, <3>3
    <2>3. QED
      BY <1>1, <1>8, <2>1, <2>2 DEF Unskipped
  <1>13. QED
    BY <1>1, <1>7, <1>11, <1>12 DEF ListsInv, Q!InOrder

(* Ranks are numbers also after a write.                                   *)
LEMMA RanksFinite ==
    Q!TypeOK => \A x \in Q!Rows : IsFiniteSet(Before(x)) /\ Rank(x) \in Nat
  BY RowsFinite

(* A row that comes pushes others back, never forward.                     *)
LEMMA ComeKeepsRanks ==
    ASSUME ListsTyped, ListsTyped', NEW r \in Q!Rows, NEW key \in 0..MaxKey,
           list' = list, table' = [table EXCEPT ![r] = key], table[r] = Q!NoKey,
           NEW s \in Listed
    PROVE  s \in Listed' /\ Rank(s)' >= Rank(s) /\ Rank(s) \in Nat /\ Rank(s)' \in Nat
  <1>1. table \in [Q!Rows -> 0..MaxKey] /\ s \in Q!Rows /\ s # r
    BY DEF ListsTyped, Q!TypeOK, Listed, Q!Present
  <1>2. \A u \in Listed : u \in Q!Rows /\ u # r /\ table'[u] = table[u] /\ u \in Listed'
    BY <1>1 DEF Listed, Q!Present
  <1>3. Before(s) \subseteq Before(s)'
    BY <1>2 DEF Before, Q!Precedes
  <1>4. IsFiniteSet(Before(s)) /\ Rank(s) \in Nat
    BY <1>1, RowsFinite DEF ListsTyped
  <1>5. Q!Rows' = Q!Rows
    OBVIOUS
  <1>6. Q!TypeOK' => IsFiniteSet(Before(s)') /\ Rank(s)' \in Nat
    <2>1. (Q!TypeOK => \A x \in Q!Rows : IsFiniteSet(Before(x)) /\ Rank(x) \in Nat)'
      BY RanksFinite, PTL
    <2>2. QED
      BY <1>1, <2>1
  <1>7. IsFiniteSet(Before(s)') /\ Rank(s)' \in Nat
    BY <1>6 DEF ListsTyped
  <1>8. Cardinality(Before(s)) <= Cardinality(Before(s)')
    BY <1>3, <1>7, FS_Subset
  <1>9. QED
    BY <1>2, <1>4, <1>7, <1>8 DEF Rank

(* A write by others is noted: it ends what a walk without writes may rely *)
(* on, and a new row pushes rows back and never forward.                   *)
LEMMA WriteStep ==
    ASSUME ListsInv, NEW r \in Q!Rows, NEW key \in 0..MaxKey, Q!Write(r, key)
    PROVE  ListsInv'
  <1>1. /\ ~over /\ writes < MaxWrites /\ writes' = writes + 1 /\ key # table[r]
        /\ table' = [table EXCEPT ![r] = key] /\ Q!Allowed(list, table')
        /\ UNCHANGED <<list, page, found, total, seen, first, over>>
    BY DEF Q!Write
  <1>2. PICK kind \in {"come", "go", "change"} :
          written' = written \cup {kind} /\ (kind = "come" => table[r] = Q!NoKey)
    BY DEF Q!Write
  <1>3. ListsTyped
    BY DEF ListsInv
  <1>4. ListsTyped'
    <2>1. writes' \in 0..MaxWrites
      BY <1>1, <1>3, QueryConstants DEF ListsTyped, Q!TypeOK
    <2>2. table' \in [Q!Rows -> 0..MaxKey]
      BY <1>1, <1>3 DEF ListsTyped, Q!TypeOK
    <2>3. written' \subseteq {"come", "go", "change"}
      BY <1>2, <1>3 DEF ListsTyped, Q!TypeOK
    <2>4. Q!TypeOK'
      BY <1>1, <1>3, <2>1, <2>2, <2>3 DEF ListsTyped, Q!TypeOK, Q!IsInjective
    <2>5. Q!Allowed(list, table)'
      BY <1>1 DEF Q!Allowed, Q!Present
    <2>6. QED
      BY <2>4, <2>5 DEF ListsTyped
  <1>5. ASSUME written' \subseteq {"come"}, Unskipped PROVE Unskipped'
    <2>1. table[r] = Q!NoKey /\ written \subseteq {"come"}
      BY <1>2, <1>5
    <2>2. ASSUME NEW s \in first
          PROVE  s \in Listed' /\ Rank(s)' >= Rank(s) /\ Rank(s) \in Nat /\ Rank(s)' \in Nat
      BY <1>1, <1>3, <1>4, <1>5, <2>1, ComeKeepsRanks DEF Unskipped
    <2>3. Q!Skip \in Nat /\ Limit \in Nat /\ Q!Skip' = Q!Skip
      BY <1>1, <1>3, SkipGrows, QueryConstants DEF ListsTyped, Q!Skip
    <2>4. \A s \in first : seen[s] > 0 \/ (~over /\ Rank(s)' >= Q!Skip)
      BY <1>5, <2>2, <2>3 DEF Unskipped
    <2>5. found # Q!NotYet => \A s \in first :
            seen[s] > 0 \/ On(s, found) \/ Rank(s)' >= Q!Skip + Limit
      BY <1>5, <2>2, <2>3 DEF Unskipped
    <2>6. QED
      BY <1>1, <1>5, <2>2, <2>3, <2>4, <2>5 DEF Unskipped
  <1>6. written' # {} /\ (written' \subseteq {"come"} => written \subseteq {"come"})
    BY <1>2
  <1>7. QED
    BY <1>1, <1>4, <1>5, <1>6 DEF ListsInv, Q!InOrder

(* Nobody misses a row of a list in order.                                 *)
LEMMA ListsStep == ListsInv /\ [Q!Next]_listVars => ListsInv'
  <1>1. ListsInv /\ UNCHANGED listVars => ListsInv'
    <2> SUFFICES ASSUME ListsInv, UNCHANGED listVars PROVE ListsInv'
      OBVIOUS
    <2>1. UNCHANGED <<list, table, page, found, total, seen, first, over, written, writes>>
      BY DEF listVars
    <2>2. /\ Listed' = Listed /\ Q!Skip' = Q!Skip /\ \A r : Rank(r)' = Rank(r)
      BY <2>1 DEF Listed, Q!Present, Q!Skip, Rank, Before, Q!Precedes
    <2>3. ListsTyped'
      BY <2>1 DEF ListsInv, ListsTyped, Q!TypeOK, Q!IsInjective, Q!Allowed, Q!Present
    <2>4. Walked => Walked'
      BY <2>1, <2>2 DEF Walked
    <2>5. Unskipped => Unskipped'
      BY <2>1, <2>2 DEF Unskipped
    <2>6. QED
      BY <2>1, <2>3, <2>4, <2>5 DEF ListsInv, Q!InOrder
  <1>2. QED
    BY <1>1, ReadRowsStep, ReadTotalStep, AnswerStep, WriteStep DEF Q!Next

(* What the invariant says of a walk that is over.                         *)
LEMMA ListsAreWalked == ListsInv => Q!WalkIsComplete /\ Q!NothingIsSkipped
  <1> SUFFICES ASSUME ListsInv PROVE Q!WalkIsComplete /\ Q!NothingIsSkipped
    OBVIOUS
  <1>1. Q!WalkIsComplete
    BY DEF Q!WalkIsComplete, ListsInv, Walked, Listed
  <1>2. Q!NothingIsSkipped
    BY DEF Q!NothingIsSkipped, ListsInv, Unskipped
  <1>3. QED
    BY <1>1, <1>2
-----------------------------------------------------------------------------
(* The behaviours of the composition: one module moves, the others rest.   *)

Foci == {"accounts", "overlap", "warehouses", "partners", "addresses", "products",
         "lists", "stock", "forms"}

(* Each module is in the states of its own argument while it is in focus.  *)
RecordsInv ==
    /\ focus \in Foci
    /\ focus = "accounts" => AloneInv
    /\ focus = "overlap" => GrantsInv
    /\ focus = "warehouses" => WarehousesInv
    /\ focus = "partners" => PartnersInv
    /\ focus = "addresses" => AddressesInv
    /\ focus = "products" => ProductsInv
    /\ focus = "lists" => ListsInv
    /\ focus = "stock" => StockInv
    /\ focus = "forms" => EditingInv

(* Every focus begins in its invariant, and the others rest.               *)
LEMMA RecordsInvInit == RecordsInit => RecordsInv
  <1> SUFFICES ASSUME RecordsInit PROVE RecordsInv
    OBVIOUS
  <1>1. /\ focus \in Foci
        /\ Init /\ W!Init /\ P!Init /\ Q!Init /\ S!ReadsInit /\ E!Init
        /\ focus = "partners" => One!Init
        /\ focus = "addresses" => Two!Init
    BY DEF RecordsInit, Foci
  <1>2. QED
    BY <1>1, AloneInit, GrantsInit, WarehousesInit, PartnersInit, AddressesInit, ProductsInit,
       ListsInit, StockInit, EditingInit
    DEF RecordsInv

(* A step is one of the module in focus, or leaves it as it is.            *)
LEMMA StepInFocus ==
    ASSUME [RecordsNext]_recordVars, focus \in Foci
    PROVE  /\ focus' = focus
           /\ focus = "accounts" => (Next /\ Alone) \/ UNCHANGED vars
           /\ focus = "overlap" => [Next]_vars
           /\ focus = "warehouses" => [W!Next]_warehouseVars
           /\ focus = "partners" => [One!Next]_partnerVars
           /\ focus = "addresses" => [Two!Next]_partnerVars
           /\ focus = "products" => [P!QuietNext]_productVars
           /\ focus = "lists" => [Q!Next]_listVars
           /\ focus = "stock" => [S!ReadsNext]_stockVars
           /\ focus = "forms" => [E!Next]_formVars
  <1>1. CASE RecordsNext
    BY <1>1 DEF RecordsNext
  <1>2. CASE UNCHANGED recordVars
    BY <1>2 DEF recordVars, tableVars, readerVars
  <1>3. QED
    BY <1>1, <1>2

(* A step is one of the module in focus.                                   *)
LEMMA RecordsInvNext == RecordsInv /\ [RecordsNext]_recordVars => RecordsInv'
  <1> SUFFICES ASSUME RecordsInv, [RecordsNext]_recordVars PROVE RecordsInv'
    OBVIOUS
  <1>1. focus \in Foci /\ focus' = focus
    BY StepInFocus DEF RecordsInv
  <1>2. focus = "accounts" => AloneInv'
    BY StepInFocus, AloneStep, AloneRests DEF RecordsInv
  <1>3. focus = "overlap" => GrantsInv'
    BY StepInFocus, GrantsStep DEF RecordsInv
  <1>4. focus = "warehouses" => WarehousesInv'
    BY StepInFocus, WarehousesStep DEF RecordsInv
  <1>5. focus = "partners" => PartnersInv'
    BY StepInFocus, PartnersStep DEF RecordsInv
  <1>6. focus = "addresses" => AddressesInv'
    BY StepInFocus, AddressesStep DEF RecordsInv
  <1>7. focus = "products" => ProductsInv'
    BY StepInFocus, ProductsStep DEF RecordsInv
  <1>8. focus = "lists" => ListsInv'
    BY StepInFocus, ListsStep DEF RecordsInv
  <1>9. focus = "stock" => StockInv'
    BY StepInFocus, StockStep DEF RecordsInv
  <1>10. focus = "forms" => EditingInv'
    BY StepInFocus, EditingStep DEF RecordsInv, EditingGoal
  <1>11. QED
    BY <1>1, <1>2, <1>3, <1>4, <1>5, <1>6, <1>7, <1>8, <1>9, <1>10 DEF RecordsInv

LEMMA RecordsInvHolds == RecordsSpec => []RecordsInv
  BY RecordsInvInit, RecordsInvNext, PTL DEF RecordsSpec

(* The types of the module in focus, the locations of active warehouses,   *)
(* the one main address of a partner and the document that fits its type   *)
(* survive every sequence of requests.                                     *)
THEOREM RecordsAreAlwaysSound == RecordsSpec => []RecordsAreSound
  <1>1. RecordsInv => RecordsAreSound
    <2> SUFFICES ASSUME RecordsInv PROVE RecordsAreSound
      OBVIOUS
    <2>1. LocationsAreInActiveWarehouses
      BY DEF LocationsAreInActiveWarehouses, RecordsInv, WarehousesInv
    <2>2. OneMainAddress
      BY DEF OneMainAddress, RecordsInv, AddressesInv
    <2>3. DocumentFitsType
      BY DEF DocumentFitsType, RecordsInv, PartnersInv
    <2>4. /\ focus \in Foci
          /\ focus = "accounts" => TypeOK
          /\ focus = "overlap" => TypeOK
          /\ focus = "warehouses" => W!TypeOK
          /\ focus = "partners" => One!TypeOK
          /\ focus = "addresses" => Two!TypeOK
          /\ focus = "products" => P!TypeOK
          /\ focus = "lists" => Q!TypeOK
          /\ focus = "stock" => S!ReadsTypeOK
          /\ focus = "forms" => E!TypeOK
      BY DEF RecordsInv, AloneInv, GrantsInv, WarehousesInv, PartnersInv, OneTyped, AddressesInv,
             TwoTyped, ProductsInv, ListsInv, ListsTyped, StockInv, EditingInv
    <2>5. TypesOK
      BY <2>4 DEF TypesOK, Foci
    <2>6. QED
      BY <2>1, <2>2, <2>3, <2>5 DEF RecordsAreSound
  <1>2. QED
    BY <1>1, RecordsInvHolds, PTL

(* Administrative requests that follow each other, whatever they ask for,  *)
(* leave the company an administrator, and no token of an account that was *)
(* deactivated waits for its activation.                                   *)
THEOREM AccountsAreAlwaysSound == RecordsSpec => []AccountsAreSound
  <1>1. RecordsInv => AccountsAreSound
    BY DEF RecordsInv, AloneInv, AccountsAreSound, AloneAdministratorRemains,
           AloneInactiveHasNoToken
  <1>2. QED
    BY <1>1, RecordsInvHolds, PTL

(* Whoever turns the pages of a list in order sees every row once while    *)
(* nothing is written, and misses none because rows come.                  *)
THEOREM ListsAreAlwaysComplete == RecordsSpec => []ListsAreComplete
  <1>1. RecordsInv => ListsAreComplete
    BY ListsAreWalked DEF RecordsInv, ListsAreComplete, WalkIsComplete, NothingIsSkipped
  <1>2. QED
    BY <1>1, RecordsInvHolds, PTL

(* What is shown as available was so at some moment of the read where no   *)
(* stock moved, and below zero only where stock entered meanwhile.         *)
THEOREM ShownStockIsAlwaysReal == RecordsSpec => []ShownStockIsReal
  <1>1. RecordsInv => ShownStockIsReal
    BY DEF RecordsInv, StockInv, ShownStockIsReal, AvailableIsCurrent, NegativeNeedsEntry
  <1>2. QED
    BY <1>1, RecordsInvHolds, PTL

(* However administrative requests overlap, a change of what a user may do *)
(* voids the user's tokens; a 409 for a document is true; and a product is *)
(* linked to active references as long as these rest while it is written.  *)
THEOREM WritesAreAlwaysSound == RecordsSpec => WritesAreSound
  <1>1. RecordsInv /\ [RecordsNext]_recordVars
          => [NewGrantsVoidTokens /\ DuplicateIsReal /\ P!LinksToActive]_recordVars
    <2> SUFFICES ASSUME RecordsInv, [RecordsNext]_recordVars
                 PROVE  NewGrantsVoidTokens /\ DuplicateIsReal /\ P!LinksToActive
      OBVIOUS
    <2>1. focus \in Foci
      BY DEF RecordsInv
    <2>2. NewGrantsVoidTokens
      <3>1. CASE focus = "accounts"
        BY <3>1, StepInFocus, GrantsStep DEF RecordsInv, AloneInv
      <3>2. CASE focus = "overlap"
        BY <3>2, StepInFocus, GrantsStep DEF RecordsInv
      <3>3. CASE focus \notin {"accounts", "overlap"}
        <4>1. UNCHANGED vars
          BY <3>3 DEF RecordsNext, recordVars, tableVars
        <4>2. QED
          BY <4>1, SameGrants DEF vars
      <3>4. QED
        BY <3>1, <3>2, <3>3
    <2>3. DuplicateIsReal
      BY <2>1, StepInFocus, ConflictIsReal DEF RecordsInv, DuplicateIsReal
    <2>4. P!LinksToActive
      <3>1. CASE focus = "products"
        BY <3>1, StepInFocus, ProductsStep DEF RecordsInv
      <3>2. CASE focus # "products"
        <4>1. UNCHANGED productVars
          BY <3>2 DEF RecordsNext, recordVars, tableVars
        <4>2. QED
          BY <4>1, UnlinkedStays DEF productVars
      <3>3. QED
        BY <3>1, <3>2
    <2>5. QED
      BY <2>2, <2>3, <2>4
  <1>2. QED
    BY <1>1, RecordsInvHolds, PTL DEF RecordsSpec, WritesAreSound

(* A form holds what was typed or what its page shows; its save takes back *)
(* no change that the page had shown; and what is typed stays.             *)
THEOREM FormsAlwaysKeep == RecordsSpec => FormsKeep
  <1>1. RecordsInv /\ [RecordsNext]_recordVars
          => [focus = "forms" => E!TypedOrShown' /\ E!SaveSparesOthers /\ E!TypedStays]_recordVars
    BY StepInFocus, EditingStep DEF RecordsInv, EditingGoal
  <1>2. QED
    BY <1>1, RecordsInvHolds, PTL DEF RecordsSpec, FormsKeep
=============================================================================
