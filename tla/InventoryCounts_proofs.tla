----------------------- MODULE InventoryCounts_proofs -----------------------
(***************************************************************************)
(* What InventoryCounts guarantees for every set of counts, clerks,        *)
(* products and locations: one open count per warehouse, complete when it  *)
(* is ready and moved once (CountsStaySound); a snapshot that stays the    *)
(* stock (SnapshotStays); an approval that sets what was counted           *)
(* (ApprovalSetsIt); and the contract of stock (CountsKeepContract).       *)
(***************************************************************************)
EXTENDS InventoryCounts, Basics_proofs

-----------------------------------------------------------------------------
(* The inductive invariant.                                                *)

(* Items are cells of the count's warehouse and exist only once it began.  *)
RowsInPlace(k) ==
    \A c \in ItemsOf(k) : c \in CellsOf(warehouse[k]) /\ status[k] \notin {"NONE", "DRAFT"}

(* What the items of a count say in each status.                           *)
FiguresAreTrue(k) ==
    /\ \A c \in ItemsOf(k) :
         /\ status[k] \in {"RECOUNT_REQUIRED", "READY_FOR_APPROVAL"} =>
                item[k][c].first # NotCounted
         /\ status[k] = "READY_FOR_APPROVAL" => FinalQuantity(item[k][c]) # NotCounted
         /\ status[k] \in Locking => item[k][c].system = balance[c]
    /\ \A c \in Cells :
         adjusted[k][c] = IF status[k] = "APPROVED" /\ c \in ItemsOf(k)
                            THEN Difference(item[k][c]) ELSE 0
CountSound(k) == RowsInPlace(k) /\ (waits => FiguresAreTrue(k))

(* Where a count can be while a clerk's request on it is open; and what    *)
(* the items said when a recount saw that nothing is pending stays true.   *)
TimelyRequest(r) ==
    IF r.op = "count" THEN status[r.count] = "IN_PROGRESS"
    ELSE /\ status[r.count] \in {"RECOUNT_REQUIRED", "READY_FOR_APPROVAL"}
         /\ r.completes => NothingPending(r.count, r.cell)
RequestSound(t) ==
    request[t] # NoRequest =>
        /\ request[t].cell \in ItemsOf(request[t].count)
        /\ waits => TimelyRequest(request[t])

(* Reservations are covered, and only cells with a row hold stock.         *)
StockSound ==
    \A c \in Cells : reserved[c] <= balance[c] /\ (balance[c] # 0 => c \in registered)

CountsInvariant ==
    /\ OneOpenCount
    /\ \A k \in Counts : CountSound(k)
    /\ \A t \in Clients : RequestSound(t)
    /\ StockSound

-----------------------------------------------------------------------------
(* What a step leaves alone stays sound.                                   *)

USE WarehouseOfAssumption, NoLocationAssumption, CapacityAssumption,
    NoItemAssumption, NotCountedAssumption

LEMMA RowFacts ==
    ASSUME NEW row \in ItemRows
    PROVE  /\ row # NoItem /\ row.system \in Quantity /\ row.system \in Int
           /\ row.first \in Quantity \cup {NotCounted}
           /\ FinalQuantity(row) # NotCounted =>
                FinalQuantity(row) \in Int /\ Difference(row) \in Int
                /\ Difference(row) = FinalQuantity(row) - row.system
  BY DEF ItemRows, Quantity, FinalQuantity, Difference

LEMMA ItemIsRow ==
    ASSUME TypeOK, NEW k \in Counts, NEW c \in ItemsOf(k)
    PROVE  c \in Cells /\ item[k][c] \in ItemRows
  BY DEF TypeOK, ItemsOf

LEMMA CountFrame ==
    ASSUME NEW k, CountSound(k), waits' = waits,
           status'[k] = status[k], warehouse'[k] = warehouse[k],
           item'[k] = item[k], adjusted'[k] = adjusted[k],
           status[k] \in Locking => \A c \in CellsOf(warehouse[k]) : balance'[c] = balance[c]
    PROVE  CountSound(k)'
  <1>1. ItemsOf(k)' = ItemsOf(k)
    BY DEF ItemsOf
  <1>2. RowsInPlace(k)'
    BY <1>1 DEF CountSound, RowsInPlace
  <1>3. ASSUME FiguresAreTrue(k), RowsInPlace(k) PROVE FiguresAreTrue(k)'
    BY <1>1, <1>3 DEF FiguresAreTrue, RowsInPlace
  <1>4. QED
    BY <1>2, <1>3 DEF CountSound

LEMMA RequestFrame ==
    ASSUME NEW t, RequestSound(t), request'[t] = request[t], waits' = waits,
           NEW r, r = request[t],
           r # NoRequest => /\ ItemsOf(r.count) \subseteq ItemsOf(r.count)'
                            /\ waits => /\ status'[r.count] = status[r.count]
                                        /\ r.op # "count" => item'[r.count] = item[r.count]
    PROVE  RequestSound(t)'
  <1> SUFFICES ASSUME r # NoRequest
               PROVE  r.cell \in ItemsOf(r.count)' /\ (waits => TimelyRequest(r)')
    BY DEF RequestSound
  <1>1. r.cell \in ItemsOf(r.count) /\ (waits => TimelyRequest(r))
    BY DEF RequestSound
  <1>2. r.cell \in ItemsOf(r.count)'
    BY <1>1
  <1>3. ASSUME waits, TimelyRequest(r) PROVE TimelyRequest(r)'
    <2>1. CASE r.op = "count"
      BY <1>3, <2>1 DEF TimelyRequest
    <2>2. CASE r.op # "count"
      BY <1>3, <2>2 DEF TimelyRequest, NothingPending, ItemsOf
    <2>3. QED
      BY <2>1, <2>2
  <1>4. QED
    BY <1>1, <1>2, <1>3

LEMMA OpenFrame ==
    ASSUME OneOpenCount, NEW k \in Counts, UNCHANGED warehouse,
           \A j \in Counts \ {k} : status'[j] = status[j],
           status'[k] \in Open => status[k] \in Open \/ OnlyOpenCount(k, warehouse[k])
    PROVE  OneOpenCount'
  BY DEF OneOpenCount, OnlyOpenCount

(* Steps on one count leave the others and the requests on them alone.     *)
LEMMA OneCountMoves ==
    ASSUME TypeOK, CountsInvariant, NEW k \in Counts, waits' = waits,
           \A j \in Counts \ {k} :
               /\ status'[j] = status[j] /\ warehouse'[j] = warehouse[j]
               /\ item'[j] = item[j] /\ adjusted'[j] = adjusted[j]
               /\ status[j] \in Locking =>
                     \A c \in CellsOf(warehouse[j]) : balance'[c] = balance[c],
           OneOpenCount', CountSound(k)', StockSound',
           \A t \in Clients : \/ RequestSound(t)'
                             \/ /\ request'[t] = request[t]
                                /\ request[t] # NoRequest => request[t].count # k
    PROVE  CountsInvariant'
  <1>1. ASSUME NEW j \in Counts \ {k} PROVE CountSound(j)'
    BY CountFrame DEF CountsInvariant
  <1>2. ASSUME NEW t \in Clients, request'[t] = request[t],
               request[t] # NoRequest => request[t].count # k
        PROVE  RequestSound(t)'
    <2>1. PICK r : r = request[t]
      OBVIOUS
    <2>2. r # NoRequest => r.count \in Counts \ {k}
      BY <1>2, <2>1 DEF TypeOK, RequestRecords
    <2>3. r # NoRequest => item'[r.count] = item[r.count] /\ status'[r.count] = status[r.count]
      BY <2>2
    <2>4. r # NoRequest => ItemsOf(r.count)' = ItemsOf(r.count)
      BY <2>3 DEF ItemsOf
    <2>5. QED
      BY <1>2, <2>1, <2>3, <2>4, RequestFrame DEF CountsInvariant
  <1>3. QED
    BY <1>1, <1>2 DEF CountsInvariant

(* Steps of other services on stock touch no warehouse under inventory.    *)
LEMMA StockMoves ==
    ASSUME TypeOK, CountsInvariant, UNCHANGED <<countVars, adjusted, request, inactive, waits>>,
           balance' \in Balances, reserved' \in Amounts,
           registered' \in SUBSET Cells, registered \subseteq registered',
           \A c \in Cells :
               /\ reserved'[c] <= balance'[c]
               /\ balance'[c] # balance[c] =>
                     (balance'[c] = 0 \/ c \in registered')
                     /\ WarehouseOf[c[2]] \notin underInventory
    PROVE  TypeOK' /\ CountsInvariant'
  <1>1. TypeOK'
    BY DEF TypeOK, countVars
  <1>2. ASSUME NEW k \in Counts PROVE CountSound(k)'
    <2>1. status[k] \in Locking => \A c \in CellsOf(warehouse[k]) : balance'[c] = balance[c]
      BY DEF underInventory, CellsOf
    <2>2. QED
      BY <2>1, CountFrame DEF CountsInvariant, countVars
  <1>3. ASSUME NEW t \in Clients PROVE RequestSound(t)'
    <2>1. PICK r : r = request[t]
      OBVIOUS
    <2>2. ItemsOf(r.count)' = ItemsOf(r.count)
      BY DEF ItemsOf, countVars
    <2>3. QED
      BY <2>1, <2>2, RequestFrame DEF CountsInvariant, countVars
  <1>4. StockSound'
    BY DEF CountsInvariant, StockSound
  <1>5. OneOpenCount'
    BY DEF CountsInvariant, OneOpenCount, countVars
  <1>6. QED
    BY <1>1, <1>2, <1>3, <1>4, <1>5 DEF CountsInvariant

-----------------------------------------------------------------------------
(* The supervisor's operations keep the invariant.                         *)

(* A count that has not begun has no items, so no request is on it.        *)
LEMMA NotBegun ==
    ASSUME TypeOK, CountsInvariant, NEW k \in Counts, status[k] \in {"NONE", "DRAFT"}
    PROVE  /\ ItemsOf(k) = {}
           /\ \A t \in Clients : request[t] # NoRequest => request[t].count # k
  <1>1. ItemsOf(k) = {}
    BY DEF CountsInvariant, CountSound, RowsInPlace
  <1>2. QED
    BY <1>1 DEF CountsInvariant, RequestSound

(* A count that is not approved has moved nothing.                         *)
LEMMA NothingMoved ==
    ASSUME CountsInvariant, NEW k \in Counts, waits, status[k] # "APPROVED", NEW c \in Cells
    PROVE  adjusted[k][c] = 0
  BY DEF CountsInvariant, CountSound, FiguresAreTrue

LEMMA CreateKeeps ==
    ASSUME TypeOK, CountsInvariant, NEW k \in Counts, NEW w \in Warehouses, create(k, w),
           waits' = waits
    PROVE  TypeOK' /\ CountsInvariant'
  <1>1. /\ status[k] = "NONE" /\ status'[k] = "DRAFT" /\ warehouse'[k] = w
        /\ OnlyOpenCount(k, w)
        /\ UNCHANGED <<item, balance, registered, adjusted, request, reserved>>
        /\ \A j \in Counts \ {k} : status'[j] = status[j] /\ warehouse'[j] = warehouse[j]
    BY DEF create, stockVars, TypeOK
  <1>2. TypeOK'
    BY DEF TypeOK, create, stockVars, Open
  <1>3. ItemsOf(k)' = {} /\ \A t \in Clients : request[t] # NoRequest => request[t].count # k
    BY <1>1, NotBegun DEF ItemsOf
  <1>4. CountSound(k)'
    BY <1>1, <1>3, NothingMoved DEF CountSound, RowsInPlace, FiguresAreTrue
  <1>5. OneOpenCount'
    BY <1>1 DEF CountsInvariant, OneOpenCount, OnlyOpenCount
  <1>6. StockSound'
    BY <1>1 DEF CountsInvariant, StockSound
  <1>7. QED
    BY <1>1, <1>2, <1>3, <1>4, <1>5, <1>6, OneCountMoves

LEMMA StartKeeps ==
    ASSUME TypeOK, CountsInvariant, NEW k \in Counts, start(k), waits' = waits
    PROVE  TypeOK' /\ CountsInvariant'
  <1> DEFINE Row(c) == [system |-> balance[c], first |-> NotCounted, recount |-> NotCounted]
             rows == [c \in Cells |->
                        IF c \in registered \cap CellsOf(warehouse[k]) THEN Row(c) ELSE NoItem]
  <1>1. /\ status[k] = "DRAFT" /\ status'[k] = "IN_PROGRESS" /\ item' = [item EXCEPT ![k] = rows]
        /\ UNCHANGED <<warehouse, balance, registered, adjusted, request, reserved>>
        /\ \A j \in Counts \ {k} : status'[j] = status[j]
    BY DEF start, stockVars, TypeOK
  <1>2. \A c \in Cells : Row(c) \in ItemRows /\ Row(c).system = balance[c]
    BY DEF TypeOK, Balances, ItemRows, Quantity
  <1>3. /\ rows \in [Cells -> ItemRows \cup {NoItem}]
        /\ \A c \in Cells : rows[c] # NoItem =>
              c \in CellsOf(warehouse[k]) /\ rows[c].system = balance[c]
    BY <1>2
  <1> HIDE DEF rows
  <1>4. item'[k] = rows /\ item' \in [Counts -> [Cells -> ItemRows \cup {NoItem}]]
        /\ \A j \in Counts \ {k} : item'[j] = item[j]
    BY <1>1, <1>3 DEF TypeOK
  <1>5. TypeOK'
    BY <1>1, <1>4 DEF TypeOK, start, Open, Locking
  <1>6. \A c \in ItemsOf(k)' : c \in CellsOf(warehouse[k]) /\ item'[k][c].system = balance[c]
    BY <1>3, <1>4 DEF ItemsOf
  <1>7. CountSound(k)'
    BY <1>1, <1>6, NothingMoved DEF CountSound, RowsInPlace, FiguresAreTrue
  <1>8. OneOpenCount'
    BY <1>1, OpenFrame DEF CountsInvariant, Open
  <1>9. StockSound'
    BY <1>1 DEF CountsInvariant, StockSound
  <1>10. \A t \in Clients : request[t] # NoRequest => request[t].count # k
    BY <1>1, NotBegun
  <1>11. QED
    BY <1>1, <1>4, <1>5, <1>7, <1>8, <1>9, <1>10, OneCountMoves

LEMMA AddItemKeeps ==
    ASSUME TypeOK, CountsInvariant, NEW k \in Counts, NEW c \in Cells, addItem(k, c),
           waits' = waits
    PROVE  TypeOK' /\ CountsInvariant'
  <1> DEFINE row == [system |-> 0, first |-> NotCounted, recount |-> NotCounted]
  <1>1. /\ status[k] = "IN_PROGRESS" /\ c \in CellsOf(warehouse[k]) /\ c \notin registered
        /\ item' = [item EXCEPT ![k][c] = row]
        /\ UNCHANGED <<status, warehouse, balance, registered, adjusted, request, reserved>>
    BY DEF addItem, stockVars
  <1>2. row \in ItemRows /\ row.system = 0
    BY DEF ItemRows, Quantity
  <1> HIDE DEF row
  <1>3. /\ item' \in [Counts -> [Cells -> ItemRows \cup {NoItem}]]
        /\ item'[k][c] = row /\ \A d \in Cells \ {c} : item'[k][d] = item[k][d]
        /\ \A j \in Counts \ {k} : item'[j] = item[j]
    BY <1>1, <1>2 DEF TypeOK
  <1>4. TypeOK'
    BY <1>1, <1>3 DEF TypeOK, addItem
  <1>5. balance[c] = 0
    BY <1>1 DEF CountsInvariant, StockSound
  <1>6. ItemsOf(k)' = ItemsOf(k) \cup {c}
    BY <1>2, <1>3, RowFacts DEF ItemsOf
  <1>7. CountSound(k)'
    <2>1. RowsInPlace(k)'
      BY <1>1, <1>6 DEF CountsInvariant, CountSound, RowsInPlace
    <2>2. ASSUME waits PROVE FiguresAreTrue(k)'
      <3>1. \A d \in ItemsOf(k)' : item'[k][d].system = balance'[d]
        <4> SUFFICES ASSUME NEW d \in ItemsOf(k)' PROVE item'[k][d].system = balance[d]
          BY <1>1
        <4>1. CASE d = c
          BY <1>2, <1>3, <1>5, <4>1
        <4>2. CASE d # c
          <5>1. d \in ItemsOf(k) /\ item'[k][d] = item[k][d]
            BY <1>3, <1>6, <4>2 DEF ItemsOf
          <5>2. QED
            BY <1>1, <2>2, <5>1 DEF CountsInvariant, CountSound, FiguresAreTrue, Locking
        <4>3. QED
          BY <4>1, <4>2
      <3>2. \A d \in Cells : adjusted'[k][d] = 0
        BY <1>1, <2>2, NothingMoved
      <3>3. QED
        BY <1>1, <3>1, <3>2 DEF FiguresAreTrue
    <2>3. QED
      BY <2>1, <2>2 DEF CountSound
  <1>8. ASSUME NEW t \in Clients PROVE RequestSound(t)'
    <2>1. PICK r : r = request[t]
      OBVIOUS
    <2>2. r # NoRequest => r.count \in Counts
      BY <2>1 DEF TypeOK, RequestRecords
    <2>3. r # NoRequest => ItemsOf(r.count) \subseteq ItemsOf(r.count)'
      BY <1>3, <1>6, <2>2 DEF ItemsOf
    <2>4. (r # NoRequest /\ waits /\ r.op # "count") => r.count # k
      BY <1>1, <2>1 DEF CountsInvariant, RequestSound, TimelyRequest
    <2>5. QED
      BY <1>1, <1>3, <2>1, <2>2, <2>3, <2>4, RequestFrame DEF CountsInvariant
  <1>9. OneOpenCount' /\ StockSound'
    BY <1>1 DEF CountsInvariant, StockSound, OneOpenCount
  <1>10. QED
    BY <1>1, <1>3, <1>4, <1>7, <1>8, <1>9, OneCountMoves

LEMMA CancelKeeps ==
    ASSUME TypeOK, CountsInvariant, NEW k \in Counts, cancel(k), waits' = waits
    PROVE  TypeOK' /\ CountsInvariant'
  <1>1. /\ status[k] \in Open /\ status'[k] = "CANCELLED"
        /\ UNCHANGED <<warehouse, item, balance, registered, adjusted, request, reserved>>
        /\ \A j \in Counts \ {k} : status'[j] = status[j]
    BY DEF cancel, stockVars, TypeOK
  <1>2. TypeOK'
    BY DEF TypeOK, cancel, stockVars, Decided
  <1>3. ItemsOf(k)' = ItemsOf(k)
    BY <1>1 DEF ItemsOf
  <1>4. CountSound(k)'
    <2>1. RowsInPlace(k)'
      BY <1>1, <1>3 DEF CountsInvariant, CountSound, RowsInPlace
    <2>2. waits => \A c \in Cells : adjusted'[k][c] = 0
      BY <1>1, NothingMoved DEF Open, Locking
    <2>3. QED
      BY <1>1, <2>1, <2>2 DEF CountSound, FiguresAreTrue, Locking
  <1>5. ASSUME NEW t \in Clients
        PROVE  RequestSound(t)' \/ (request[t] # NoRequest => request[t].count # k)
    <2>1. PICK r : r = request[t]
      OBVIOUS
    <2>2. CASE waits
      BY <2>2 DEF cancel, Undisturbed
    <2>3. CASE ~waits
      <3>1. ItemsOf(r.count)' = ItemsOf(r.count)
        BY <1>1 DEF ItemsOf
      <3>2. QED
        BY <1>1, <2>1, <2>3, <3>1, RequestFrame DEF CountsInvariant
    <2>4. QED
      BY <2>2, <2>3
  <1>6. OneOpenCount'
    BY <1>1, OpenFrame DEF CountsInvariant, Open, Locking
  <1>7. StockSound'
    BY <1>1 DEF CountsInvariant, StockSound
  <1>8. QED
    BY <1>1, <1>2, <1>4, <1>5, <1>6, <1>7, OneCountMoves

(* The divergent items lose their second figure and are due again.         *)
LEMMA RequestRecountKeeps ==
    ASSUME TypeOK, CountsInvariant, NEW k \in Counts, requestRecount(k), waits' = waits
    PROVE  TypeOK' /\ CountsInvariant'
  <1> DEFINE divergent == {c \in ItemsOf(k) : Divergent(item[k][c])}
             Due(c) == [item[k][c] EXCEPT !.recount = NotCounted]
             rows == [c \in Cells |-> IF c \in divergent THEN Due(c) ELSE item[k][c]]
  <1>1. /\ status[k] \in {"IN_PROGRESS", "READY_FOR_APPROVAL"}
        /\ \A c \in ItemsOf(k) : item[k][c].first # NotCounted
        /\ item' = [item EXCEPT ![k] = rows] \/ item' = item
        /\ status' = [status EXCEPT ![k] =
              IF divergent # {} THEN "RECOUNT_REQUIRED" ELSE "READY_FOR_APPROVAL"]
        /\ UNCHANGED <<warehouse, balance, registered, adjusted, request, reserved, inactive>>
    BY DEF requestRecount, stockVars
  <1>2. \A c \in ItemsOf(k) : Due(c) \in ItemRows /\ Due(c).first = item[k][c].first
                              /\ Due(c).system = item[k][c].system
    BY ItemIsRow DEF ItemRows
  <1>3. /\ rows \in [Cells -> ItemRows \cup {NoItem}]
        /\ \A c \in ItemsOf(k) : /\ rows[c] \in ItemRows /\ rows[c].first = item[k][c].first
                                  /\ rows[c].system = item[k][c].system
        /\ \A c \in Cells \ ItemsOf(k) : rows[c] = NoItem
    <2>1. \A c \in Cells : item[k][c] \in ItemRows \cup {NoItem}
      BY DEF TypeOK
    <2>2. \A c \in divergent : c \in ItemsOf(k)
      OBVIOUS
    <2>3. \A c \in ItemsOf(k) : c \in Cells /\ item[k][c] \in ItemRows
      BY ItemIsRow
    <2>4. \A c \in Cells \ ItemsOf(k) : item[k][c] = NoItem
      BY DEF ItemsOf
    <2> HIDE DEF divergent, Due
    <2>5. QED
      BY <1>2, <2>1, <2>2, <2>3, <2>4
  <1> HIDE DEF rows
  <1>4. /\ item' \in [Counts -> [Cells -> ItemRows \cup {NoItem}]]
        /\ \A j \in Counts \ {k} : item'[j] = item[j]
        /\ item'[k] = rows \/ item'[k] = item[k]
    BY <1>1, <1>3 DEF TypeOK
  <1>5. ItemsOf(k)' = ItemsOf(k)
    <2>1. \A c \in Cells : item'[k][c] # NoItem <=> item[k][c] # NoItem
      BY <1>3, <1>4, RowFacts DEF ItemsOf
    <2>2. QED
      BY <2>1 DEF ItemsOf
  <1>6. \A c \in ItemsOf(k) : item'[k][c].first = item[k][c].first
                              /\ item'[k][c].system = item[k][c].system
    BY <1>3, <1>4
  <1>7. /\ status'[k] \in {"RECOUNT_REQUIRED", "READY_FOR_APPROVAL"}
        /\ status'[k] = "READY_FOR_APPROVAL" => divergent = {}
        /\ \A j \in Counts \ {k} : status'[j] = status[j]
        /\ status' \in [Counts -> Open \cup Decided \cup {"NONE"}]
    BY <1>1 DEF TypeOK, Open, Locking
  <1>8. TypeOK'
    BY <1>1, <1>4, <1>7 DEF TypeOK
  <1>9. CountSound(k)'
    <2>1. RowsInPlace(k)'
      BY <1>1, <1>5, <1>7 DEF CountsInvariant, CountSound, RowsInPlace
    <2>2. ASSUME waits PROVE FiguresAreTrue(k)'
      <3>1. \A c \in ItemsOf(k) : item'[k][c].first # NotCounted
                                  /\ item'[k][c].system = balance'[c]
        BY <1>1, <1>6, <2>2 DEF CountsInvariant, CountSound, FiguresAreTrue, Locking
      <3>2. ASSUME status'[k] = "READY_FOR_APPROVAL", NEW c \in ItemsOf(k)
            PROVE  FinalQuantity(item'[k][c]) # NotCounted
        <4>1. ~Divergent(item[k][c])
          BY <1>7, <3>2
        <4>2. item'[k][c].first = item'[k][c].system
          BY <1>1, <1>6, <4>1 DEF Divergent
        <4>3. QED
          BY <3>1, <4>2 DEF FinalQuantity
      <3>3. \A c \in Cells : adjusted'[k][c] = 0
        BY <1>1, <2>2, NothingMoved
      <3>4. QED
        <4>1. \A c \in ItemsOf(k)' :
                /\ item'[k][c].first # NotCounted /\ item'[k][c].system = balance'[c]
                /\ status'[k] = "READY_FOR_APPROVAL" => FinalQuantity(item'[k][c]) # NotCounted
          BY <1>5, <3>1, <3>2
        <4>2. status'[k] # "APPROVED"
          BY <1>7
        <4>3. QED
          BY <3>3, <4>1, <4>2 DEF FiguresAreTrue
    <2>3. QED
      BY <1>1, <2>1, <2>2 DEF CountSound
  <1>10. ASSUME NEW t \in Clients
         PROVE  RequestSound(t)' \/ (request[t] # NoRequest => request[t].count # k)
    <2>1. PICK r : r = request[t]
      OBVIOUS
    <2>2. CASE waits
      BY <2>2 DEF requestRecount, Undisturbed
    <2>3. CASE ~waits
      <3>1. CASE r # NoRequest => r.count # k
        BY <2>1, <3>1
      <3>2. CASE r # NoRequest /\ r.count = k
        <4>1. ItemsOf(r.count)' = ItemsOf(r.count)
          BY <1>5, <3>2
        <4>2. QED
          BY <1>1, <2>1, <2>3, <4>1, RequestFrame DEF CountsInvariant
      <3>3. QED
        BY <3>1, <3>2
    <2>4. QED
      BY <2>2, <2>3
  <1>11. OneOpenCount'
    BY <1>1, <1>7, OpenFrame DEF CountsInvariant, Open, Locking
  <1>12. StockSound'
    BY <1>1 DEF CountsInvariant, StockSound
  <1>13. QED
    BY <1>1, <1>4, <1>7, <1>8, <1>9, <1>10, <1>11, <1>12, OneCountMoves

(* What the adjustments of an approval do to a cell: an adjusted cell is   *)
(* an item of the count, and is left with what is reserved of it.          *)
LEMMA ApprovalMoves ==
    ASSUME TypeOK, CountsInvariant, NEW k \in Counts, approve(k), NEW c \in Cells
    PROVE  /\ c \notin Adjusts(k) => balance'[c] = balance[c]
           /\ c \in Adjusts(k) =>
                /\ c \in ItemsOf(k) /\ c \in CellsOf(warehouse[k]) /\ c \in registered'
                /\ Difference(item[k][c]) \in Int
                /\ balance'[c] = balance[c] + Difference(item[k][c])
                /\ balance'[c] > balance[c] \/ balance'[c] >= reserved[c]
           /\ balance'[c] \in 0..Capacity /\ reserved[c] <= balance'[c]
           /\ balance[c] \in Nat /\ reserved[c] \in Nat
  <1> DEFINE d == Difference(item[k][c])
  <1>1. /\ balance' = [x \in Cells |->
              balance[x] + (IF x \in Adjusts(k) THEN Difference(item[k][x]) ELSE 0)]
        /\ Fits(balance') /\ registered' = registered \cup Adjusts(k)
        /\ c \in Adjusts(k) => Sufficient(balance, reserved, Adjustment(k, c), 0)
        /\ \A x \in ItemsOf(k) : FinalQuantity(item[k][x]) # NotCounted
    BY DEF approve, ApplyAdjustments
  <1>2. balance[c] \in 0..Capacity /\ reserved[c] \in Nat /\ reserved[c] <= balance[c]
    BY DEF TypeOK, Balances, Amounts, CountsInvariant, StockSound
  <1>3. balance'[c] <= Capacity
    BY <1>1 DEF Fits
  <1>4. CASE c \notin Adjusts(k)
    <2>1. balance'[c] = balance[c]
      BY <1>1, <1>2, <1>4
    <2>2. QED
      BY <1>2, <1>4, <2>1
  <1>5. CASE c \in Adjusts(k)
    <2>1. c \in ItemsOf(k) /\ d # 0 /\ balance'[c] = balance[c] + d
      BY <1>1, <1>5 DEF Adjusts
    <2>2. d \in Int
      BY <1>1, <2>1, ItemIsRow, RowFacts
    <2>3. c \in CellsOf(warehouse[k])
      BY <2>1 DEF CountsInvariant, CountSound, RowsInPlace
    <2>4. d < 0 => balance[c] + d >= 0 /\ balance[c] + d >= reserved[c]
      <3> SUFFICES ASSUME d < 0 PROVE balance[c] + d >= 0 /\ balance[c] + d >= reserved[c]
        OBVIOUS
      <3>1. /\ c = <<c[1], c[2]>> /\ c[2] # NoLocation
            /\ Adjustment(k, c) = Command("ADJUSTMENT_OUT", c[1], -d, c[2], NoLocation)
        BY <2>2 DEF Adjustment, Cells
      <3>2. balance[c] - (-d) >= 0 /\ balance[c] - (-d) >= reserved[c] - 0
        BY <1>1, <1>5, <3>1 DEF Sufficient, Command
      <3>3. QED
        BY <1>2, <2>2, <3>2
    <2>5. c \in registered'
      BY <1>1, <1>5
    <2> HIDE DEF d
    <2>6. /\ balance'[c] > balance[c] \/ balance'[c] >= reserved[c]
          /\ balance'[c] \in 0..Capacity /\ reserved[c] <= balance'[c]
      BY <1>2, <1>3, <2>1, <2>2, <2>4
    <2>7. QED
      BY <1>2, <1>5, <2>1, <2>2, <2>3, <2>5, <2>6 DEF d
  <1>6. QED
    BY <1>4, <1>5

LEMMA ApproveKeeps ==
    ASSUME TypeOK, CountsInvariant, NEW k \in Counts, approve(k), waits' = waits
    PROVE  TypeOK' /\ CountsInvariant'
  <1> DEFINE moves == [c \in Cells |-> adjusted[k][c] +
                         (IF c \in Adjusts(k) THEN Difference(item[k][c]) ELSE 0)]
  <1>1. /\ status[k] = "READY_FOR_APPROVAL" /\ status' = [status EXCEPT ![k] = "APPROVED"]
        /\ registered' = registered \cup Adjusts(k)
        /\ adjusted' = [adjusted EXCEPT ![k] = moves]
        /\ \A x \in ItemsOf(k) : FinalQuantity(item[k][x]) # NotCounted
        /\ UNCHANGED <<warehouse, item, request, reserved, inactive>>
    BY DEF approve, ApplyAdjustments
  <1>2. balance' \in Balances
    <2>1. balance' = [c \in Cells |-> balance'[c]]
      BY DEF approve, ApplyAdjustments
    <2>2. QED
      BY <2>1, ApprovalMoves DEF Balances
  <1>3. moves \in [Cells -> Int]
    <2>1. \A c \in Cells : adjusted[k][c] \in Int
      BY DEF TypeOK
    <2>2. QED
      BY <2>1, ApprovalMoves
  <1> HIDE DEF moves
  <1>4. /\ adjusted' \in [Counts -> [Cells -> Int]] /\ adjusted'[k] = moves
        /\ \A j \in Counts \ {k} : adjusted'[j] = adjusted[j]
    BY <1>1, <1>3 DEF TypeOK
  <1>5. /\ status' \in [Counts -> Open \cup Decided \cup {"NONE"}] /\ status'[k] = "APPROVED"
        /\ \A j \in Counts \ {k} : status'[j] = status[j]
    BY <1>1 DEF TypeOK, Decided
  <1>6. TypeOK'
    <2>1. registered' \in SUBSET Cells
      BY <1>1 DEF TypeOK, Adjusts, ItemsOf
    <2>2. QED
      BY <1>1, <1>2, <1>4, <1>5, <2>1 DEF TypeOK
  <1>7. ItemsOf(k)' = ItemsOf(k)
    BY <1>1 DEF ItemsOf
  <1>8. CountSound(k)'
    <2>1. RowsInPlace(k)'
      BY <1>1, <1>5, <1>7 DEF CountsInvariant, CountSound, RowsInPlace
    <2>2. ASSUME waits, NEW c \in Cells
          PROVE  adjusted'[k][c] = IF c \in ItemsOf(k) THEN Difference(item[k][c]) ELSE 0
      <3>1. adjusted[k][c] = 0
        BY <1>1, <2>2, NothingMoved
      <3>2. moves[c] = 0 + (IF c \in Adjusts(k) THEN Difference(item[k][c]) ELSE 0)
        BY <3>1 DEF moves
      <3>3. CASE c \in Adjusts(k)
        BY <1>4, <3>2, <3>3, ApprovalMoves
      <3>4. CASE c \notin Adjusts(k)
        <4>1. c \in ItemsOf(k) => Difference(item[k][c]) = 0
          BY <3>4 DEF Adjusts
        <4>2. QED
          BY <1>4, <3>2, <3>4, <4>1
      <3>5. QED
        BY <3>3, <3>4
    <2>3. waits => FiguresAreTrue(k)'
      BY <1>1, <1>5, <1>7, <2>2 DEF FiguresAreTrue, Locking
    <2>4. QED
      BY <2>1, <2>3 DEF CountSound
  <1>9. ASSUME NEW t \in Clients
        PROVE  RequestSound(t)' \/ (request[t] # NoRequest => request[t].count # k)
    <2>1. PICK r : r = request[t]
      OBVIOUS
    <2>2. CASE waits
      BY <2>2 DEF approve, Undisturbed
    <2>3. CASE ~waits
      <3>1. ItemsOf(r.count)' = ItemsOf(r.count)
        BY <1>1 DEF ItemsOf
      <3>2. QED
        BY <1>1, <2>1, <2>3, <3>1, RequestFrame DEF CountsInvariant
    <2>4. QED
      BY <2>2, <2>3
  <1>10. OneOpenCount'
    BY <1>1, <1>5, OpenFrame DEF CountsInvariant, Open, Locking
  <1>11. StockSound'
    <2>1. ASSUME NEW c \in Cells
          PROVE  reserved'[c] <= balance'[c] /\ (balance'[c] # 0 => c \in registered')
      BY <1>1, ApprovalMoves DEF CountsInvariant, StockSound
    <2>2. QED
      BY <2>1 DEF StockSound
  <1>12. ASSUME NEW j \in Counts \ {k}, status[j] \in Locking, NEW c \in CellsOf(warehouse[j])
         PROVE  balance'[c] = balance[c]
    <2>1. warehouse[j] # warehouse[k]
      BY <1>1, <1>12 DEF CountsInvariant, OneOpenCount, Open, Locking
    <2>2. c \in Cells /\ c \notin CellsOf(warehouse[k])
      BY <2>1 DEF CellsOf
    <2>3. QED
      BY <2>2, ApprovalMoves
  <1>13. QED
    BY <1>1, <1>4, <1>5, <1>6, <1>8, <1>9, <1>10, <1>11, <1>12, OneCountMoves

-----------------------------------------------------------------------------
(* The clerks' operations keep the invariant.                              *)

(* Steps that only open, mark or close a request.                          *)
LEMMA RequestMoves ==
    ASSUME TypeOK, CountsInvariant, NEW t \in Clients, NEW r \in RequestRecords \cup {NoRequest},
           request' = [request EXCEPT ![t] = r],
           r # NoRequest => r.cell \in ItemsOf(r.count) /\ (waits => TimelyRequest(r)),
           UNCHANGED <<countVars, stockVars, reserved, inactive, waits>>
    PROVE  TypeOK' /\ CountsInvariant'
  <1>1. TypeOK'
    BY DEF TypeOK, countVars, stockVars
  <1>2. \A k \in Counts : CountSound(k)'
    BY CountFrame DEF CountsInvariant, countVars, stockVars
  <1>3. \A x : ItemsOf(x)' = ItemsOf(x)
    BY DEF ItemsOf, countVars
  <1>4. RequestSound(t)'
    <2>1. request'[t] = r
      BY DEF TypeOK
    <2>2. TimelyRequest(r) => TimelyRequest(r)'
      BY DEF TimelyRequest, NothingPending, ItemsOf, countVars
    <2>3. QED
      BY <1>3, <2>1, <2>2 DEF RequestSound
  <1>5. ASSUME NEW u \in Clients \ {t} PROVE RequestSound(u)'
    <2>1. PICK y : y = request[u]
      OBVIOUS
    <2>2. request'[u] = request[u]
      BY DEF TypeOK
    <2>3. QED
      BY <1>3, <2>1, <2>2, RequestFrame DEF CountsInvariant, countVars
  <1>6. OneOpenCount' /\ StockSound'
    BY DEF CountsInvariant, OneOpenCount, StockSound, countVars, stockVars
  <1>7. QED
    BY <1>1, <1>2, <1>4, <1>5, <1>6 DEF CountsInvariant

(* A clerk's write of one figure of one item.                              *)
LEMMA WriteOfItem ==
    ASSUME TypeOK, CountsInvariant, NEW r \in RequestRecords, NEW row,
           r.cell \in ItemsOf(r.count),
           row = [item[r.count][r.cell] EXCEPT !.first = r.quantity]
             \/ row = [item[r.count][r.cell] EXCEPT !.recount = r.quantity],
           item' = [item EXCEPT ![r.count] = [item[r.count] EXCEPT ![r.cell] = row]]
    PROVE  /\ item' \in [Counts -> [Cells -> ItemRows \cup {NoItem}]]
           /\ \A j \in Counts \ {r.count} : item'[j] = item[j]
           /\ item'[r.count][r.cell] = row
           /\ \A c \in Cells \ {r.cell} : item'[r.count][c] = item[r.count][c]
           /\ \A j \in Counts : ItemsOf(j)' = ItemsOf(j)
           /\ row.system = item[r.count][r.cell].system
  <1>1. r.count \in Counts /\ r.cell \in Cells /\ r.quantity \in Quantity
    BY DEF RequestRecords
  <1>2. item[r.count][r.cell] \in ItemRows
    BY <1>1, ItemIsRow
  <1>3. row \in ItemRows /\ row.system = item[r.count][r.cell].system
    BY <1>1, <1>2 DEF ItemRows
  <1>4. /\ item' \in [Counts -> [Cells -> ItemRows \cup {NoItem}]]
        /\ \A j \in Counts \ {r.count} : item'[j] = item[j]
        /\ item'[r.count][r.cell] = row
        /\ \A c \in Cells \ {r.cell} : item'[r.count][c] = item[r.count][c]
    BY <1>1, <1>3 DEF TypeOK
  <1>5. ASSUME NEW j \in Counts PROVE ItemsOf(j)' = ItemsOf(j)
    <2>1. CASE j # r.count
      BY <1>4, <2>1 DEF ItemsOf
    <2>2. CASE j = r.count
      <3>1. row # NoItem /\ item[r.count][r.cell] # NoItem
        BY <1>2, <1>3, RowFacts
      <3>2. \A c \in Cells : item'[r.count][c] # NoItem <=> item[r.count][c] # NoItem
        BY <1>4, <3>1
      <3>3. QED
        BY <2>2, <3>2 DEF ItemsOf
    <2>3. QED
      BY <2>1, <2>2
  <1>6. QED
    BY <1>3, <1>4, <1>5

LEMMA CommitCountKeeps ==
    ASSUME TypeOK, CountsInvariant, NEW t \in Clients, CommitCount(t), waits' = waits
    PROVE  TypeOK' /\ CountsInvariant'
  <1>1. PICK r \in RequestRecords : r = request[t]
    BY DEF CommitCount, TypeOK
  <1> DEFINE k == r.count
             row == [item[k][r.cell] EXCEPT !.first = r.quantity]
  <1>2. /\ r # NoRequest /\ r.op = "count" /\ k \in Counts /\ r.cell \in Cells
        /\ request' = [request EXCEPT ![t] = NoRequest]
        /\ UNCHANGED <<status, warehouse, balance, registered, adjusted, reserved, inactive>>
    BY <1>1, NoRequestAssumption DEF CommitCount, stockVars, RequestRecords
  <1>3. r.cell \in ItemsOf(k) /\ (waits => status[k] = "IN_PROGRESS")
    BY <1>1, <1>2 DEF CountsInvariant, RequestSound, TimelyRequest
  <1>4. item' = [item EXCEPT ![k] = [item[k] EXCEPT ![r.cell] = row]]
    BY <1>1, <1>2 DEF CommitCount, TypeOK
  <1> HIDE DEF row
  <1>5. /\ item' \in [Counts -> [Cells -> ItemRows \cup {NoItem}]]
        /\ \A j \in Counts \ {k} : item'[j] = item[j]
        /\ \A c \in Cells \ {r.cell} : item'[k][c] = item[k][c]
        /\ \A j \in Counts : ItemsOf(j)' = ItemsOf(j)
        /\ item'[k][r.cell].system = item[k][r.cell].system
    BY <1>3, <1>4, WriteOfItem DEF row
  <1>6. TypeOK'
    BY <1>2, <1>5 DEF TypeOK
  <1>7. CountSound(k)'
    <2>1. RowsInPlace(k)'
      BY <1>2, <1>5 DEF CountsInvariant, CountSound, RowsInPlace
    <2>2. ASSUME waits PROVE FiguresAreTrue(k)'
      <3>1. status[k] = "IN_PROGRESS" /\ FiguresAreTrue(k)
        BY <1>2, <1>3, <2>2 DEF CountsInvariant, CountSound
      <3>2. \A c \in ItemsOf(k) : item'[k][c].system = item[k][c].system
        BY <1>5 DEF ItemsOf
      <3>3. \A c \in ItemsOf(k)' : item'[k][c].system = balance'[c]
        BY <1>2, <1>5, <3>1, <3>2 DEF FiguresAreTrue, Locking
      <3>4. \A c \in Cells : adjusted'[k][c] = 0
        BY <1>2, <3>1 DEF FiguresAreTrue
      <3>5. QED
        BY <1>2, <3>1, <3>3, <3>4 DEF FiguresAreTrue
    <2>3. QED
      BY <2>1, <2>2 DEF CountSound
  <1>8. ASSUME NEW u \in Clients PROVE RequestSound(u)'
    <2>1. CASE u = t
      BY <1>2, <2>1 DEF RequestSound, TypeOK
    <2>2. CASE u # t
      <3>1. PICK y : y = request[u]
        OBVIOUS
      <3>2. request'[u] = request[u] /\ (y # NoRequest => y.count \in Counts)
        BY <1>2, <2>2, <3>1 DEF TypeOK, RequestRecords
      <3>3. (y # NoRequest /\ waits /\ y.op # "count") => y.count # k
        BY <1>3, <3>1 DEF CountsInvariant, RequestSound, TimelyRequest
      <3>4. QED
        BY <1>2, <1>5, <3>1, <3>2, <3>3, RequestFrame DEF CountsInvariant
    <2>3. QED
      BY <2>1, <2>2
  <1>9. OneOpenCount' /\ StockSound'
    BY <1>2 DEF CountsInvariant, OneOpenCount, StockSound
  <1>10. QED
    BY <1>2, <1>5, <1>6, <1>7, <1>8, <1>9, OneCountMoves

LEMMA CommitRecountKeeps ==
    ASSUME TypeOK, CountsInvariant, NEW t \in Clients, CommitRecount(t), waits' = waits
    PROVE  TypeOK' /\ CountsInvariant'
  <1>1. PICK r \in RequestRecords : r = request[t]
    BY DEF CommitRecount, TypeOK
  <1> DEFINE k == r.count
             row == [item[k][r.cell] EXCEPT !.recount = r.quantity]
  <1>2. /\ r # NoRequest /\ r.op = "recount" /\ k \in Counts /\ r.cell \in Cells
        /\ r.quantity \in Quantity /\ r.completes \in BOOLEAN
        /\ r.completes => OnlyOpenCount(k, warehouse[k])
        /\ request' = [request EXCEPT ![t] = NoRequest]
        /\ status' = IF r.completes
                       THEN [status EXCEPT ![k] = "READY_FOR_APPROVAL"] ELSE status
        /\ UNCHANGED <<warehouse, balance, registered, adjusted, reserved, inactive>>
    BY <1>1, NoRequestAssumption DEF CommitRecount, stockVars, RequestRecords
  <1>3. /\ r.cell \in ItemsOf(k)
        /\ waits => /\ status[k] \in {"RECOUNT_REQUIRED", "READY_FOR_APPROVAL"}
                    /\ r.completes => NothingPending(k, r.cell)
    BY <1>1, <1>2 DEF CountsInvariant, RequestSound, TimelyRequest
  <1>4. item' = [item EXCEPT ![k] = [item[k] EXCEPT ![r.cell] = row]]
    BY <1>1, <1>2 DEF CommitRecount, TypeOK
  <1>5. row.first = item[k][r.cell].first /\ row.recount = r.quantity
    BY <1>2, <1>3, ItemIsRow DEF ItemRows
  <1> HIDE DEF row
  <1>6. /\ item' \in [Counts -> [Cells -> ItemRows \cup {NoItem}]]
        /\ \A j \in Counts \ {k} : item'[j] = item[j]
        /\ item'[k][r.cell] = row
        /\ \A c \in Cells \ {r.cell} : item'[k][c] = item[k][c]
        /\ \A j \in Counts : ItemsOf(j)' = ItemsOf(j)
        /\ row.system = item[k][r.cell].system
    BY <1>3, <1>4, WriteOfItem DEF row
  <1>7. /\ status' \in [Counts -> Open \cup Decided \cup {"NONE"}]
        /\ status'[k] = IF r.completes THEN "READY_FOR_APPROVAL" ELSE status[k]
        /\ \A j \in Counts \ {k} : status'[j] = status[j]
    BY <1>2 DEF TypeOK, Open, Locking
  <1>8. TypeOK'
    BY <1>2, <1>6, <1>7 DEF TypeOK
  <1>9. \A c \in ItemsOf(k) : /\ c \in Cells /\ item'[k][c].first = item[k][c].first
                              /\ item'[k][c].system = item[k][c].system
                              /\ c # r.cell => item'[k][c] = item[k][c]
    BY <1>5, <1>6 DEF ItemsOf
  <1>10. r.quantity # NotCounted
    BY <1>2 DEF Quantity
  <1>11. CountSound(k)'
    <2>1. RowsInPlace(k)'
      BY <1>2, <1>6, <1>7 DEF CountsInvariant, CountSound, RowsInPlace
    <2>2. ASSUME waits PROVE FiguresAreTrue(k)'
      <3>1. /\ status[k] \in {"RECOUNT_REQUIRED", "READY_FOR_APPROVAL"} /\ FiguresAreTrue(k)
            /\ status'[k] \in {"RECOUNT_REQUIRED", "READY_FOR_APPROVAL"}
        BY <1>2, <1>3, <1>7, <2>2 DEF CountsInvariant, CountSound
      <3>2. \A c \in ItemsOf(k) : item'[k][c].first # NotCounted
                                  /\ item'[k][c].system = balance'[c]
        BY <1>2, <1>9, <3>1 DEF FiguresAreTrue, Locking
      <3>3. ASSUME status'[k] = "READY_FOR_APPROVAL", NEW c \in ItemsOf(k)
            PROVE  FinalQuantity(item'[k][c]) # NotCounted
        <4>1. CASE c = r.cell
          BY <1>5, <1>6, <1>10, <3>2, <4>1 DEF FinalQuantity
        <4>2. CASE c # r.cell /\ r.completes
          <5>1. Divergent(item[k][c]) => item[k][c].recount # NotCounted
            BY <1>3, <2>2, <4>2 DEF NothingPending
          <5>2. item'[k][c] = item[k][c] /\ item[k][c].first # NotCounted
            BY <1>9, <3>2, <4>2
          <5>3. QED
            BY <5>1, <5>2 DEF Divergent, FinalQuantity
        <4>3. CASE c # r.cell /\ ~r.completes
          BY <1>2, <1>7, <1>9, <3>1, <3>3, <4>3 DEF FiguresAreTrue
        <4>4. QED
          BY <4>1, <4>2, <4>3
      <3>4. \A c \in Cells : adjusted'[k][c] = 0
        BY <1>2, <3>1 DEF FiguresAreTrue
      <3>5. \A c \in ItemsOf(k)' :
                /\ item'[k][c].first # NotCounted /\ item'[k][c].system = balance'[c]
                /\ status'[k] = "READY_FOR_APPROVAL" => FinalQuantity(item'[k][c]) # NotCounted
        BY <1>2, <1>6, <3>2, <3>3
      <3>6. QED
        BY <3>1, <3>4, <3>5 DEF FiguresAreTrue
    <2>3. QED
      BY <2>1, <2>2 DEF CountSound
  <1>12. ASSUME NEW u \in Clients
         PROVE  \/ RequestSound(u)'
                \/ /\ request'[u] = request[u]
                   /\ request[u] # NoRequest => request[u].count # k
    <2>1. CASE u = t
      BY <1>2, <2>1 DEF RequestSound, TypeOK
    <2>2. CASE u # t /\ request[u] # NoRequest /\ request[u].count = k
      <3>1. PICK y \in RequestRecords : y = request[u]
        BY <2>2 DEF TypeOK
      <3>2. request'[u] = y /\ y.count = k /\ y.op \in {"count", "recount"} /\ y # NoRequest
        BY <1>2, <2>2, <3>1 DEF TypeOK, RequestRecords
      <3>3. y.cell \in ItemsOf(k) /\ (waits => TimelyRequest(y))
        BY <3>1, <3>2 DEF CountsInvariant, RequestSound
      <3>4. ASSUME waits PROVE TimelyRequest(y)'
        <4>1. /\ y.op = "recount" /\ (y.completes => NothingPending(k, y.cell))
              /\ status'[k] \in {"RECOUNT_REQUIRED", "READY_FOR_APPROVAL"}
          BY <1>3, <1>7, <3>2, <3>3, <3>4 DEF TimelyRequest
        <4>2. NothingPending(k, y.cell) => NothingPending(k, y.cell)'
          <5> SUFFICES ASSUME NothingPending(k, y.cell), NEW d \in ItemsOf(k) \ {y.cell},
                              Divergent(item'[k][d])
                       PROVE  item'[k][d].recount # NotCounted
            BY <1>2, <1>6 DEF NothingPending, Divergent
          <5>1. CASE d = r.cell
            BY <1>5, <1>6, <1>10, <5>1
          <5>2. CASE d # r.cell
            BY <1>9, <5>2 DEF NothingPending, Divergent
          <5>3. QED
            BY <5>1, <5>2
        <4>3. QED
          BY <3>2, <4>1, <4>2 DEF TimelyRequest
      <3>5. y.cell \in ItemsOf(y.count)'
        BY <1>2, <1>6, <3>2, <3>3
      <3>6. QED
        BY <3>2, <3>4, <3>5 DEF RequestSound
    <2>3. CASE u # t /\ (request[u] # NoRequest => request[u].count # k)
      BY <1>2, <2>3 DEF TypeOK
    <2>4. QED
      BY <2>1, <2>2, <2>3
  <1>13. OneOpenCount'
    BY <1>2, <1>7, OpenFrame DEF CountsInvariant
  <1>14. StockSound'
    BY <1>2 DEF CountsInvariant, StockSound
  <1>15. QED
    BY <1>2, <1>6, <1>7, <1>8, <1>11, <1>12, <1>13, <1>14, OneCountMoves

LEMMA ClerkKeeps ==
    ASSUME TypeOK, CountsInvariant, NEW t \in Clients, ClerkStep(t), waits' = waits
    PROVE  TypeOK' /\ CountsInvariant'
  <1>1. ASSUME NEW k \in Counts, NEW c \in Cells, NEW q \in Quantity, BeginCount(t, k, c, q)
        PROVE  TypeOK' /\ CountsInvariant'
    <2> DEFINE r == [op |-> "count", count |-> k, cell |-> c, quantity |-> q,
                     written |-> FALSE, completes |-> FALSE]
    <2>1. r \in RequestRecords /\ r.cell = c /\ r.count = k /\ r.op = "count"
      BY DEF RequestRecords
    <2>2. /\ request' = [request EXCEPT ![t] = r] /\ c \in ItemsOf(k) /\ status[k] = "IN_PROGRESS"
          /\ UNCHANGED <<countVars, stockVars, reserved, inactive>>
      BY <1>1 DEF BeginCount
    <2> HIDE DEF r
    <2>3. TimelyRequest(r)
      BY <2>1, <2>2 DEF TimelyRequest
    <2>4. QED
      BY <2>1, <2>2, <2>3, RequestMoves
  <1>2. ASSUME NEW k \in Counts, NEW c \in Cells, NEW q \in Quantity, BeginRecount(t, k, c, q)
        PROVE  TypeOK' /\ CountsInvariant'
    <2> DEFINE r == [op |-> "recount", count |-> k, cell |-> c, quantity |-> q,
                     written |-> FALSE, completes |-> FALSE]
    <2>1. r \in RequestRecords /\ r.cell = c /\ r.count = k /\ r.op = "recount" /\ ~r.completes
      BY DEF RequestRecords
    <2>2. /\ request' = [request EXCEPT ![t] = r] /\ c \in ItemsOf(k)
          /\ status[k] = "RECOUNT_REQUIRED"
          /\ UNCHANGED <<countVars, stockVars, reserved, inactive>>
      BY <1>2 DEF BeginRecount
    <2> HIDE DEF r
    <2>3. TimelyRequest(r)
      BY <2>1, <2>2 DEF TimelyRequest
    <2>4. QED
      BY <2>1, <2>2, <2>3, RequestMoves
  <1>3. CASE WriteRecount(t)
    <2>1. PICK y \in RequestRecords : y = request[t]
      BY <1>3 DEF WriteRecount, TypeOK
    <2> DEFINE r == [y EXCEPT !.written = TRUE, !.completes = NothingPending(y.count, y.cell)]
    <2>2. NothingPending(y.count, y.cell) \in BOOLEAN
      BY DEF NothingPending
    <2>3. /\ r \in RequestRecords /\ r.cell = y.cell /\ r.count = y.count /\ r.op = y.op
          /\ r.completes = NothingPending(y.count, y.cell)
      BY <2>2 DEF RequestRecords
    <2>4. /\ request' = [request EXCEPT ![t] = r] /\ y # NoRequest /\ y.op = "recount"
          /\ UNCHANGED <<countVars, stockVars, reserved, inactive>>
      BY <1>3, <2>1 DEF WriteRecount, TypeOK
    <2> HIDE DEF r
    <2>5. y.cell \in ItemsOf(y.count) /\ (waits => TimelyRequest(y))
      BY <2>1, <2>4 DEF CountsInvariant, RequestSound
    <2>6. TimelyRequest(y) => TimelyRequest(r)
      BY <2>3, <2>4 DEF TimelyRequest
    <2>7. QED
      BY <2>3, <2>4, <2>5, <2>6, RequestMoves
  <1>4. CASE Rollback(t)
    BY <1>4, RequestMoves DEF Rollback
  <1>5. QED
    BY <1>1, <1>2, <1>3, <1>4, CommitCountKeeps, CommitRecountKeeps DEF ClerkStep

-----------------------------------------------------------------------------
(* Other services keep the invariant.                                      *)

LEMMA MovementKeeps ==
    ASSUME TypeOK, CountsInvariant, NEW cmd \in Commands, Movement(cmd), waits' = waits
    PROVE  TypeOK' /\ CountsInvariant'
  <1> DEFINE entered == {<<cmd.productId, l>> : l \in {cmd.destination} \ {NoLocation}}
  <1>1. /\ Unlocked(underInventory, cmd) /\ Sufficient(balance, reserved, cmd, 0)
        /\ Fits(Moved(balance, cmd)) /\ balance' = Moved(balance, cmd)
        /\ registered' = registered \cup entered
        /\ UNCHANGED <<countVars, adjusted, request, reserved, inactive>>
    BY DEF Movement
  <1>2. balance \in Balances /\ reserved \in Amounts /\ 0 \in Nat /\ registered \in SUBSET Cells
    BY DEF TypeOK
  <1>3. balance' \in Balances
    BY <1>1, <1>2, MovedType
  <1>4. entered \in SUBSET Cells
    BY CommandShape DEF Cells
  <1>5. ASSUME NEW c \in Cells
        PROVE  /\ reserved'[c] <= balance'[c]
               /\ balance'[c] # balance[c] =>
                     (balance'[c] = 0 \/ c \in registered')
                     /\ WarehouseOf[c[2]] \notin underInventory
    <2>1. reserved[c] <= balance[c] /\ (balance[c] # 0 => c \in registered)
      BY DEF CountsInvariant, StockSound
    <2>2. reserved'[c] <= balance'[c]
      BY <1>1, <1>2, <2>1, MovedRespectsReservations
    <2>3. balance'[c] # balance[c] => WarehouseOf[c[2]] \notin underInventory
      BY <1>1, <1>2, MovementIsLocal DEF Unlocked
    <2>4. CASE c = <<cmd.productId, cmd.destination>>
      <3>1. c \in entered
        BY <2>4 DEF Cells
      <3>2. QED
        BY <1>1, <2>2, <2>3, <3>1
    <2>5. CASE c # <<cmd.productId, cmd.destination>>
      <3>1. balance[c] \in Nat /\ balance'[c] \in Nat /\ Out(cmd, c) \in Nat
        BY <1>2, <1>3, FlowType DEF Balances
      <3>2. balance'[c] = balance[c] - Out(cmd, c)
        BY <1>1, <2>5, <3>1 DEF Moved, In
      <3>3. balance'[c] # balance[c] => c \in registered'
        BY <1>1, <2>1, <3>1, <3>2
      <3>4. QED
        BY <2>2, <2>3, <3>3
    <2>6. QED
      BY <2>4, <2>5
  <1> HIDE DEF entered
  <1>6. /\ registered' \in SUBSET Cells /\ registered \subseteq registered'
        /\ reserved' \in Amounts
    BY <1>1, <1>2, <1>4
  <1>7. UNCHANGED <<countVars, adjusted, request, inactive, waits>>
    BY <1>1
  <1>8. QED
    BY <1>3, <1>5, <1>6, <1>7, StockMoves

LEMMA ReservationKeeps ==
    ASSUME TypeOK, CountsInvariant, NEW c \in Cells, NEW q \in Quantities,
           ReserveStock(c, q) \/ ReleaseStock(c, q), waits' = waits
    PROVE  TypeOK' /\ CountsInvariant'
  <1>1. /\ UNCHANGED <<countVars, balance, registered, adjusted, request, inactive>>
        /\ \/ reserved' = [reserved EXCEPT ![c] = @ + q] /\ reserved[c] + q <= balance[c]
           \/ reserved' = [reserved EXCEPT ![c] = @ - q] /\ q <= reserved[c]
    BY DEF ReserveStock, ReleaseStock, stockVars
  <1>2. \A d \in Cells : balance[d] \in Nat /\ reserved[d] \in Nat /\ reserved[d] <= balance[d]
    BY DEF TypeOK, Balances, Amounts, CountsInvariant, StockSound
  <1>3. q \in Nat
    BY DEF Quantities
  <1>4. \A d \in Cells : reserved'[d] \in Nat /\ reserved'[d] <= balance'[d]
    <2>1. balance' = balance /\ reserved \in [Cells -> Nat]
      BY <1>1 DEF TypeOK, Amounts
    <2>2. TAKE d \in Cells
    <2>3. CASE d = c
      <3>1. \/ reserved'[d] = reserved[d] + q /\ reserved[d] + q <= balance[d]
            \/ reserved'[d] = reserved[d] - q /\ q <= reserved[d]
        BY <1>1, <2>1, <2>3
      <3>2. QED
        BY <1>2, <1>3, <2>1, <3>1
    <2>4. CASE d # c
      BY <1>1, <1>2, <2>1, <2>4
    <2>5. QED
      BY <2>3, <2>4
  <1>5. reserved' \in Amounts
    <2>1. reserved' = [d \in Cells |-> reserved'[d]]
      BY <1>1 DEF TypeOK, Amounts
    <2>2. QED
      BY <1>4, <2>1 DEF Amounts
  <1>6. balance' \in Balances /\ registered' \in SUBSET Cells
    BY <1>1 DEF TypeOK
  <1>7. QED
    BY <1>1, <1>4, <1>5, <1>6, StockMoves

LEMMA ShipmentKeeps ==
    ASSUME TypeOK, CountsInvariant, NEW c \in Cells, NEW q \in Quantities,
           applySalesOrderShipmentExit(c, q), waits' = waits
    PROVE  TypeOK' /\ CountsInvariant'
  <1>1. PICK cmd : cmd = Command("EXIT", c[1], q, c[2], NoLocation)
    OBVIOUS
  <1>2. /\ q <= reserved[c] /\ Unlocked(underInventory, cmd)
        /\ Sufficient(balance, reserved, cmd, q)
        /\ balance' = Moved(balance, cmd) /\ reserved' = [reserved EXCEPT ![c] = @ - q]
        /\ UNCHANGED <<countVars, registered, adjusted, request, inactive>>
    BY <1>1 DEF applySalesOrderShipmentExit
  <1>3. balance \in Balances /\ reserved \in Amounts /\ registered \in SUBSET Cells
    BY DEF TypeOK
  <1>4. /\ balance' \in Balances /\ WarehousesOf(cmd) = {WarehouseOf[c[2]]}
        /\ \A d \in Cells : balance'[d] = IF d = c THEN balance[d] - q ELSE balance[d]
    BY <1>1, <1>2, <1>3, ShipmentTakes
  <1>5. \A d \in Cells : /\ balance[d] \in Nat /\ reserved[d] \in Nat /\ q \in Nat
                         /\ reserved[d] <= balance[d] /\ (balance[d] # 0 => d \in registered)
    BY <1>3 DEF Balances, Amounts, Quantities, CountsInvariant, StockSound
  <1>6. reserved' \in Amounts
        /\ \A d \in Cells : reserved'[d] = IF d = c THEN reserved[d] - q ELSE reserved[d]
    BY <1>2, <1>3, <1>5 DEF Amounts
  <1>7. ASSUME NEW d \in Cells
        PROVE  /\ reserved'[d] <= balance'[d]
               /\ balance'[d] # balance[d] =>
                     (balance'[d] = 0 \/ d \in registered')
                     /\ WarehouseOf[d[2]] \notin underInventory
    <2>1. reserved'[d] <= balance'[d]
      BY <1>4, <1>5, <1>6
    <2>2. balance'[d] # balance[d] => d = c /\ balance[d] # 0
      BY <1>2, <1>4, <1>5 DEF Quantities
    <2>3. WarehouseOf[c[2]] \notin underInventory
      BY <1>2, <1>4 DEF Unlocked
    <2>4. QED
      BY <1>2, <1>5, <2>1, <2>2, <2>3
  <1>8. QED
    BY <1>2, <1>3, <1>4, <1>6, <1>7, StockMoves

LEMMA SwitchKeeps ==
    ASSUME TypeOK, CountsInvariant, NEW x \in Switchable, UpdateStatus(x), waits' = waits
    PROVE  TypeOK' /\ CountsInvariant'
  <1>1. inactive' \in SUBSET Switchable /\ UNCHANGED <<countVars, stockVars, request, reserved>>
    BY DEF UpdateStatus, TypeOK
  <1>2. TypeOK'
    BY <1>1 DEF TypeOK, countVars, stockVars
  <1>3. \A k \in Counts : CountSound(k)'
    BY <1>1, CountFrame DEF CountsInvariant, countVars, stockVars
  <1>4. ASSUME NEW t \in Clients PROVE RequestSound(t)'
    <2>1. PICK r : r = request[t]
      OBVIOUS
    <2>2. ItemsOf(r.count)' = ItemsOf(r.count)
      BY <1>1 DEF ItemsOf, countVars
    <2>3. QED
      BY <1>1, <2>1, <2>2, RequestFrame DEF CountsInvariant, countVars
  <1>5. OneOpenCount' /\ StockSound'
    BY <1>1 DEF CountsInvariant, OneOpenCount, StockSound, countVars, stockVars
  <1>6. QED
    BY <1>2, <1>3, <1>4, <1>5 DEF CountsInvariant

LEMMA StepKeeps ==
    ASSUME TypeOK, CountsInvariant, [Next]_vars
    PROVE  TypeOK' /\ CountsInvariant'
  <1>1. CASE UNCHANGED vars
    <2>1. /\ UNCHANGED <<countVars, stockVars, adjusted, request, reserved, inactive, waits>>
          /\ UNCHANGED <<balance, registered>>
      BY <1>1 DEF vars, stockVars
    <2>2. \A c \in Cells : reserved[c] <= balance[c]
      BY DEF CountsInvariant, StockSound
    <2>3. QED
      BY <2>1, <2>2, StockMoves DEF TypeOK
  <1>2. ASSUME NEW k \in Counts, CountStep(k), waits' = waits
        PROVE  TypeOK' /\ CountsInvariant'
    BY <1>2, CreateKeeps, StartKeeps, AddItemKeeps, RequestRecountKeeps, ApproveKeeps, CancelKeeps
       DEF CountStep
  <1>3. ASSUME OtherServices, waits' = waits
        PROVE  TypeOK' /\ CountsInvariant'
    BY <1>3, MovementKeeps, ReservationKeeps, ShipmentKeeps, SwitchKeeps DEF OtherServices
  <1>4. QED
    BY <1>1, <1>2, <1>3, ClerkKeeps DEF Next

LEMMA InitKeeps == Init => TypeOK /\ CountsInvariant
  <1> SUFFICES ASSUME Init PROVE TypeOK /\ CountsInvariant
    OBVIOUS
  <1>1. TypeOK
    <2>1. (CHOOSE w \in Warehouses : TRUE) \in Warehouses
      BY CountsWarehousesAssumption
    <2>2. warehouse \in [Counts -> Warehouses]
      BY <2>1 DEF Init
    <2>3. balance \in Balances /\ reserved \in Amounts /\ adjusted \in [Counts -> [Cells -> Int]]
      BY DEF Init, NoAmount, Balances, Amounts
    <2>4. QED
      BY <2>2, <2>3 DEF Init, TypeOK
  <1>2. \A k \in Counts : ItemsOf(k) = {} /\ status[k] = "NONE"
                          /\ \A c \in Cells : adjusted[k][c] = 0
    BY DEF Init, ItemsOf, NoAmount
  <1>3. \A k \in Counts : CountSound(k)
    BY <1>2 DEF CountSound, RowsInPlace, FiguresAreTrue
  <1>4. OneOpenCount
    BY <1>2 DEF OneOpenCount, Open, Locking
  <1>5. (\A t \in Clients : RequestSound(t)) /\ StockSound
    BY DEF Init, RequestSound, StockSound, NoAmount
  <1>6. QED
    BY <1>1, <1>3, <1>4, <1>5 DEF CountsInvariant

-----------------------------------------------------------------------------
(* The theorems about counts.                                              *)

(* Types hold, and with them the invariant of counts, items and requests.  *)
THEOREM CountsAreKept == Spec => [](TypeOK /\ CountsInvariant)
  <1>1. (TypeOK /\ CountsInvariant) /\ [Next]_vars => (TypeOK /\ CountsInvariant)'
    BY StepKeeps
  <1>2. QED
    BY <1>1, InitKeeps, PTL DEF Spec

LEMMA InvariantIsSound ==
    ASSUME TypeOK, CountsInvariant
    PROVE  CountsAreSound /\ SnapshotHolds
  <1>1. ReadyIsComplete
    <2> SUFFICES ASSUME NEW k \in Counts, waits, status[k] = "READY_FOR_APPROVAL",
                        NEW c \in ItemsOf(k)
                 PROVE  item[k][c].first # NotCounted /\ FinalQuantity(item[k][c]) # NotCounted
      BY DEF ReadyIsComplete
    <2>1. QED
      BY DEF CountsInvariant, CountSound, FiguresAreTrue
  <1>2. AdjustedOnce
    <2> SUFFICES ASSUME NEW k \in Counts, NEW c \in Cells, waits
                 PROVE  adjusted[k][c] = IF status[k] = "APPROVED" /\ c \in ItemsOf(k)
                           THEN FinalQuantity(item[k][c]) - item[k][c].system ELSE 0
      BY DEF AdjustedOnce
    <2>1. QED
      BY DEF CountsInvariant, CountSound, FiguresAreTrue, Difference
  <1>3. SnapshotHolds
    BY DEF SnapshotHolds, CountsInvariant, CountSound, FiguresAreTrue
  <1>4. QED
    BY <1>1, <1>2, <1>3 DEF CountsAreSound, CountsInvariant

(* CountsAreSound: one open count per warehouse; a count that is ready is  *)
(* complete, and its approval alone moves stock, once.                     *)
THEOREM CountsStaySound == Spec => []CountsAreSound
  <1>1. TypeOK /\ CountsInvariant => CountsAreSound
    BY InvariantIsSound
  <1>2. QED
    BY <1>1, CountsAreKept, PTL

(* SnapshotHolds: the balances do not move under an open count.            *)
THEOREM SnapshotStays == Spec => []SnapshotHolds
  <1>1. TypeOK /\ CountsInvariant => SnapshotHolds
    BY InvariantIsSound
  <1>2. QED
    BY <1>1, CountsAreKept, PTL

(* Only approve makes a count APPROVED.                                    *)
LEMMA OnlyApprovalApproves ==
    ASSUME TypeOK, [Next]_vars, NEW k \in Counts, status[k] # "APPROVED",
           status'[k] = "APPROVED"
    PROVE  approve(k)
  <1>1. UNCHANGED status => FALSE
    OBVIOUS
  <1>2. ASSUME NEW j \in Counts, CountStep(j)
        PROVE  approve(k)
    <2>1. CASE j = k
      BY <1>2, <2>1
         DEF CountStep, create, start, addItem, requestRecount, cancel, TypeOK
    <2>2. CASE j # k
      BY <1>2, <2>2
         DEF CountStep, create, start, addItem, requestRecount, approve, cancel, TypeOK
    <2>3. QED
      BY <2>1, <2>2
  <1>3. ASSUME NEW t \in Clients, ClerkStep(t)
        PROVE  approve(k)
    <2>1. CASE CommitRecount(t)
      BY <2>1 DEF CommitRecount, TypeOK, RequestRecords
    <2>2. CASE UNCHANGED status
      BY <1>1, <2>2
    <2>3. QED
      BY <1>3, <2>1, <2>2
         DEF ClerkStep, BeginCount, BeginRecount, CommitCount, WriteRecount, Rollback, countVars
  <1>4. OtherServices => UNCHANGED status
    BY DEF OtherServices, Movement, ReserveStock, ReleaseStock, applySalesOrderShipmentExit,
           UpdateStatus, countVars
  <1>5. QED
    BY <1>1, <1>2, <1>3, <1>4 DEF Next, vars, countVars

LEMMA ApprovalSets ==
    ASSUME TypeOK, CountsInvariant, [Next]_vars, NEW k \in Counts, waits,
           status[k] # "APPROVED", status'[k] = "APPROVED", NEW c \in ItemsOf(k)
    PROVE  balance'[c] = FinalQuantity(item[k][c])
  <1> DEFINE row == item[k][c]
  <1>1. approve(k)
    BY OnlyApprovalApproves
  <1>2. /\ status[k] = "READY_FOR_APPROVAL" /\ FinalQuantity(row) # NotCounted
    BY <1>1 DEF approve
  <1>3. row.system = balance[c]
    BY <1>2 DEF CountsInvariant, CountSound, FiguresAreTrue, Locking
  <1>4. c \in Cells /\ row \in ItemRows
    BY ItemIsRow
  <1>5. /\ FinalQuantity(row) \in Int /\ row.system \in Int /\ Difference(row) \in Int
        /\ Difference(row) = FinalQuantity(row) - row.system
    BY <1>2, <1>4, RowFacts
  <1>6. balance'[c] = balance[c] + Difference(row)
    <2>1. CASE c \in Adjusts(k)
      BY <1>1, <1>4, <2>1, ApprovalMoves
    <2>2. CASE c \notin Adjusts(k)
      <3>1. Difference(row) = 0
        BY <2>2 DEF Adjusts
      <3>2. balance'[c] = balance[c]
        BY <1>1, <1>4, <2>2, ApprovalMoves
      <3>3. QED
        BY <1>3, <1>5, <3>1, <3>2
    <2>3. QED
      BY <2>1, <2>2
  <1> HIDE DEF row
  <1>7. balance'[c] = FinalQuantity(row)
    BY <1>3, <1>5, <1>6
  <1>8. QED
    BY <1>7 DEF row

(* ApprovalSetsCounted: approving a count makes the balance of each of its *)
(* items what was counted.                                                 *)
THEOREM ApprovalSetsIt == Spec => ApprovalSetsCounted
  <1>1. TypeOK /\ CountsInvariant /\ [Next]_vars =>
          \A k \in Counts : (waits /\ status[k] # "APPROVED" /\ status'[k] = "APPROVED") =>
              \A c \in ItemsOf(k) : balance'[c] = FinalQuantity(item[k][c])
    BY ApprovalSets
  <1>2. QED
    BY <1>1, CountsAreKept, PTL DEF Spec, ApprovalSetsCounted

-----------------------------------------------------------------------------
(* The contract of stock.                                                  *)

(* The instance of the contract speaks of the same cells and amounts.      *)
LEMMA SameContract ==
    /\ Contract!Cells = Cells /\ Contract!Balances = Balances
    /\ Contract!Amounts = Amounts /\ Contract!NoAmount = NoAmount
    /\ \A w : Contract!CellsOf(w) = CellsOf(w)
    /\ \A c : Contract!Open(c) <=> WarehouseOf[c[2]] \notin underInventory
  BY DEF Contract!Cells, Contract!Balances, Contract!Amounts, Contract!NoAmount,
         Contract!CellsOf, Contract!Open, Cells, Balances, Amounts, NoAmount, CellsOf

LEMMA ReservedFits ==
    ASSUME TypeOK, CountsInvariant
    PROVE  reserved \in Balances
  BY WithinBalances DEF TypeOK, CountsInvariant, StockSound

(* How the lock of a warehouse follows the status of its count.            *)
LEMMA LockStays ==
    ASSUME \A j \in Counts : /\ status'[j] \in Locking <=> status[j] \in Locking
                             /\ status[j] \in Locking => warehouse'[j] = warehouse[j]
    PROVE  underInventory' = underInventory
  BY DEF underInventory

LEMMA LockOpens ==
    ASSUME NEW k \in Counts, UNCHANGED warehouse, status'[k] \in Locking,
           \A j \in Counts \ {k} : status'[j] = status[j]
    PROVE  underInventory' = underInventory \cup {warehouse[k]}
  BY DEF underInventory

LEMMA LockCloses ==
    ASSUME OneOpenCount, NEW k \in Counts, UNCHANGED warehouse, status[k] \in Locking,
           status'[k] \notin Locking, \A j \in Counts \ {k} : status'[j] = status[j]
    PROVE  /\ underInventory' = underInventory \ {warehouse[k]}
           /\ warehouse[k] \in underInventory
  <1>1. \A j \in Counts \ {k} : status[j] \in Locking => warehouse[j] # warehouse[k]
    BY DEF OneOpenCount, Open
  <1>2. QED
    BY <1>1 DEF underInventory

LEMMA CountStepImplements ==
    ASSUME TypeOK, CountsInvariant, TypeOK', NEW k \in Counts, CountStep(k)
    PROVE  Contract!Next \/ UNCHANGED Contract!vars
  <1>1. warehouse[k] \in Warehouses
    BY DEF TypeOK
  <1>2. ASSUME NEW w \in Warehouses, create(k, w)
        PROVE  UNCHANGED Contract!vars
    <2>1. underInventory' = underInventory
      BY <1>2, LockStays DEF create, TypeOK, Locking
    <2>2. QED
      BY <1>2, <2>1 DEF create, stockVars, Contract!vars
  <1>3. CASE start(k) \/ requestRecount(k)
    <2>1. /\ UNCHANGED <<warehouse, balance, reserved>> /\ status'[k] \in Locking
          /\ \A j \in Counts \ {k} : status'[j] = status[j]
      BY <1>3 DEF start, requestRecount, stockVars, TypeOK, Locking
    <2>2. Contract!OpenCount(warehouse[k])
      BY <2>1, LockOpens DEF Contract!OpenCount
    <2>3. QED
      BY <1>1, <2>2 DEF Contract!Next
  <1>4. ASSUME NEW c \in Cells, addItem(k, c)
        PROVE  UNCHANGED Contract!vars
    <2>1. underInventory' = underInventory
      BY <1>4, LockStays DEF addItem
    <2>2. QED
      BY <1>4, <2>1 DEF addItem, stockVars, Contract!vars
  <1>5. CASE cancel(k)
    <2>1. /\ UNCHANGED <<warehouse, balance, reserved>> /\ status'[k] = "CANCELLED"
          /\ \A j \in Counts \ {k} : status'[j] = status[j]
      BY <1>5 DEF cancel, stockVars, TypeOK
    <2>2. CASE status[k] \in Locking
      <3>1. Contract!CloseCount(warehouse[k])
        BY <2>1, <2>2, LockCloses DEF CountsInvariant, Locking, Contract!CloseCount
      <3>2. QED
        BY <1>1, <3>1 DEF Contract!Next
    <2>3. CASE status[k] \notin Locking
      <3>1. underInventory' = underInventory
        BY <2>1, <2>3, LockStays DEF Locking
      <3>2. QED
        BY <2>1, <3>1 DEF Contract!vars
    <2>4. QED
      BY <2>2, <2>3
  <1>6. CASE approve(k)
    <2>1. /\ status[k] \in Locking /\ status'[k] \notin Locking
          /\ UNCHANGED <<warehouse, reserved>>
          /\ \A j \in Counts \ {k} : status'[j] = status[j]
      BY <1>6 DEF approve, TypeOK, Locking
    <2>2. /\ underInventory' = underInventory \ {warehouse[k]}
          /\ warehouse[k] \in underInventory
      BY <2>1, LockCloses DEF CountsInvariant
    <2>3. ASSUME NEW c \in Cells, balance'[c] # balance[c]
          PROVE  /\ c \in CellsOf(warehouse[k])
                 /\ balance'[c] > balance[c] \/ balance'[c] >= reserved[c]
      BY <1>6, <2>3, ApprovalMoves
    <2>4. Contract!ApproveCount(warehouse[k])
      BY <2>1, <2>2, <2>3, SameContract DEF TypeOK, Contract!ApproveCount
    <2>5. QED
      BY <1>1, <2>4 DEF Contract!Next
  <1>7. QED
    BY <1>2, <1>3, <1>4, <1>5, <1>6 DEF CountStep

(* A late recount may lock its warehouse again; nothing else of a clerk    *)
(* concerns the contract.                                                  *)
LEMMA ClerkStepImplements ==
    ASSUME TypeOK, CountsInvariant, NEW t \in Clients, ClerkStep(t)
    PROVE  Contract!Next \/ UNCHANGED Contract!vars
  <1>1. CASE UNCHANGED <<status, warehouse, balance, reserved>>
    <2>1. underInventory' = underInventory
      BY <1>1, LockStays
    <2>2. QED
      BY <1>1, <2>1 DEF Contract!vars
  <1>2. CASE CommitRecount(t)
    <2>1. PICK r \in RequestRecords : r = request[t]
      BY <1>2 DEF CommitRecount, TypeOK
    <2>2. r.count \in Counts /\ warehouse[r.count] \in Warehouses
      BY DEF RequestRecords, TypeOK
    <2>3. UNCHANGED <<warehouse, balance, reserved>>
      BY <1>2 DEF CommitRecount, stockVars
    <2>4. CASE r.completes
      <3>1. status'[r.count] \in Locking /\ \A j \in Counts \ {r.count} : status'[j] = status[j]
        BY <1>2, <2>1, <2>2, <2>4 DEF CommitRecount, TypeOK, Locking
      <3>2. Contract!OpenCount(warehouse[r.count])
        BY <2>2, <2>3, <3>1, LockOpens DEF Contract!OpenCount
      <3>3. QED
        BY <2>2, <3>2 DEF Contract!Next
    <2>5. CASE ~r.completes
      <3>1. UNCHANGED status
        BY <1>2, <2>1, <2>5 DEF CommitRecount
      <3>2. QED
        BY <1>1, <2>3, <3>1
    <2>6. QED
      BY <2>4, <2>5
  <1>3. QED
    BY <1>1, <1>2
       DEF ClerkStep, BeginCount, BeginRecount, CommitCount, WriteRecount, Rollback,
           countVars, stockVars

LEMMA OthersImplement ==
    ASSUME TypeOK, CountsInvariant, TypeOK', reserved' \in Balances, OtherServices
    PROVE  Contract!Next \/ UNCHANGED Contract!vars
  <1>0. underInventory' = underInventory
    <2>1. UNCHANGED <<status, warehouse>>
      BY DEF OtherServices, Movement, ReserveStock, ReleaseStock, applySalesOrderShipmentExit,
             UpdateStatus, countVars
    <2>2. QED
      BY <2>1, LockStays
  <1>1. ASSUME NEW cmd \in Commands, Movement(cmd)
        PROVE  Contract!Move
    <2>1. /\ balance \in Balances /\ balance' \in Balances /\ reserved \in Amounts
          /\ Unlocked(underInventory, cmd) /\ Sufficient(balance, reserved, cmd, 0)
          /\ balance' = Moved(balance, cmd) /\ UNCHANGED reserved
      BY <1>1 DEF TypeOK, Movement
    <2>2. ASSUME NEW c \in Cells, balance'[c] # balance[c]
          PROVE  /\ WarehouseOf[c[2]] \notin underInventory
                 /\ balance'[c] > balance[c] \/ balance'[c] >= reserved[c]
      BY <2>1, <2>2, MovementIsLocal DEF Unlocked
    <2>3. QED
      BY <1>0, <2>1, <2>2, SameContract DEF Contract!Move
  <1>2. ASSUME NEW c \in Cells, NEW q \in Quantities, ReserveStock(c, q)
        PROVE  Contract!Hold
    <2>1. /\ WarehouseOf[c[2]] \notin underInventory /\ UNCHANGED balance
          /\ reserved[c] + q <= balance[c] /\ reserved' = [reserved EXCEPT ![c] = @ + q]
          /\ q \in Nat /\ q > 0 /\ reserved[c] \in Nat
      BY <1>2 DEF ReserveStock, stockVars, Quantities, TypeOK, Amounts
    <2>2. \A d \in Cells : reserved'[d] = IF d = c THEN reserved[d] + q ELSE reserved[d]
      BY <2>1 DEF TypeOK, Amounts
    <2>3. QED
      BY <1>0, <2>1, <2>2, SameContract DEF Contract!Hold
  <1>3. ASSUME NEW c \in Cells, NEW q \in Quantities, ReleaseStock(c, q)
        PROVE  Contract!Free
    <2>1. /\ UNCHANGED balance /\ reserved' = [reserved EXCEPT ![c] = @ - q] /\ q \in Nat
          /\ \A d \in Cells : reserved[d] \in Nat
      BY <1>3 DEF ReleaseStock, stockVars, Quantities, TypeOK, Amounts
    <2>2. \A d \in Cells : reserved'[d] = IF d = c THEN reserved[d] - q ELSE reserved[d]
      BY <2>1 DEF TypeOK, Amounts
    <2>3. QED
      BY <1>0, <2>1, <2>2, SameContract DEF Contract!Free
  <1>4. ASSUME NEW c \in Cells, NEW q \in Quantities, applySalesOrderShipmentExit(c, q)
        PROVE  Contract!Ship
    <2>1. PICK cmd : cmd = Command("EXIT", c[1], q, c[2], NoLocation)
      OBVIOUS
    <2>2. /\ Unlocked(underInventory, cmd) /\ Sufficient(balance, reserved, cmd, q)
          /\ balance' = Moved(balance, cmd) /\ reserved' = [reserved EXCEPT ![c] = @ - q]
          /\ balance \in Balances /\ reserved \in Amounts
      BY <1>4, <2>1 DEF applySalesOrderShipmentExit, TypeOK
    <2>3. /\ WarehousesOf(cmd) = {WarehouseOf[c[2]]} /\ balance' \in Balances
          /\ \A d \in Cells : balance'[d] = IF d = c THEN balance[d] - q ELSE balance[d]
      BY <2>1, <2>2, ShipmentTakes
    <2>4. /\ WarehouseOf[c[2]] \notin underInventory /\ q \in Nat /\ q > 0
          /\ \A d \in Cells : /\ balance[d] \in Nat /\ reserved[d] \in Nat
                               /\ reserved'[d] = IF d = c THEN reserved[d] - q ELSE reserved[d]
      BY <2>2, <2>3 DEF Unlocked, Quantities, Balances, Amounts
    <2>5. ASSUME NEW d \in Cells
          PROVE  \/ balance'[d] = balance[d] /\ reserved'[d] = reserved[d]
                 \/ /\ WarehouseOf[d[2]] \notin underInventory /\ reserved'[d] < reserved[d]
                    /\ balance[d] - balance'[d] = reserved[d] - reserved'[d]
      BY <2>3, <2>4
    <2>6. QED
      BY <1>0, <2>3, <2>5, SameContract DEF Contract!Ship
  <1>5. ASSUME NEW x \in Switchable, UpdateStatus(x)
        PROVE  UNCHANGED Contract!vars
    BY <1>0, <1>5 DEF UpdateStatus, stockVars, Contract!vars
  <1>6. QED
    BY <1>1, <1>2, <1>3, <1>4, <1>5 DEF OtherServices, Contract!Next

LEMMA StepImplements ==
    ASSUME TypeOK, CountsInvariant, TypeOK', reserved' \in Balances, [Next]_vars
    PROVE  [Contract!Next]_(Contract!vars)
  <1>1. CASE UNCHANGED vars
    BY <1>1, LockStays DEF vars, countVars, stockVars, Contract!vars
  <1>2. QED
    BY <1>1, CountStepImplements, ClerkStepImplements, OthersImplement DEF Next

(* ImplementsContract: counts, whatever their clerks and supervisors       *)
(* overlap, keep the contract of the stock they share.                     *)
THEOREM CountsKeepContract == Spec => ImplementsContract
  <1>1. Init => Contract!Init
    <2> SUFFICES ASSUME Init PROVE Contract!Init
      OBVIOUS
    <2>1. underInventory = {}
      BY DEF Init, underInventory, Locking
    <2>2. balance \in Balances /\ reserved = NoAmount
      BY InitKeeps DEF Init, TypeOK
    <2>3. QED
      BY <2>1, <2>2, SameContract DEF Contract!Init
  <1>2. TypeOK /\ CountsInvariant => reserved \in Balances
    BY ReservedFits
  <1>3. TypeOK /\ CountsInvariant /\ TypeOK' /\ (reserved \in Balances)' /\ [Next]_vars
          => [Contract!Next]_(Contract!vars)
    BY StepImplements
  <1>4. Spec => Contract!Spec
    BY <1>1, <1>2, <1>3, CountsAreKept, PTL DEF Spec, Contract!Spec
  <1>5. QED
    BY <1>4 DEF ImplementsContract
=============================================================================
