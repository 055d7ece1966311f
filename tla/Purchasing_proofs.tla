------------------------- MODULE Purchasing_proofs -------------------------
(***************************************************************************)
(* What Purchasing guarantees for every set of orders, receipts, keys and  *)
(* locations: order, receipts and stock tell the same (ReceiptsStayTrue),  *)
(* a key receives once (KeysKeepTheirPromise), late writes are refused     *)
(* (LateWritesChangeNothing), and receipts keep the contract of the stock  *)
(* (PurchasingKeepsContract).                                              *)
(***************************************************************************)
EXTENDS Purchasing, Basics_proofs

USE PurchasingFiniteAssumption, PurchasingWarehousesAssumption, ItemChoicesAssumption,
    BodiesAssumption, NoReceiptAssumption, NoRequestAssumption, MaxSendsAssumption,
    BoundsAssumption

(* What one row contributes to the received quantity of an item.           *)
Contribution(rows, o, p) ==
    [i \in DOMAIN rows |-> IF rows[i].order = o THEN rows[i].quantity[p] ELSE 0]

(* An order that exists asks for something.                                *)
ItemsAsked == \A o \in Orders : status[o] # "NONE" => items[o] \in ItemChoices

(* A transition starts from a status its operation may start from.         *)
TransitionsSound ==
    \A t \in Clients : (request[t] # NoRequest /\ request[t].op # "update") =>
        request[t].from \in SourcesOf(request[t].op)

(* The inductive invariant of the orders; types alone are not inductive,   *)
(* because a quantity fits its column only while it is within the order's. *)
OrderInvariant ==
    ItemsAsked /\ TransitionsSound /\ StatusMatchesReceipts /\ ReceivedIsExplained

(* What a transaction's lookup returned is stored under the request's key. *)
FoundIsRow ==
    \A r \in Requests : found[r] # NoReceipt =>
        \E i \in DOMAIN receipts :
            receipts[i] = found[r] /\ receipts[i].key = body[r].key

(* A handler that lost the race for a key will find the winner's row.      *)
DuplicateHasRow ==
    \A r \in Requests : pc[r] = "duplicate" =>
        \E i \in DOMAIN receipts : receipts[i].key = body[r].key

(* A request refused for a reused key met another row under that key.      *)
ReuseMetOther ==
    \A r \in Requests : answer[r] = "RECEIPT_DUPLICATE_REQUEST" =>
        \E i \in DOMAIN receipts :
            receipts[i].key = body[r].key /\ receipts[i] # body[r]

(* The inductive invariant of the keys.                                    *)
KeyInvariant ==
    KeyReceivesOnce /\ AnswerIsRecorded /\ FoundIsRow /\ DuplicateHasRow /\ ReuseMetOther

-----------------------------------------------------------------------------
(* Receipts and their sums.                                                *)

LEMMA BodyShape ==
    ASSUME NEW b \in Bodies
    PROVE  /\ b.order \in Orders /\ b.key \in Keys
           /\ \A p \in Products : b.quantity[p] \in 0..Capacity /\ b.location[p] \in Locations
           /\ \E p \in Products : b.quantity[p] > 0
  BY DEF Lines

LEMMA ItemShape ==
    ASSUME NEW i \in ItemChoices
    PROVE  /\ i \in Lines
           /\ \A p \in Products : i[p] \in 0..Capacity
           /\ \E p \in Products : i[p] > 0
  BY DEF Lines

(* What the rows of the state say of an order, as numbers.                 *)
LEMMA OrderShape ==
    ASSUME TypeOK, NEW o \in Orders
    PROVE  \A p \in Products : items[o][p] \in 0..Capacity /\ receivedQuantity[o][p] \in 0..Capacity
  BY DEF TypeOK, Lines

LEMMA ContributionType ==
    ASSUME NEW rows \in Seq(Bodies), NEW o, NEW p \in Products
    PROVE  /\ IsFiniteSet(DOMAIN rows)
           /\ DOMAIN rows = 1..Len(rows)
           /\ \A i \in DOMAIN rows : Contribution(rows, o, p)[i] \in Nat
  <1>1. DOMAIN rows = 1..Len(rows) /\ \A i \in DOMAIN rows : rows[i] \in Bodies
    OBVIOUS
  <1>2. IsFiniteSet(DOMAIN rows)
    BY <1>1, FS_Interval
  <1>3. ASSUME NEW i \in DOMAIN rows
        PROVE  Contribution(rows, o, p)[i] \in Nat
    <2>1. rows[i].quantity[p] \in 0..Capacity
      BY <1>1, BodyShape
    <2>2. QED
      BY <2>1, CapacityAssumption DEF Contribution
  <1>4. QED
    BY <1>1, <1>2, <1>3

(* One receipt more adds its quantity to its order, and to no other.       *)
LEMMA ReceiptTotalGrows ==
    ASSUME TypeOK, NEW b \in Bodies, receipts' = Append(receipts, b), NEW o, NEW p \in Products
    PROVE  ReceiptTotal(o, p)' = ReceiptTotal(o, p) + (IF b.order = o THEN b.quantity[p] ELSE 0)
  <1> DEFINE n == Len(receipts)
             f == Contribution(receipts, o, p)
             h == Contribution(receipts', o, p)
  <1>1. receipts \in Seq(Bodies) /\ n \in Nat /\ receipts' \in Seq(Bodies)
    BY DEF TypeOK
  <1>2. DOMAIN receipts = 1..n /\ DOMAIN receipts' = 1..(n + 1)
    BY <1>1
  <1>3. \A i \in 1..n : f[i] \in Int /\ h[i] = f[i]
    <2>1. \A i \in 1..n : f[i] \in Int
      BY <1>1, <1>2, ContributionType
    <2>2. \A i \in 1..n : receipts'[i] = receipts[i] /\ i \in 1..(n + 1)
      BY <1>1, <1>2
    <2>3. \A i \in 1..n : h[i] = f[i]
      BY <1>2, <2>2 DEF Contribution
    <2>4. QED
      BY <2>1, <2>3
  <1>4. h[n + 1] = (IF b.order = o THEN b.quantity[p] ELSE 0) /\ h[n + 1] \in Int
    BY <1>1, <1>2, BodyShape DEF Contribution
  <1>5. ReceiptTotal(o, p) = SumFunctionOnSet(f, 1..n)
    <2>1. ReceiptTotal(o, p) = SumFunctionOnSet(f, DOMAIN receipts)
      BY DEF ReceiptTotal, SumFunction, Contribution
    <2>2. QED
      BY <1>2, <2>1, Zenon
  <1>6. ReceiptTotal(o, p)' = SumFunctionOnSet(h, 1..(n + 1))
    <2>1. ReceiptTotal(o, p)' = SumFunctionOnSet(h, DOMAIN receipts')
      BY DEF ReceiptTotal, SumFunction, Contribution
    <2>2. QED
      BY <1>2, <2>1, Zenon
  <1> HIDE DEF n, f, h
  <1>7. SumFunctionOnSet(h, 1..(n + 1)) = SumFunctionOnSet(f, 1..n) + h[n + 1]
    BY <1>1, <1>3, <1>4, SumAddsLast
  <1>8. QED
    BY <1>4, <1>5, <1>6, <1>7

(* All of a line enters at the location the receipt names for it.          *)
LEMMA EnteredTotalGrows ==
    ASSUME TypeOK, NEW b \in Bodies, NEW o \in Orders, NEW p \in Products,
           entered' = [entered EXCEPT ![b.order] = [c \in Cells |-> @[c] + Delivered(b, c)]]
    PROVE  EnteredTotal(o, p)' = EnteredTotal(o, p) + (IF b.order = o THEN b.quantity[p] ELSE 0)
  <1> DEFINE f == [l \in Locations |-> entered[o][<<p, l>>]]
             h == [l \in Locations |-> entered'[o][<<p, l>>]]
             at == b.location[p]
  <1>1. EnteredTotal(o, p) = SumFunctionOnSet(f, Locations)
        /\ EnteredTotal(o, p)' = SumFunctionOnSet(h, Locations)
    BY DEF EnteredTotal, SumFunction
  <1>2. at \in Locations /\ b.quantity[p] \in Int /\ b.order \in Orders
    BY BodyShape
  <1>3. ASSUME NEW l \in Locations
        PROVE  /\ f[l] \in Int
               /\ h[l] = f[l] + (IF b.order = o /\ at = l THEN b.quantity[p] ELSE 0)
    <2>1. <<p, l>> \in Cells /\ <<p, l>>[1] = p /\ <<p, l>>[2] = l
      BY DEF Cells
    <2>2. f[l] = entered[o][<<p, l>>] /\ f[l] \in Nat
      BY <2>1 DEF TypeOK, Amounts
    <2>3. CASE b.order = o
      <3>1. entered'[o][<<p, l>>] = entered[o][<<p, l>>] + Delivered(b, <<p, l>>)
        BY <1>2, <2>1, <2>3 DEF TypeOK
      <3>2. Delivered(b, <<p, l>>) = IF at = l THEN b.quantity[p] ELSE 0
        BY <2>1 DEF Delivered
      <3>3. QED
        BY <2>2, <2>3, <3>1, <3>2
    <2>4. CASE b.order # o
      BY <1>2, <2>2, <2>4 DEF TypeOK
    <2>5. QED
      BY <2>3, <2>4
  <1> HIDE DEF f, h, at
  <1>4. \A l \in Locations : f[l] \in Int
    BY <1>3
  <1>5. h[at] = f[at] + (IF b.order = o THEN b.quantity[p] ELSE 0) /\ h[at] \in Int
    BY <1>2, <1>3
  <1>6. \A l \in Locations \ {at} : h[l] = f[l]
    BY <1>3
  <1>7. SumFunctionOnSet(h, Locations) = (SumFunctionOnSet(f, Locations) - f[at]) + h[at]
    BY <1>2, <1>4, <1>5, <1>6, SumChangesWithOne
  <1>8. SumFunctionOnSet(f, Locations) \in Int /\ f[at] \in Int
    BY <1>2, <1>4, SumIsInteger
  <1>9. QED
    BY <1>1, <1>2, <1>5, <1>7, <1>8

(* What an accepted receipt takes from an order in which it fits.          *)
LEMMA AcceptedFits ==
    ASSUME TypeOK, NEW b \in Bodies, Accepted(b),
           \A p \in Products : receivedQuantity[b.order][p] <= items[b.order][p]
    PROVE  /\ status[b.order] \in {"APPROVED", "PARTIALLY_RECEIVED"}
           /\ \A p \in Products :
                /\ NextReceived(b)[p] = receivedQuantity[b.order][p] + b.quantity[p]
                /\ NextReceived(b)[p] \in 0..items[b.order][p]
           /\ NextReceived(b) \in Lines
  <1>1. b.order \in Orders /\ status[b.order] \in {"APPROVED", "PARTIALLY_RECEIVED"}
    BY BodyShape DEF Accepted, Receivable
  <1>2. ASSUME NEW p \in Products
        PROVE  /\ NextReceived(b)[p] = receivedQuantity[b.order][p] + b.quantity[p]
               /\ NextReceived(b)[p] \in 0..items[b.order][p]
               /\ NextReceived(b)[p] \in 0..Capacity
    <2>1. /\ receivedQuantity[b.order][p] \in 0..Capacity /\ items[b.order][p] \in 0..Capacity
          /\ b.quantity[p] \in 0..Capacity
      BY <1>1, OrderShape, BodyShape
    <2>2. NextReceived(b)[p] = receivedQuantity[b.order][p] + b.quantity[p]
      BY DEF NextReceived
    <2>3. b.quantity[p] > 0 => b.quantity[p] <= items[b.order][p] - receivedQuantity[b.order][p]
      BY DEF Accepted, Receivable, LinesOf, ProductsOf, pending
    <2>4. receivedQuantity[b.order][p] <= items[b.order][p]
      OBVIOUS
    <2>5. \A x, y, q \in 0..Capacity :
            (x <= y /\ (q > 0 => q <= y - x)) => x + q \in 0..y /\ x + q \in 0..Capacity
      BY CapacityAssumption
    <2>6. /\ receivedQuantity[b.order][p] + b.quantity[p] \in 0..items[b.order][p]
          /\ receivedQuantity[b.order][p] + b.quantity[p] \in 0..Capacity
      BY <2>1, <2>3, <2>4, <2>5
    <2>7. QED
      BY <2>2, <2>6
  <1>3. NextReceived(b) \in Lines
    BY <1>2 DEF Lines, NextReceived
  <1>4. QED
    BY <1>1, <1>2, <1>3

-----------------------------------------------------------------------------
(* Types, and the orders.                                                  *)

(* What a handler keeps of its request.                                    *)
HandlerTypes ==
    /\ body \in [Requests -> Bodies]
    /\ pc \in [Requests -> PC]
    /\ attempt \in [Requests -> 1..MaxAttempts]
    /\ sends \in [Requests -> 0..MaxSends]
    /\ found \in [Requests -> Bodies \cup {NoReceipt}]
    /\ answer \in [Requests -> Answers]

LEMMA ReplyType ==
    ASSUME TypeOK, NEW r \in Requests, NEW a \in Answers, Reply(r, a)
    PROVE  HandlerTypes'
  BY DEF TypeOK, HandlerTypes, Reply, PC, MaxAttempts

(* The unique index finds the row under a key, if there is one.            *)
LEMMA ExistingIsRow ==
    ASSUME TypeOK, NEW k
    PROVE  \/ /\ Existing(k) = NoReceipt
              /\ \A i \in DOMAIN receipts : receipts[i].key # k
           \/ /\ Existing(k) \in Bodies
              /\ \E i \in DOMAIN receipts :
                     receipts[i] = Existing(k) /\ receipts[i].key = k
  <1>1. \A i \in DOMAIN receipts : receipts[i] \in Bodies
    BY DEF TypeOK
  <1>2. QED
    BY <1>1 DEF Existing

(* Of all the steps of a receipt request, only the commit changes orders,  *)
(* receipts or stock.                                                      *)
LEMMA OnlyCommitWrites ==
    ASSUME NEW r \in Requests, Send(r) \/ Handle(r) \/ Crash(r)
    PROVE  Commit(r) \/ UNCHANGED durable
  BY DEF Send, Handle, Crash, BeginReceipt, ReturnExisting, Refuse, Commit, UniqueViolation,
         ResolveDuplicate, Conflict, RawConflict

LEMMA HandlerKeepsTypes ==
    ASSUME TypeOK, NEW r \in Requests, Send(r) \/ Handle(r) \/ Crash(r)
    PROVE  HandlerTypes'
  <1>1. CASE Send(r)
    BY <1>1 DEF TypeOK, HandlerTypes, Send, PC, Answers
  <1>2. CASE BeginReceipt(r)
    <2>1. Existing(body[r].key) \in Bodies \cup {NoReceipt}
      BY ExistingIsRow
    <2>2. QED
      BY <1>2, <2>1 DEF TypeOK, HandlerTypes, BeginReceipt, PC
  <1>3. CASE UniqueViolation(r)
    BY <1>3 DEF TypeOK, HandlerTypes, UniqueViolation, PC
  <1>4. CASE Conflict(r) /\ attempt[r] < MaxAttempts
    <2>1. /\ pc' = [pc EXCEPT ![r] = "ready"]
          /\ attempt' = [attempt EXCEPT ![r] = @ + 1]
          /\ found' = [found EXCEPT ![r] = NoReceipt]
          /\ UNCHANGED <<body, sends, answer>>
      BY <1>4, Zenon DEF Conflict
    <2>2. attempt[r] + 1 \in 1..MaxAttempts
      <3>1. attempt[r] \in 1..MaxAttempts /\ attempt[r] < MaxAttempts
        BY <1>4 DEF TypeOK
      <3>2. QED
        BY <3>1 DEF MaxAttempts
    <2>3. QED
      BY <2>1, <2>2 DEF TypeOK, HandlerTypes, PC
  <1>5. CASE ReturnExisting(r) \/ Refuse(r) \/ Commit(r) \/ ResolveDuplicate(r) \/ RawConflict(r)
             \/ Crash(r) \/ (Conflict(r) /\ ~(attempt[r] < MaxAttempts))
    <2>1. \E a \in Answers : Reply(r, a)
      BY <1>5, Zenon DEF ReturnExisting, Refuse, Commit, ResolveDuplicate, RawConflict, Crash,
         Conflict, resolveIdempotency, Answers
    <2>2. QED
      BY <2>1, ReplyType
  <1>6. QED
    BY <1>1, <1>2, <1>3, <1>4, <1>5 DEF Handle

(* What the transactions on orders have read and will write.               *)
RequestTypes == request \in [Clients -> RequestRecords \cup {NoRequest}]

(* The rows of an order nothing was received for are replaced, or its      *)
(* status moves on before the first receipt.                               *)
LEMMA UnreceivedOrderChanges ==
    ASSUME TypeOK, OrderInvariant, NEW o \in Orders,
           UNCHANGED <<receivedQuantity, receipts, entered>>,
           \A x \in Orders \ {o} : status'[x] = status[x] /\ items'[x] = items[x],
           status[o] \notin {"RECEIVED", "PARTIALLY_RECEIVED"},
           status'[o] \notin {"RECEIVED", "PARTIALLY_RECEIVED"},
           items'[o] \in ItemChoices
    PROVE  ItemsAsked' /\ StatusMatchesReceipts' /\ ReceivedIsExplained'
  <1>1. ItemsAsked'
    BY DEF OrderInvariant, ItemsAsked
  <1>2. \A p \in Products : receivedQuantity[o][p] = 0
    <2> SUFFICES ASSUME NEW p \in Products PROVE receivedQuantity[o][p] = 0
      OBVIOUS
    <2>1. ~(receivedQuantity[o][p] > 0)
      BY DEF OrderInvariant, StatusMatchesReceipts
    <2>2. receivedQuantity[o][p] \in 0..Capacity
      BY OrderShape
    <2>3. QED
      BY <2>1, <2>2
  <1>3. StatusMatchesReceipts'
    BY <1>2 DEF OrderInvariant, StatusMatchesReceipts
  <1>4. ASSUME NEW x \in Orders, NEW p \in Products
        PROVE  /\ receivedQuantity'[x][p] = ReceiptTotal(x, p)'
               /\ receivedQuantity'[x][p] = EnteredTotal(x, p)'
               /\ receivedQuantity'[x][p] <= items'[x][p]
    <2>1. ReceiptTotal(x, p)' = ReceiptTotal(x, p) /\ EnteredTotal(x, p)' = EnteredTotal(x, p)
      BY DEF ReceiptTotal, EnteredTotal
    <2>2. receivedQuantity'[x][p] <= items'[x][p]
      <3>1. CASE x = o
        BY <1>2, <3>1, ItemShape
      <3>2. CASE x # o
        BY <3>2 DEF OrderInvariant, ReceivedIsExplained
      <3>3. QED
        BY <3>1, <3>2
    <2>3. QED
      BY <2>1, <2>2 DEF OrderInvariant, ReceivedIsExplained
  <1>5. QED
    BY <1>1, <1>3, <1>4 DEF ReceivedIsExplained

(* Nothing was received for an order before its approval.                  *)
LEMMA NothingReceived ==
    ASSUME TypeOK, OrderInvariant, NEW o \in Orders,
           status[o] \notin {"RECEIVED", "PARTIALLY_RECEIVED"}
    PROVE  receivedQuantity[o] = NoItems
  <1>1. \A p \in Products : ~(receivedQuantity[o][p] > 0)
    BY DEF OrderInvariant, StatusMatchesReceipts
  <1>2. \A p \in Products : receivedQuantity[o][p] \in 0..Capacity
    BY OrderShape
  <1>3. \A p \in Products : receivedQuantity[o][p] = 0
    BY <1>1, <1>2
  <1>4. QED
    BY <1>3 DEF TypeOK, Lines, NoItems

LEMMA CreateKeepsOrders ==
    ASSUME TypeOK, OrderInvariant, NEW o \in Orders, NEW w \in Warehouses,
           NEW itemList \in ItemChoices, create(o, w, itemList)
    PROVE  TypeOK' /\ OrderInvariant'
  <1>1. /\ status[o] = "NONE"
        /\ status' = [status EXCEPT ![o] = "DRAFT"]
        /\ warehouse' = [warehouse EXCEPT ![o] = w]
        /\ items' = [items EXCEPT ![o] = itemList]
        /\ UNCHANGED <<request, receivedQuantity, receipts, entered>>
        /\ UNCHANGED <<handlerVars, balance, environmentVars>>
    BY DEF create, orderOnly, receiptVars
  <1>2. status'[o] = "DRAFT" /\ items'[o] = itemList
        /\ \A x \in Orders \ {o} : status'[x] = status[x] /\ items'[x] = items[x]
    BY <1>1 DEF TypeOK
  <1>3. ItemsAsked' /\ StatusMatchesReceipts' /\ ReceivedIsExplained'
    BY <1>1, <1>2, UnreceivedOrderChanges
  <1>4. TransitionsSound'
    BY <1>1 DEF OrderInvariant, TransitionsSound
  <1>5. TypeOK'
    BY <1>1, ItemShape DEF TypeOK, Statuses, handlerVars, environmentVars
  <1>6. QED
    BY <1>3, <1>4, <1>5 DEF OrderInvariant

LEMMA CommitUpdateKeepsOrders ==
    ASSUME TypeOK, OrderInvariant, NEW t \in Clients, CommitUpdate(t)
    PROVE  TypeOK' /\ OrderInvariant'
  <1>0. PICK q \in RequestRecords : q = request[t]
    BY DEF TypeOK, CommitUpdate
  <1> DEFINE o == q.order
  <1>1. /\ o \in Orders /\ q.warehouse \in Warehouses /\ q.items \in ItemChoices
        /\ status[o] = "DRAFT"
        /\ warehouse' = [warehouse EXCEPT ![o] = q.warehouse]
        /\ items' = [items EXCEPT ![o] = q.items]
        /\ receivedQuantity' = [receivedQuantity EXCEPT ![o] = NoItems]
        /\ request' = [request EXCEPT ![t] = NoRequest]
        /\ UNCHANGED <<status, receipts, entered>>
        /\ UNCHANGED <<handlerVars, balance, environmentVars>>
    BY <1>0 DEF CommitUpdate, RequestRecords
  <1> HIDE DEF o
  <1>2. UNCHANGED receivedQuantity
    BY <1>1, NothingReceived DEF TypeOK
  <1>3. items'[o] \in ItemChoices /\ \A x \in Orders \ {o} : items'[x] = items[x]
    BY <1>1 DEF TypeOK
  <1>4. ItemsAsked' /\ StatusMatchesReceipts' /\ ReceivedIsExplained'
    BY <1>1, <1>2, <1>3, UnreceivedOrderChanges
  <1>5. TransitionsSound'
    BY <1>1 DEF TypeOK, OrderInvariant, TransitionsSound
  <1>6. TypeOK'
    BY <1>1, <1>2, ItemShape DEF TypeOK, handlerVars, environmentVars
  <1>7. QED
    BY <1>4, <1>5, <1>6 DEF OrderInvariant

(* A transition that commits leaves the status it read for its target.     *)
LEMMA CommitTransitionMoves ==
    ASSUME TypeOK, TransitionsSound, NEW t \in Clients, CommitTransition(t)
    PROVE  \E o \in Orders, op \in {"submit", "approve", "cancel"} :
              /\ status[o] \in SourcesOf(op)
              /\ status' = [status EXCEPT ![o] = TargetOf(op)]
              /\ request' = [request EXCEPT ![t] = NoRequest]
  <1>1. request[t] \in RequestRecords /\ request[t] # NoRequest /\ request[t].op # "update"
    BY DEF TypeOK, CommitTransition
  <1>2. request[t].order \in Orders /\ request[t].op \in {"submit", "approve", "cancel"}
    BY <1>1 DEF RequestRecords
  <1>3. status[request[t].order] \in SourcesOf(request[t].op)
    BY <1>1 DEF TransitionsSound, CommitTransition
  <1>4. QED
    BY <1>2, <1>3 DEF CommitTransition

LEMMA CommitTransitionKeepsOrders ==
    ASSUME TypeOK, OrderInvariant, NEW t \in Clients, CommitTransition(t)
    PROVE  TypeOK' /\ OrderInvariant'
  <1>1. PICK o \in Orders, op \in {"submit", "approve", "cancel"} :
              /\ status[o] \in SourcesOf(op)
              /\ status' = [status EXCEPT ![o] = TargetOf(op)]
              /\ request' = [request EXCEPT ![t] = NoRequest]
    BY CommitTransitionMoves DEF OrderInvariant
  <1>2. /\ UNCHANGED <<warehouse, items, receivedQuantity, receipts, entered>>
        /\ UNCHANGED <<handlerVars, balance, environmentVars>>
    BY DEF CommitTransition, orderOnly, receiptVars
  <1>3. status[o] \in {"DRAFT", "PENDING_APPROVAL", "APPROVED"}
        /\ TargetOf(op) \in {"PENDING_APPROVAL", "APPROVED", "CANCELLED"}
    BY <1>1 DEF SourcesOf, TargetOf
  <1>4. status'[o] = TargetOf(op) /\ \A x \in Orders \ {o} : status'[x] = status[x]
    BY <1>1 DEF TypeOK
  <1>5. items[o] \in ItemChoices
    BY <1>3 DEF OrderInvariant, ItemsAsked
  <1>6. ItemsAsked' /\ StatusMatchesReceipts' /\ ReceivedIsExplained'
    BY <1>2, <1>3, <1>4, <1>5, UnreceivedOrderChanges
  <1>7. TransitionsSound'
    BY <1>1 DEF TypeOK, OrderInvariant, TransitionsSound
  <1>8. TypeOK'
    BY <1>1, <1>2, <1>3 DEF TypeOK, Statuses, handlerVars, environmentVars
  <1>9. QED
    BY <1>6, <1>7, <1>8 DEF OrderInvariant

(* Steps that leave orders, receipts and handlers alone.                   *)
LEMMA RequestKeepsOrders ==
    ASSUME TypeOK, OrderInvariant, NEW t \in Clients,
           NEW q \in RequestRecords \cup {NoRequest},
           (q # NoRequest /\ q.op # "update") => q.from \in SourcesOf(q.op),
           request' = [request EXCEPT ![t] = q],
           UNCHANGED <<orderVars, receiptVars, handlerVars, balance, environmentVars>>
    PROVE  TypeOK' /\ OrderInvariant'
  <1>1. TypeOK'
    BY DEF TypeOK, orderVars, receiptVars, handlerVars, environmentVars
  <1>2. TransitionsSound'
    BY DEF TypeOK, OrderInvariant, TransitionsSound
  <1>3. ItemsAsked' /\ StatusMatchesReceipts' /\ ReceivedIsExplained'
    BY DEF OrderInvariant, ItemsAsked, StatusMatchesReceipts, ReceivedIsExplained,
           ReceiptTotal, EnteredTotal, orderVars, receiptVars
  <1>4. QED
    BY <1>1, <1>2, <1>3 DEF OrderInvariant

LEMMA UnchangedKeepsOrders ==
    ASSUME OrderInvariant, UNCHANGED <<orderVars, receiptVars, request>>
    PROVE  OrderInvariant'
  BY DEF OrderInvariant, ItemsAsked, TransitionsSound, StatusMatchesReceipts, ReceivedIsExplained,
         ReceiptTotal, EnteredTotal, orderVars, receiptVars

LEMMA ClientsKeepOrders ==
    ASSUME TypeOK, OrderInvariant, NEW t \in Clients, ClientStep(t)
    PROVE  TypeOK' /\ OrderInvariant'
  <1>1. ASSUME NEW o \in Orders, NEW w \in Warehouses, NEW itemList \in ItemChoices,
               BeginUpdate(t, o, w, itemList)
        PROVE  TypeOK' /\ OrderInvariant'
    <2> DEFINE q == [op |-> "update", order |-> o, from |-> "DRAFT",
                     warehouse |-> w, items |-> itemList]
    <2>1. q \in RequestRecords /\ q.op = "update"
      BY DEF RequestRecords, Statuses
    <2>2. request' = [request EXCEPT ![t] = q] /\ UNCHANGED <<orderVars, orderOnly>>
      BY <1>1 DEF BeginUpdate
    <2> HIDE DEF q
    <2>3. QED
      BY <2>1, <2>2, RequestKeepsOrders DEF orderOnly
  <1>2. ASSUME NEW o \in Orders, NEW op \in {"submit", "approve", "cancel"},
               BeginTransition(t, o, op)
        PROVE  TypeOK' /\ OrderInvariant'
    <2> DEFINE q == [op |-> op, order |-> o, from |-> status[o],
                     warehouse |-> warehouse[o], items |-> items[o]]
    <2>1. status[o] \in SourcesOf(op) /\ status[o] \in Statuses
      BY <1>2 DEF BeginTransition, SourcesOf, Statuses
    <2>2. items[o] \in ItemChoices /\ warehouse[o] \in Warehouses
      BY <2>1 DEF TypeOK, OrderInvariant, ItemsAsked, Statuses
    <2>3. q \in RequestRecords /\ q.from \in SourcesOf(q.op)
      BY <2>1, <2>2 DEF RequestRecords
    <2>4. request' = [request EXCEPT ![t] = q] /\ UNCHANGED <<orderVars, orderOnly>>
      BY <1>2 DEF BeginTransition
    <2> HIDE DEF q
    <2>5. QED
      BY <2>3, <2>4, RequestKeepsOrders DEF orderOnly
  <1>3. CASE Rollback(t)
    <2>1. request' = [request EXCEPT ![t] = NoRequest] /\ UNCHANGED <<orderVars, orderOnly>>
      BY <1>3 DEF Rollback
    <2>2. QED
      BY <2>1, RequestKeepsOrders DEF orderOnly
  <1>4. QED
    BY <1>1, <1>2, <1>3, CommitUpdateKeepsOrders, CommitTransitionKeepsOrders DEF ClientStep

(* What a committed receipt was found to be and writes.                    *)
LEMMA CommitWrites ==
    ASSUME TypeOK, NEW r \in Requests, Commit(r)
    PROVE  \E b \in Bodies :
              /\ b = body[r] /\ Accepted(b) /\ Receive(b) /\ Existing(b.key) = NoReceipt
  <1>1. body[r] \in Bodies
    BY DEF TypeOK
  <1>2. QED
    BY <1>1 DEF Commit

LEMMA ReceiveKeepsTypes ==
    ASSUME TypeOK, OrderInvariant, NEW b \in Bodies, Accepted(b), Receive(b)
    PROVE  /\ status' \in [Orders -> Statuses \cup {"NONE"}]
           /\ receivedQuantity' \in [Orders -> Lines]
           /\ receipts' \in Seq(Bodies)
           /\ entered' \in [Orders -> Amounts]
           /\ balance' \in Balances
  <1>1. b.order \in Orders
    BY BodyShape
  <1>2. NextReceived(b) \in Lines
    BY <1>1, AcceptedFits DEF OrderInvariant, ReceivedIsExplained
  <1>3. \A c \in Cells : Delivered(b, c) \in Nat
    <2> SUFFICES ASSUME NEW c \in Cells PROVE Delivered(b, c) \in Nat
      OBVIOUS
    <2>1. b.quantity[c[1]] \in 0..Capacity
      BY BodyShape DEF Cells
    <2>2. QED
      BY <2>1, CapacityAssumption DEF Delivered
  <1>4. balance' \in Balances
    <2>1. ASSUME NEW c \in Cells
          PROVE  balance[c] + Delivered(b, c) \in 0..Capacity
      <3>1. balance[c] \in 0..Capacity
        BY DEF TypeOK, Balances
      <3>2. balance[c] + Delivered(b, c) <= Capacity
        BY DEF Accepted, EntryAccepted, Fits
      <3>3. QED
        BY <1>3, <3>1, <3>2, CapacityAssumption
    <2>2. QED
      BY <2>1 DEF Receive, Balances
  <1>5. entered' \in [Orders -> Amounts]
    <2> DEFINE more == [c \in Cells |-> entered[b.order][c] + Delivered(b, c)]
    <2>1. \A c \in Cells : entered[b.order][c] \in Nat
      BY <1>1 DEF TypeOK, Amounts
    <2>2. more \in Amounts
      BY <1>3, <2>1 DEF Amounts
    <2>3. entered' = [entered EXCEPT ![b.order] = more]
      BY DEF Receive
    <2> HIDE DEF more
    <2>4. QED
      BY <2>2, <2>3 DEF TypeOK
  <1>6. receivedQuantity' \in [Orders -> Lines]
    BY <1>2 DEF TypeOK, Receive
  <1>7. receipts' \in Seq(Bodies) /\ status' \in [Orders -> Statuses \cup {"NONE"}]
    BY DEF TypeOK, Receive, NextStatus, Statuses
  <1>8. QED
    BY <1>4, <1>5, <1>6, <1>7

LEMMA ReceiveKeepsExplanation ==
    ASSUME TypeOK, OrderInvariant, NEW b \in Bodies, Accepted(b), Receive(b)
    PROVE  ReceivedIsExplained'
  <1> SUFFICES ASSUME NEW o \in Orders, NEW p \in Products
               PROVE  /\ receivedQuantity'[o][p] = ReceiptTotal(o, p)'
                      /\ receivedQuantity'[o][p] = EnteredTotal(o, p)'
                      /\ receivedQuantity'[o][p] <= items'[o][p]
    BY DEF ReceivedIsExplained
  <1>1. /\ receivedQuantity[o][p] = ReceiptTotal(o, p)
        /\ receivedQuantity[o][p] = EnteredTotal(o, p)
        /\ receivedQuantity[o][p] <= items[o][p]
        /\ b.order \in Orders
        /\ \A x \in Products : receivedQuantity[b.order][x] <= items[b.order][x]
    BY BodyShape DEF OrderInvariant, ReceivedIsExplained
  <1>2. ReceiptTotal(o, p)' = ReceiptTotal(o, p) + (IF b.order = o THEN b.quantity[p] ELSE 0)
    BY ReceiptTotalGrows DEF Receive
  <1>3. EnteredTotal(o, p)' = EnteredTotal(o, p) + (IF b.order = o THEN b.quantity[p] ELSE 0)
    BY EnteredTotalGrows DEF Receive
  <1>4. receivedQuantity[o][p] \in 0..Capacity /\ items[o][p] \in 0..Capacity
        /\ b.quantity[p] \in 0..Capacity
    BY OrderShape, BodyShape
  <1>5. items' = items /\ receivedQuantity' = [receivedQuantity EXCEPT ![b.order] = NextReceived(b)]
    BY DEF Receive
  <1>6. CASE b.order = o
    <2>1. receivedQuantity'[o][p] = receivedQuantity[o][p] + b.quantity[p]
          /\ receivedQuantity'[o][p] \in 0..items[o][p]
      BY <1>1, <1>5, <1>6, AcceptedFits DEF TypeOK
    <2>2. /\ ReceiptTotal(o, p)' = receivedQuantity[o][p] + b.quantity[p]
          /\ EnteredTotal(o, p)' = receivedQuantity[o][p] + b.quantity[p]
      BY <1>1, <1>2, <1>3, <1>6
    <2>3. receivedQuantity'[o][p] <= items'[o][p]
      BY <1>4, <1>5, <2>1, CapacityAssumption
    <2>4. QED
      BY <2>1, <2>2, <2>3
  <1>7. CASE b.order # o
    <2>1. receivedQuantity'[o] = receivedQuantity[o]
      BY <1>1, <1>5, <1>7 DEF TypeOK
    <2>2. /\ ReceiptTotal(o, p)' = receivedQuantity[o][p] + 0
          /\ EnteredTotal(o, p)' = receivedQuantity[o][p] + 0
      BY <1>1, <1>2, <1>3, <1>7
    <2>3. receivedQuantity[o][p] + 0 = receivedQuantity[o][p]
      BY <1>4, CapacityAssumption
    <2>4. QED
      BY <1>1, <1>5, <2>1, <2>2, <2>3
  <1>8. QED
    BY <1>6, <1>7

LEMMA ReceiveKeepsStatus ==
    ASSUME TypeOK, OrderInvariant, NEW b \in Bodies, Accepted(b), Receive(b)
    PROVE  StatusMatchesReceipts' /\ ItemsAsked'
  <1> DEFINE o == b.order
             new == NextReceived(b)
  <1>1. /\ o \in Orders
        /\ status[o] \in {"APPROVED", "PARTIALLY_RECEIVED"}
        /\ \A p \in Products : new[p] = receivedQuantity[o][p] + b.quantity[p]
    <2>1. o \in Orders
      BY BodyShape
    <2>2. QED
      BY <2>1, AcceptedFits DEF OrderInvariant, ReceivedIsExplained
  <1>2. \E p \in Products : new[p] > 0
    <2>1. PICK p \in Products : b.quantity[p] > 0
      BY BodyShape
    <2>2. b.quantity[p] \in 0..Capacity /\ receivedQuantity[o][p] \in 0..Capacity
      BY <1>1, OrderShape, BodyShape
    <2>3. new[p] > 0
      BY <1>1, <2>1, <2>2
    <2>4. QED
      BY <2>3
  <1>3. /\ status' = [status EXCEPT ![o] = NextStatus(b, new)]
        /\ receivedQuantity' = [receivedQuantity EXCEPT ![o] = new]
        /\ items' = items
    BY DEF Receive
  <1>4. status'[o] = IF \A p \in Products : new[p] = items[o][p]
                       THEN "RECEIVED" ELSE "PARTIALLY_RECEIVED"
    BY <1>1, <1>3 DEF TypeOK, NextStatus
  <1> HIDE DEF o, new
  <1>5. receivedQuantity'[o] = new
        /\ \A x \in Orders \ {o} : status'[x] = status[x] /\ receivedQuantity'[x] = receivedQuantity[x]
    BY <1>1, <1>3 DEF TypeOK
  <1>6. StatusMatchesReceipts'
    BY <1>2, <1>3, <1>4, <1>5 DEF OrderInvariant, StatusMatchesReceipts
  <1>7. ItemsAsked'
    BY <1>1, <1>3, <1>5 DEF OrderInvariant, ItemsAsked
  <1>8. QED
    BY <1>6, <1>7

LEMMA CommitKeepsOrders ==
    ASSUME TypeOK, OrderInvariant, NEW r \in Requests, Commit(r)
    PROVE  TypeOK' /\ OrderInvariant'
  <1>1. PICK b \in Bodies : Accepted(b) /\ Receive(b)
    BY CommitWrites
  <1>2. UNCHANGED <<warehouse, items, request, environmentVars>>
    BY <1>1 DEF Receive
  <1>3. StatusMatchesReceipts' /\ ItemsAsked' /\ ReceivedIsExplained'
    BY <1>1, ReceiveKeepsStatus, ReceiveKeepsExplanation
  <1>4. TransitionsSound'
    BY <1>2 DEF OrderInvariant, TransitionsSound
  <1>5. HandlerTypes'
    BY HandlerKeepsTypes DEF Handle
  <1>6. TypeOK'
    BY <1>1, <1>2, <1>5, ReceiveKeepsTypes DEF TypeOK, HandlerTypes, environmentVars
  <1>7. QED
    BY <1>3, <1>4, <1>6 DEF OrderInvariant

LEMMA HandlerKeepsOrders ==
    ASSUME TypeOK, OrderInvariant, NEW r \in Requests, Send(r) \/ Handle(r) \/ Crash(r)
    PROVE  TypeOK' /\ OrderInvariant'
  <1>1. CASE UNCHANGED durable
    <2>1. TypeOK'
      BY <1>1, HandlerKeepsTypes
         DEF TypeOK, HandlerTypes, durable, orderVars, receiptVars, environmentVars
    <2>2. QED
      BY <1>1, <2>1, UnchangedKeepsOrders DEF durable
  <1>2. QED
    BY <1>1, OnlyCommitWrites, CommitKeepsOrders

LEMMA OthersKeepOrders ==
    ASSUME TypeOK, OrderInvariant, OtherServices
    PROVE  TypeOK' /\ OrderInvariant'
  <1>1. UNCHANGED purchasing
    BY DEF OtherServices, Movement, StartCount, CloseCount, UpdateStatus
  <1>2. OrderInvariant'
    BY <1>1, UnchangedKeepsOrders DEF purchasing
  <1>3. balance' \in Balances
    <2>1. CASE \E cmd \in Elsewhere : Movement(cmd)
      <3>1. PICK cmd \in Commands : Movement(cmd)
        BY <2>1
      <3>2. NoAmount \in Amounts /\ balance \in Balances
        BY DEF TypeOK, NoAmount, Amounts
      <3>3. QED
        BY <3>1, <3>2, MovedType DEF Movement
    <2>2. CASE UNCHANGED balance
      BY <2>2 DEF TypeOK
    <2>3. QED
      BY <2>1, <2>2 DEF OtherServices, StartCount, CloseCount, UpdateStatus
  <1>4. underInventory' \in SUBSET Warehouses /\ inactive' \in SUBSET Switchable
    BY DEF TypeOK, OtherServices, Movement, StartCount, CloseCount, UpdateStatus, environmentVars
  <1>5. TypeOK'
    BY <1>1, <1>3, <1>4 DEF TypeOK, purchasing, orderVars, receiptVars, handlerVars
  <1>6. QED
    BY <1>2, <1>5

LEMMA StepKeepsOrders ==
    ASSUME TypeOK, OrderInvariant, [Next]_vars
    PROVE  TypeOK' /\ OrderInvariant'
  <1>1. CASE UNCHANGED vars
    BY <1>1, UnchangedKeepsOrders
       DEF TypeOK, vars, orderVars, receiptVars, handlerVars, environmentVars
  <1>2. QED
    BY <1>1, CreateKeepsOrders, ClientsKeepOrders, HandlerKeepsOrders, OthersKeepOrders DEF Next

LEMMA InitKeepsOrders == Init => TypeOK /\ OrderInvariant
  <1> SUFFICES ASSUME Init PROVE TypeOK /\ OrderInvariant
    OBVIOUS
  <1>1. TypeOK
    <2>1. (CHOOSE w \in Warehouses : TRUE) \in Warehouses
      OBVIOUS
    <2>2. NoItems \in Lines /\ NoAmount \in Amounts /\ NoAmount \in Balances
      BY CapacityAssumption DEF NoItems, NoAmount, Lines, Amounts, Balances
    <2>3. QED
      BY <2>1, <2>2 DEF Init, TypeOK, Statuses, PC, Answers, MaxAttempts
  <1>2. ItemsAsked /\ TransitionsSound
    BY DEF Init, ItemsAsked, TransitionsSound
  <1>3. StatusMatchesReceipts
    BY DEF Init, StatusMatchesReceipts, NoItems
  <1>4. ASSUME NEW o \in Orders, NEW p \in Products
        PROVE  ReceiptTotal(o, p) = 0 /\ EnteredTotal(o, p) = 0
    <2>1. DOMAIN receipts = {}
      BY DEF Init
    <2>2. ReceiptTotal(o, p) = 0
      BY <2>1, SumOfNothing DEF ReceiptTotal, SumFunction
    <2> DEFINE f == [l \in Locations |-> entered[o][<<p, l>>]]
    <2>3. EnteredTotal(o, p) = SumFunctionOnSet(f, Locations)
      BY DEF EnteredTotal, SumFunction
    <2>4. \A l \in Locations : f[l] = 0 /\ f[l] \in Nat
      BY DEF Init, NoAmount, Cells
    <2> HIDE DEF f
    <2>5. SumFunctionOnSet(f, Locations) = 0
      BY <2>4, SumOfNaturals
    <2>6. QED
      BY <2>2, <2>3, <2>5
  <1>5. ReceivedIsExplained
    BY <1>4 DEF Init, ReceivedIsExplained, NoItems
  <1>6. QED
    BY <1>1, <1>2, <1>3, <1>5 DEF OrderInvariant

(* The inductive invariant of the orders, in every reachable state.        *)
THEOREM OrdersAreKept == Spec => [](TypeOK /\ OrderInvariant)
  BY InitKeepsOrders, StepKeepsOrders, PTL DEF Spec

(* An approved order can be completed: what is pending of it is a receipt  *)
(* that every check accepts, wherever there is room for it.                *)
LEMMA PendingIsAccepted ==
    ASSUME TypeOK, OrderInvariant
    PROVE  PendingIsReceivable
  <1> SUFFICES ASSUME NEW o \in Orders, NEW l \in Locations,
                      status[o] \in {"APPROVED", "PARTIALLY_RECEIVED"},
                      WarehouseOf[l] = warehouse[o],
                      {l, warehouse[o]} \cap inactive = {},
                      warehouse[o] \notin underInventory,
                      \A p \in Products : balance[<<p, l>>] + pending(o, p) <= Capacity
               PROVE  /\ \E p \in Products : pending(o, p) > 0
                      /\ Accepted([order |-> o, quantity |-> [p \in Products |-> pending(o, p)],
                                   location |-> [p \in Products |-> l]])
    BY DEF PendingIsReceivable
  <1> DEFINE b == [order |-> o, quantity |-> [p \in Products |-> pending(o, p)],
                   location |-> [p \in Products |-> l]]
  <1>1. ASSUME NEW p \in Products
        PROVE  /\ items[o][p] \in 0..Capacity /\ receivedQuantity[o][p] \in 0..Capacity
               /\ receivedQuantity[o][p] <= items[o][p]
               /\ pending(o, p) \in 0..items[o][p]
               /\ pending(o, p) = 0 <=> receivedQuantity[o][p] = items[o][p]
    <2>1. receivedQuantity[o][p] <= items[o][p]
      BY DEF OrderInvariant, ReceivedIsExplained
    <2>2. items[o][p] \in 0..Capacity /\ receivedQuantity[o][p] \in 0..Capacity
      BY OrderShape
    <2>3. QED
      BY <2>1, <2>2, CapacityAssumption DEF pending
  <1>2. \E p \in Products : pending(o, p) > 0
    <2>1. CASE \E p \in Products : receivedQuantity[o][p] # items[o][p]
      BY <1>1, <2>1, CapacityAssumption
    <2>2. CASE \A p \in Products : receivedQuantity[o][p] = items[o][p]
      <3>1. \A p \in Products : ~(receivedQuantity[o][p] > 0)
        BY <2>2 DEF OrderInvariant, StatusMatchesReceipts
      <3>2. \E p \in Products : items[o][p] > 0
        BY ItemShape DEF OrderInvariant, ItemsAsked
      <3>3. QED
        BY <2>2, <3>1, <3>2
    <2>3. QED
      BY <2>1, <2>2
  <1>3. /\ b.order = o /\ LinesOf(b) = {p \in Products : pending(o, p) > 0}
        /\ \A p \in Products : b.quantity[p] = pending(o, p) /\ b.location[p] = l
    BY DEF LinesOf, ProductsOf
  <1> HIDE DEF b
  <1>4. Receivable(b)
    <2>1. LinesOf(b) \subseteq ProductsOf(items[o])
      <3> SUFFICES ASSUME NEW p \in Products, pending(o, p) > 0 PROVE items[o][p] > 0
        BY <1>3 DEF ProductsOf
      <3>1. QED
        BY <1>1, CapacityAssumption
    <2>2. \A p \in LinesOf(b) :
             /\ WarehouseOf[b.location[p]] = warehouse[o]
             /\ b.location[p] \notin inactive
             /\ b.quantity[p] <= pending(o, p)
      BY <1>1, <1>3, CapacityAssumption
    <2>3. status[o] \in {"APPROVED", "PARTIALLY_RECEIVED"} /\ warehouse[o] \notin inactive
      OBVIOUS
    <2>4. QED
      BY <1>3, <2>1, <2>2, <2>3 DEF Receivable
  <1>5. ASSUME NEW p \in LinesOf(b)
        PROVE  EndpointsUsable(inactive, Entry(b, p)) /\ Unlocked(underInventory, Entry(b, p))
    <2>1. Entry(b, p).source = NoLocation /\ Entry(b, p).destination = l
      BY <1>3, <1>5 DEF Entry, Command
    <2>2. Endpoints(Entry(b, p)) = {l}
      BY <2>1, NoLocationAssumption DEF Endpoints
    <2>3. WarehousesOf(Entry(b, p)) = {warehouse[o]}
      BY <2>2 DEF WarehousesOf
    <2>4. QED
      BY <2>2, <2>3 DEF EndpointsUsable, Unlocked
  <1>6. ASSUME NEW c \in Cells
        PROVE  balance[c] + Delivered(b, c) <= Capacity
    <2>1. /\ c[1] \in Products /\ c = <<c[1], c[2]>> /\ balance[c] \in 0..Capacity
          /\ Delivered(b, c) = IF c[2] = l THEN pending(o, c[1]) ELSE 0
      BY <1>3 DEF TypeOK, Balances, Cells, Delivered
    <2>2. CASE c[2] = l
      BY <2>1, <2>2
    <2>3. CASE c[2] # l
      BY <2>1, <2>3, CapacityAssumption
    <2>4. QED
      BY <2>2, <2>3
  <1>7. EntryAccepted(b)
    BY <1>5, <1>6 DEF EntryAccepted, Fits
  <1>8. QED
    BY <1>2, <1>4, <1>7 DEF Accepted, b

(* ReceiptsAgree: the status of an order, its received quantities, its     *)
(* receipts and the entries into the stock tell the same, whatever         *)
(* requests overlap, and what is pending can be received.                  *)
THEOREM ReceiptsStayTrue == Spec => []ReceiptsAgree
  <1>1. TypeOK /\ OrderInvariant => ReceiptsAgree
    BY PendingIsAccepted DEF ReceiptsAgree, OrderInvariant
  <1>2. QED
    BY <1>1, OrdersAreKept, PTL

-----------------------------------------------------------------------------
(* The keys.                                                               *)

(* An answer that is true of the rows leaves the keys as they are.         *)
LEMMA ReplyKeepsKeys ==
    ASSUME TypeOK, KeyInvariant, UNCHANGED receipts,
           NEW r \in Requests, NEW a \in Answers, Reply(r, a),
           a = "RECEIPT" => \E i \in DOMAIN receipts : receipts[i] = body[r],
           a = "RECEIPT_DUPLICATE_REQUEST" =>
               \E i \in DOMAIN receipts :
                   receipts[i].key = body[r].key /\ receipts[i] # body[r]
    PROVE  KeyInvariant'
  <1>1. /\ answer' = [answer EXCEPT ![r] = a]
        /\ pc' = [pc EXCEPT ![r] = "answered"]
        /\ found' = [found EXCEPT ![r] = NoReceipt]
        /\ body' = body
    BY DEF Reply
  <1>2. KeyReceivesOnce'
    BY DEF KeyInvariant, KeyReceivesOnce
  <1>3. AnswerIsRecorded'
    BY <1>1 DEF TypeOK, KeyInvariant, AnswerIsRecorded
  <1>4. FoundIsRow'
    BY <1>1 DEF TypeOK, KeyInvariant, FoundIsRow
  <1>5. DuplicateHasRow'
    BY <1>1 DEF TypeOK, KeyInvariant, DuplicateHasRow
  <1>6. ReuseMetOther'
    BY <1>1 DEF TypeOK, KeyInvariant, ReuseMetOther
  <1>7. QED
    BY <1>2, <1>3, <1>4, <1>5, <1>6 DEF KeyInvariant

(* So does the answer to a retry, given from a row stored under its key.   *)
LEMMA RetryKeepsKeys ==
    ASSUME TypeOK, KeyInvariant, UNCHANGED receipts,
           NEW r \in Requests, NEW i \in DOMAIN receipts, receipts[i].key = body[r].key,
           resolveIdempotency(r, receipts[i])
    PROVE  KeyInvariant'
  <1>1. CASE receipts[i] = body[r]
    <2>1. Reply(r, "RECEIPT") /\ "RECEIPT" \in Answers
      BY <1>1 DEF resolveIdempotency, Answers
    <2>2. QED
      BY <1>1, <2>1, ReplyKeepsKeys
  <1>2. CASE receipts[i] # body[r]
    <2>1. Reply(r, "RECEIPT_DUPLICATE_REQUEST") /\ "RECEIPT_DUPLICATE_REQUEST" \in Answers
      BY <1>2 DEF resolveIdempotency, Answers
    <2>2. QED
      BY <1>2, <2>1, ReplyKeepsKeys
  <1>3. QED
    BY <1>1, <1>2

LEMMA CommitKeepsKeys ==
    ASSUME TypeOK, KeyInvariant, NEW r \in Requests, Commit(r)
    PROVE  KeyInvariant'
  <1> DEFINE n == Len(receipts)
             b == body[r]
  <1>1. /\ receipts \in Seq(Bodies) /\ n \in Nat /\ b \in Bodies
        /\ receipts' = Append(receipts, b)
        /\ Existing(b.key) = NoReceipt
        /\ Reply(r, "RECEIPT")
    <2>1. receipts \in Seq(Bodies)
      BY DEF TypeOK
    <2>2. Existing(b.key) = NoReceipt /\ Reply(r, "RECEIPT")
      BY DEF Commit
    <2>3. b \in Bodies /\ receipts' = Append(receipts, b)
      BY CommitWrites DEF Receive
    <2>4. QED
      BY <2>1, <2>2, <2>3
  <1>2. /\ DOMAIN receipts = 1..n /\ DOMAIN receipts' = 1..(n + 1)
        /\ \A i \in 1..n : receipts'[i] = receipts[i]
        /\ receipts'[n + 1] = b
    BY <1>1
  <1>3. \A i \in 1..n : receipts[i].key # b.key
    <2>1. Existing(b.key) \notin Bodies
      BY <1>1
    <2>2. \A i \in DOMAIN receipts : receipts[i].key # b.key
      BY <2>1, ExistingIsRow, Zenon
    <2>3. QED
      BY <1>2, <2>2
  <1>4. /\ answer' = [answer EXCEPT ![r] = "RECEIPT"]
        /\ pc' = [pc EXCEPT ![r] = "answered"]
        /\ found' = [found EXCEPT ![r] = NoReceipt]
        /\ body' = body
    BY <1>1 DEF Reply
  <1> HIDE DEF n
  <1>5. KeyReceivesOnce'
    <2> SUFFICES ASSUME NEW i \in 1..(n + 1), NEW j \in 1..(n + 1),
                        receipts'[i].key = receipts'[j].key
                 PROVE  i = j
      BY <1>2 DEF KeyReceivesOnce
    <2>1. i \in 1..n \/ i = n + 1
      BY <1>1 DEF n
    <2>2. j \in 1..n \/ j = n + 1
      BY <1>1 DEF n
    <2>3. QED
      BY <1>2, <1>3, <2>1, <2>2 DEF KeyInvariant, KeyReceivesOnce
  <1>6. \A i \in DOMAIN receipts : i \in DOMAIN receipts' /\ receipts'[i] = receipts[i]
    BY <1>1, <1>2
  <1>7. AnswerIsRecorded'
    <2>1. \E i \in DOMAIN receipts' : receipts'[i] = body'[r]
      BY <1>1, <1>2, <1>4
    <2>2. \A q \in Requests \ {r} : answer'[q] = answer[q]
      BY <1>4 DEF TypeOK
    <2>3. QED
      BY <1>4, <1>6, <2>1, <2>2 DEF KeyInvariant, AnswerIsRecorded
  <1>8. FoundIsRow'
    BY <1>4, <1>6 DEF TypeOK, KeyInvariant, FoundIsRow
  <1>9. DuplicateHasRow'
    BY <1>4, <1>6 DEF TypeOK, KeyInvariant, DuplicateHasRow
  <1>10. ReuseMetOther'
    BY <1>4, <1>6 DEF TypeOK, KeyInvariant, ReuseMetOther
  <1>11. QED
    BY <1>5, <1>7, <1>8, <1>9, <1>10 DEF KeyInvariant

LEMMA HandlerKeepsKeys ==
    ASSUME TypeOK, KeyInvariant, NEW r \in Requests, Send(r) \/ Handle(r) \/ Crash(r)
    PROVE  KeyInvariant'
  <1> USE DEF KeyInvariant, KeyReceivesOnce, AnswerIsRecorded, FoundIsRow, DuplicateHasRow,
              ReuseMetOther, durable, receiptVars
  <1>1. CASE Send(r)
    BY <1>1 DEF TypeOK, Send
  <1>2. CASE BeginReceipt(r)
    <2>1. /\ found' = [found EXCEPT ![r] = Existing(body[r].key)]
          /\ pc' = [pc EXCEPT ![r] = "inTransaction"]
          /\ UNCHANGED <<receipts, body, answer>>
      BY <1>2 DEF BeginReceipt
    <2>2. Existing(body[r].key) # NoReceipt =>
            \E i \in DOMAIN receipts :
                receipts[i] = Existing(body[r].key) /\ receipts[i].key = body[r].key
      BY ExistingIsRow
    <2>3. QED
      BY <2>1, <2>2 DEF TypeOK
  <1>3. CASE ReturnExisting(r)
    <2>1. PICK i \in DOMAIN receipts :
            receipts[i] = found[r] /\ receipts[i].key = body[r].key
      BY <1>3 DEF ReturnExisting
    <2>2. resolveIdempotency(r, receipts[i]) /\ UNCHANGED receipts
      BY <1>3, <2>1 DEF ReturnExisting
    <2>3. QED
      BY <2>1, <2>2, RetryKeepsKeys
  <1>4. CASE Refuse(r) \/ RawConflict(r) \/ Crash(r) \/ (Conflict(r) /\ ~(attempt[r] < MaxAttempts))
    <2>1. PICK a \in {"REFUSED", "UNHANDLED_CONFLICT", "LOST"} : Reply(r, a)
      BY <1>4, Zenon DEF Refuse, RawConflict, Crash, Conflict
    <2>2. UNCHANGED receipts
      BY <1>4 DEF Refuse, RawConflict, Crash, Conflict
    <2>3. a \in Answers /\ a # "RECEIPT" /\ a # "RECEIPT_DUPLICATE_REQUEST"
      BY DEF Answers
    <2>4. QED
      BY <2>1, <2>2, <2>3, ReplyKeepsKeys
  <1>5. CASE Commit(r)
    BY <1>5, CommitKeepsKeys
  <1>6. CASE UniqueViolation(r)
    <2>1. \E i \in DOMAIN receipts : receipts[i].key = body[r].key
      BY <1>6, ExistingIsRow DEF UniqueViolation
    <2>2. pc' = [pc EXCEPT ![r] = "duplicate"] /\ UNCHANGED <<receipts, body, found, answer>>
      BY <1>6 DEF UniqueViolation
    <2>3. QED
      BY <2>1, <2>2 DEF TypeOK
  <1>7. CASE ResolveDuplicate(r)
    <2>1. PICK i \in DOMAIN receipts :
            receipts[i] = Existing(body[r].key) /\ receipts[i].key = body[r].key
      BY <1>7, ExistingIsRow DEF ResolveDuplicate
    <2>2. resolveIdempotency(r, receipts[i]) /\ UNCHANGED receipts
      BY <1>7, <2>1 DEF ResolveDuplicate
    <2>3. QED
      BY <2>1, <2>2, RetryKeepsKeys
  <1>8. CASE Conflict(r) /\ attempt[r] < MaxAttempts
    <2>1. /\ pc' = [pc EXCEPT ![r] = "ready"]
          /\ found' = [found EXCEPT ![r] = NoReceipt]
          /\ UNCHANGED <<body, answer>>
      BY <1>8, Zenon DEF Conflict
    <2>2. UNCHANGED receipts
      BY <1>8 DEF Conflict
    <2>3. QED
      BY <2>1, <2>2 DEF TypeOK
  <1>9. QED
    BY <1>1, <1>2, <1>3, <1>4, <1>5, <1>6, <1>7, <1>8 DEF Handle

LEMMA UnchangedKeepsKeys ==
    ASSUME KeyInvariant, UNCHANGED <<receipts, handlerVars>>
    PROVE  KeyInvariant'
  BY DEF KeyInvariant, KeyReceivesOnce, AnswerIsRecorded, FoundIsRow, DuplicateHasRow, ReuseMetOther,
         handlerVars

LEMMA KeyInit == Init => KeyInvariant
  BY DEF Init, KeyInvariant, KeyReceivesOnce, AnswerIsRecorded, FoundIsRow, DuplicateHasRow,
         ReuseMetOther

(* The inductive invariant of the keys, in every reachable state.          *)
THEOREM KeysAreConsistent == Spec => []KeyInvariant
  <1>1. TypeOK /\ KeyInvariant /\ [Next]_vars => KeyInvariant'
    <2> SUFFICES ASSUME TypeOK, KeyInvariant, [Next]_vars PROVE KeyInvariant'
      OBVIOUS
    <2>1. CASE UNCHANGED vars
      BY <2>1, UnchangedKeepsKeys DEF vars, receiptVars
    <2>2. CASE \E o \in Orders, w \in Warehouses, itemList \in ItemChoices : create(o, w, itemList)
      <3>1. UNCHANGED <<receipts, handlerVars>>
        BY <2>2 DEF create, orderOnly, receiptVars
      <3>2. QED
        BY <3>1, UnchangedKeepsKeys
    <2>3. CASE \E t \in Clients : ClientStep(t)
      <3>1. UNCHANGED <<receipts, handlerVars>>
        BY <2>3 DEF ClientStep, BeginUpdate, BeginTransition, CommitUpdate, CommitTransition,
                    Rollback, orderOnly, receiptVars
      <3>2. QED
        BY <3>1, UnchangedKeepsKeys
    <2>4. CASE \E r \in Requests : Send(r) \/ Handle(r) \/ Crash(r)
      BY <2>4, HandlerKeepsKeys
    <2>5. CASE OtherServices
      <3>1. UNCHANGED <<receipts, handlerVars>>
        BY <2>5 DEF OtherServices, Movement, StartCount, CloseCount, UpdateStatus, purchasing,
                    receiptVars
      <3>2. QED
        BY <3>1, UnchangedKeepsKeys
    <2>6. QED
      BY <2>1, <2>2, <2>3, <2>4, <2>5 DEF Next
  <1>2. QED
    BY <1>1, KeyInit, OrdersAreKept, PTL DEF Spec

(* A key receives once, a receipt answered is recorded as it was asked     *)
(* for, and a repetition is never told that its own key is taken.          *)
THEOREM KeysKeepTheirPromise == Spec => []KeysAreSound
  <1>1. KeyInvariant => KeysAreSound
    <2> SUFFICES ASSUME KeyInvariant PROVE KeysAreSound
      OBVIOUS
    <2>1. ReplayIsNotRefused
      BY DEF KeyInvariant, KeyReceivesOnce, ReuseMetOther, ReplayIsNotRefused
    <2>2. QED
      BY <2>1 DEF KeyInvariant, KeysAreSound
  <1>2. QED
    BY <1>1, KeysAreConsistent, PTL

-----------------------------------------------------------------------------
(* Late writes.                                                            *)

(* What one step may do to the content and to the status of an order.      *)
DraftsEdited(o) ==
    status[o] \notin {"NONE", "DRAFT"} => warehouse'[o] = warehouse[o] /\ items'[o] = items[o]
Path(o) ==
    status'[o] # status[o] =>
        <<status[o], status'[o]>> \in
            {<<"NONE", "DRAFT">>, <<"DRAFT", "PENDING_APPROVAL">>,
             <<"PENDING_APPROVAL", "APPROVED">>, <<"PARTIALLY_RECEIVED", "RECEIVED">>}
            \cup ({"APPROVED"} \X {"PARTIALLY_RECEIVED", "RECEIVED"})
            \cup ({"DRAFT", "PENDING_APPROVAL", "APPROVED"} \X {"CANCELLED"})

LEMMA ClientsKeepPaths ==
    ASSUME TypeOK, OrderInvariant, NEW t \in Clients, ClientStep(t), NEW x \in Orders
    PROVE  DraftsEdited(x) /\ Path(x)
  <1>1. CASE UNCHANGED orderVars
    BY <1>1 DEF orderVars, DraftsEdited, Path
  <1>2. CASE CommitUpdate(t)
    BY <1>2 DEF TypeOK, CommitUpdate, DraftsEdited, Path
  <1>3. CASE CommitTransition(t)
    <2>1. PICK o \in Orders, op \in {"submit", "approve", "cancel"} :
              /\ status[o] \in SourcesOf(op)
              /\ status' = [status EXCEPT ![o] = TargetOf(op)]
      BY <1>3, CommitTransitionMoves DEF OrderInvariant
    <2>2. UNCHANGED <<warehouse, items>>
      BY <1>3 DEF CommitTransition
    <2>3. status'[x] = status[x] \/ (x = o /\ status'[x] = TargetOf(op))
      BY <2>1 DEF TypeOK
    <2>4. QED
      BY <2>1, <2>2, <2>3 DEF DraftsEdited, Path, SourcesOf, TargetOf
  <1>4. QED
    BY <1>1, <1>2, <1>3 DEF ClientStep, BeginUpdate, BeginTransition, Rollback

LEMMA StepsKeepPaths ==
    ASSUME TypeOK, OrderInvariant, [Next]_vars, NEW x \in Orders
    PROVE  DraftsEdited(x) /\ Path(x)
  <1>1. CASE UNCHANGED orderVars
    BY <1>1 DEF orderVars, DraftsEdited, Path
  <1>2. ASSUME NEW o \in Orders, NEW w \in Warehouses, NEW itemList \in ItemChoices,
               create(o, w, itemList)
        PROVE  DraftsEdited(x) /\ Path(x)
    BY <1>2 DEF TypeOK, create, DraftsEdited, Path
  <1>3. ASSUME NEW r \in Requests, Commit(r)
        PROVE  DraftsEdited(x) /\ Path(x)
    <2>1. PICK b \in Bodies : Accepted(b) /\ Receive(b)
      BY <1>3, CommitWrites
    <2>2. b.order \in Orders /\ status[b.order] \in {"APPROVED", "PARTIALLY_RECEIVED"}
      BY <2>1, BodyShape DEF Accepted, Receivable
    <2>3. /\ UNCHANGED <<warehouse, items>>
          /\ \/ status'[x] = status[x]
             \/ x = b.order /\ status'[x] \in {"RECEIVED", "PARTIALLY_RECEIVED"}
      BY <2>1, <2>2 DEF TypeOK, Receive, NextStatus
    <2>4. QED
      BY <2>2, <2>3 DEF DraftsEdited, Path
  <1>4. OtherServices => UNCHANGED orderVars
    BY DEF OtherServices, Movement, StartCount, CloseCount, UpdateStatus, purchasing
  <1>5. \A r \in Requests : Send(r) \/ Handle(r) \/ Crash(r) => Commit(r) \/ UNCHANGED orderVars
    BY OnlyCommitWrites DEF durable
  <1>6. QED
    BY <1>1, <1>2, <1>3, <1>4, <1>5, ClientsKeepPaths DEF Next, vars

(* LateWritesAreRefused: an update, submission, approval or cancellation   *)
(* that read an order before another request moved it on changes neither   *)
(* what was submitted nor the order of the statuses.                       *)
THEOREM LateWritesChangeNothing == Spec => LateWritesAreRefused
  <1>1. TypeOK /\ OrderInvariant /\ [Next]_vars =>
            /\ [\A o \in Orders : DraftsEdited(o)]_orderVars
            /\ [\A o \in Orders : Path(o)]_status
    BY StepsKeepPaths
  <1>2. Spec => /\ [][\A o \in Orders : DraftsEdited(o)]_orderVars
                /\ [][\A o \in Orders : Path(o)]_status
    BY <1>1, OrdersAreKept, PTL DEF Spec
  <1>3. QED
    BY <1>2 DEF LateWritesAreRefused, OnlyDraftsAreEdited, StatusPath, DraftsEdited, Path

-----------------------------------------------------------------------------
(* The contract of stock.                                                  *)

(* The instance of the contract speaks of the same cells and amounts.      *)
LEMMA SameContract ==
    /\ Contract!Cells = Cells
    /\ Contract!Balances = Balances /\ Contract!NoAmount = NoAmount
    /\ \A c : Contract!Open(c) <=> WarehouseOf[c[2]] \notin underInventory
  BY DEF Contract!Cells, Contract!Balances, Contract!NoAmount, Contract!Open,
         Cells, Balances, NoAmount

(* Goods enter an unlocked warehouse only, and stock only grows.           *)
LEMMA CommitImplements ==
    ASSUME TypeOK, TypeOK', NEW r \in Requests, Commit(r)
    PROVE  Contract!Move
  <1>1. PICK b \in Bodies : Accepted(b) /\ Receive(b)
    BY CommitWrites
  <1>2. balance' = [c \in Cells |-> balance[c] + Delivered(b, c)] /\ UNCHANGED underInventory
    BY <1>1 DEF Receive, environmentVars
  <1>3. ASSUME NEW c \in Cells, balance'[c] # balance[c]
        PROVE  WarehouseOf[c[2]] \notin underInventory /\ balance'[c] > balance[c]
    <2>1. /\ c[1] \in Products /\ c[2] \in Locations
          /\ balance[c] \in 0..Capacity /\ b.quantity[c[1]] \in 0..Capacity
      BY BodyShape DEF TypeOK, Balances, Cells
    <2>2. balance'[c] = balance[c] + Delivered(b, c)
      BY <1>2
    <2>3. b.location[c[1]] = c[2] /\ Delivered(b, c) = b.quantity[c[1]] /\ b.quantity[c[1]] > 0
      BY <1>3, <2>1, <2>2, CapacityAssumption DEF Delivered
    <2>4. c[1] \in LinesOf(b)
      BY <2>1, <2>3 DEF LinesOf, ProductsOf
    <2>5. Unlocked(underInventory, Entry(b, c[1]))
      BY <1>1, <2>4 DEF Accepted, EntryAccepted
    <2>6. WarehouseOf[c[2]] \in WarehousesOf(Entry(b, c[1]))
      BY <2>1, <2>3, WarehouseOfEndpoint DEF Entry, Command
    <2>7. balance'[c] > balance[c]
      BY <2>1, <2>2, <2>3, CapacityAssumption
    <2>8. QED
      BY <2>5, <2>6, <2>7 DEF Unlocked
  <1>4. QED
    BY <1>2, <1>3, SameContract DEF TypeOK, Contract!Move, NoAmount, Cells

LEMMA MovementImplements ==
    ASSUME TypeOK, TypeOK', NEW cmd \in Commands, Movement(cmd)
    PROVE  Contract!Move
  <1>1. /\ balance \in Balances /\ balance' \in Balances /\ NoAmount \in Amounts
        /\ Unlocked(underInventory, cmd) /\ Sufficient(balance, NoAmount, cmd, 0)
        /\ balance' = Moved(balance, cmd) /\ UNCHANGED underInventory
    BY DEF TypeOK, Movement, environmentVars, NoAmount, Amounts
  <1>2. ASSUME NEW c \in Cells, balance'[c] # balance[c]
        PROVE  /\ WarehouseOf[c[2]] \notin underInventory
               /\ balance'[c] > balance[c] \/ balance'[c] >= NoAmount[c]
    BY <1>1, <1>2, MovementIsLocal DEF Unlocked
  <1>3. QED
    BY <1>1, <1>2, SameContract DEF Contract!Move, NoAmount, Cells

LEMMA StepImplements ==
    ASSUME TypeOK, TypeOK', [Next]_vars
    PROVE  [Contract!Next]_(Contract!vars)
  <1>1. CASE UNCHANGED <<balance, environmentVars>>
    BY <1>1 DEF environmentVars, Contract!vars
  <1>2. ASSUME NEW w \in Warehouses, StartCount(w) \/ CloseCount(w)
        PROVE  Contract!Next
    <2>1. Contract!OpenCount(w) \/ Contract!CloseCount(w)
      BY <1>2 DEF StartCount, CloseCount, Contract!OpenCount, Contract!CloseCount
    <2>2. QED
      BY <2>1 DEF Contract!Next
  <1>3. ASSUME NEW x \in Switchable, UpdateStatus(x)
        PROVE  UNCHANGED Contract!vars
    BY <1>3 DEF UpdateStatus, Contract!vars
  <1>4. CASE OtherServices
    BY <1>2, <1>3, <1>4, MovementImplements DEF OtherServices, Contract!Next
  <1>5. \A r \in Requests : Send(r) \/ Handle(r) \/ Crash(r) =>
            Contract!Move \/ UNCHANGED <<balance, environmentVars>>
    BY OnlyCommitWrites, CommitImplements DEF durable
  <1>6. ASSUME NEW t \in Clients, ClientStep(t)
        PROVE  UNCHANGED <<balance, environmentVars>>
    BY <1>6 DEF ClientStep, BeginUpdate, BeginTransition, CommitUpdate, CommitTransition,
                Rollback, orderOnly
  <1>7. QED
    BY <1>1, <1>4, <1>5, <1>6 DEF Next, vars, create, orderOnly, Contract!Next

(* ImplementsContract: receipts, beside the movements and counts of        *)
(* others, keep the contract of stock.                                     *)
THEOREM PurchasingKeepsContract == Spec => ImplementsContract
  <1>1. Init => Contract!Init
    BY InitKeepsOrders, SameContract DEF Init, TypeOK, Contract!Init
  <1>2. TypeOK /\ TypeOK' /\ [Next]_vars => [Contract!Next]_(Contract!vars)
    BY StepImplements
  <1>3. Spec => Contract!Spec
    BY <1>1, <1>2, OrdersAreKept, PTL DEF Spec, Contract!Spec
  <1>4. QED
    BY <1>3 DEF ImplementsContract
=============================================================================
