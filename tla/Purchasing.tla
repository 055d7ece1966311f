----------------------------- MODULE Purchasing -----------------------------
(***************************************************************************)
(* Purchase orders and what arrives for them: PurchaseOrdersService and    *)
(* PurchaseReceiptsService, beside manual movements and physical counts of *)
(* the stock the receipts enter.                                           *)
(*                                                                         *)
(* update, submit, approve and cancel run at READ COMMITTED: they read the *)
(* order without a lock and write it later, each on the condition of the   *)
(* status it read; so each is two steps.  A receipt is a SERIALIZABLE      *)
(* transaction that locks the order; it is split like a settlement of      *)
(* Finance, because its handler sees which way the transaction ends.       *)
(* Suppliers, costs and texts are left out.                                *)
(***************************************************************************)
EXTENDS StockRules, Sequences, Functions

CONSTANTS
    Orders,       \* purchase order ids
    Clients,      \* users whose requests on orders may overlap
    NoRequest,    \* a client with no transaction open
    ItemChoices,  \* the item lists a client may ask for: quantity per product
    Requests,     \* logical receipt requests
    Keys,         \* idempotency keys; a receipt always carries one
    Bodies,       \* receipts a client may send: order, lines, details and key
    Details,      \* notes and discrepancy reasons of a receipt
    NoReceipt,    \* no row under a key
    MaxSends,     \* how often a client sends one receipt (bound)
    Switchable,   \* catalogue rows whose isActive changes (bound)
    Elsewhere,    \* manual movements posted meanwhile (bound)
    Countable     \* warehouses that are counted meanwhile (bound)

Lines == [Products -> 0..Capacity]

ASSUME PurchasingFiniteAssumption == IsFiniteSet(Locations)
ASSUME PurchasingWarehousesAssumption == Warehouses # {}
ASSUME ItemChoicesAssumption ==
    ItemChoices \subseteq {i \in Lines : \E p \in Products : i[p] > 0}
ASSUME BodiesAssumption ==
    Bodies \subseteq {b \in [order : Orders, quantity : Lines, location : [Products -> Locations],
                             details : Details, key : Keys] :
                        \E p \in Products : b.quantity[p] > 0}
ASSUME NoReceiptAssumption == NoReceipt \notin Bodies
ASSUME MaxSendsAssumption == MaxSends \in Nat \ {0}
ASSUME SwitchableAssumption == Switchable \subseteq Products \cup Locations \cup Warehouses
ASSUME BoundsAssumption == Elsewhere \subseteq Commands /\ Countable \subseteq Warehouses

MaxAttempts == 3

VARIABLES
    status,            \* PurchaseOrder.status; NONE before the row exists
    warehouse,         \* PurchaseOrder.warehouseId
    items,             \* PurchaseOrderItem.quantity per product, 0 for no item
    receivedQuantity,  \* PurchaseOrderItem.receivedQuantity per product
    receipts,          \* PurchaseReceipt rows with their items, in order of creation
    entered,           \* quantity of the PURCHASE_RECEIPT entry movements of order and cell
    request,           \* what each client's open transaction has read and will write
    body,              \* what each receipt request asks for; a resend repeats it
    pc,                \* where the handler of the receipt request is
    attempt,           \* attempt of the retry loop
    sends,             \* times the client has sent the request
    found,             \* the row the transaction's own lookup returned
    answer,            \* the last answer of the handler
    balance,           \* InventoryBalance.quantity
    inactive,          \* products, locations and warehouses with isActive = false
    underInventory     \* warehouses with a count that locks movements

orderVars == <<status, warehouse, items>>
receiptVars == <<receivedQuantity, receipts, entered>>
handlerVars == <<body, pc, attempt, sends, found, answer>>
environmentVars == <<inactive, underInventory>>
vars == <<orderVars, receiptVars, request, handlerVars, balance, environmentVars>>

Statuses == {"DRAFT", "PENDING_APPROVAL", "APPROVED", "PARTIALLY_RECEIVED",
             "RECEIVED", "CANCELLED"}
NoItems == [p \in Products |-> 0]
RequestRecords == [op : {"update", "submit", "approve", "cancel"}, order : Orders,
                   from : Statuses, warehouse : Warehouses, items : ItemChoices]
ASSUME NoRequestAssumption == NoRequest \notin RequestRecords

PC == {"unsent", "ready", "inTransaction", "duplicate", "answered"}
Answers == {"NONE", "RECEIPT", "REFUSED", "RECEIPT_DUPLICATE_REQUEST",
            "UNHANDLED_CONFLICT", "LOST"}

(* Types: quantities of rows are within their column.                      *)
TypeOK ==
    /\ status \in [Orders -> Statuses \cup {"NONE"}]
    /\ warehouse \in [Orders -> Warehouses]
    /\ items \in [Orders -> Lines]
    /\ receivedQuantity \in [Orders -> Lines]
    /\ receipts \in Seq(Bodies)
    /\ entered \in [Orders -> Amounts]
    /\ request \in [Clients -> RequestRecords \cup {NoRequest}]
    /\ body \in [Requests -> Bodies]
    /\ pc \in [Requests -> PC]
    /\ attempt \in [Requests -> 1..MaxAttempts]
    /\ sends \in [Requests -> 0..MaxSends]
    /\ found \in [Requests -> Bodies \cup {NoReceipt}]
    /\ answer \in [Requests -> Answers]
    /\ balance \in Balances
    /\ inactive \in SUBSET Switchable
    /\ underInventory \in SUBSET Warehouses

Init ==
    /\ status = [o \in Orders |-> "NONE"]
    /\ warehouse \in [Orders -> {CHOOSE w \in Warehouses : TRUE}]
    /\ items = [o \in Orders |-> NoItems]
    /\ receivedQuantity = [o \in Orders |-> NoItems]
    /\ receipts = <<>>
    /\ entered = [o \in Orders |-> NoAmount]
    /\ request = [t \in Clients |-> NoRequest]
    /\ body \in [Requests -> Bodies]
    /\ pc = [r \in Requests |-> "unsent"]
    /\ attempt = [r \in Requests |-> 1]
    /\ sends = [r \in Requests |-> 0]
    /\ found = [r \in Requests |-> NoReceipt]
    /\ answer = [r \in Requests |-> "NONE"]
    /\ balance = NoAmount
    /\ inactive = {}
    /\ underInventory = {}

-----------------------------------------------------------------------------
(* Orders: PurchaseOrdersService.                                          *)

ProductsOf(itemList) == {p \in Products : itemList[p] > 0}

(* ensureHeaderReferences and prepareItems.                                *)
ReferencesActive(w, itemList) ==
    /\ w \notin inactive
    /\ ProductsOf(itemList) \cap inactive = {}

orderOnly == <<receiptVars, handlerVars, balance, environmentVars>>

create(o, w, itemList) ==
    /\ status[o] = "NONE"
    /\ ReferencesActive(w, itemList)
    /\ status' = [status EXCEPT ![o] = "DRAFT"]
    /\ warehouse' = [warehouse EXCEPT ![o] = w]
    /\ items' = [items EXCEPT ![o] = itemList]
    /\ UNCHANGED <<request, orderOnly>>

(* A draft was read; its warehouse and items are merged with the body's.   *)
BeginUpdate(t, o, w, itemList) ==
    /\ request[t] = NoRequest
    /\ status[o] = "DRAFT"
    /\ ReferencesActive(w, itemList)
    /\ request' = [request EXCEPT ![t] =
         [op |-> "update", order |-> o, from |-> "DRAFT",
          warehouse |-> w, items |-> itemList]]
    /\ UNCHANGED <<orderVars, orderOnly>>

(* Fault: the write is not conditional on the status.                      *)
FaultCommitUpdateUnconditionally(t) ==
    /\ request[t] # NoRequest
    /\ request[t].op = "update"
    /\ warehouse' = [warehouse EXCEPT ![request[t].order] = request[t].warehouse]
    /\ items' = [items EXCEPT ![request[t].order] = request[t].items]
    /\ receivedQuantity' = [receivedQuantity EXCEPT ![request[t].order] = NoItems]
    /\ request' = [request EXCEPT ![t] = NoRequest]
    /\ UNCHANGED <<status, receipts, entered, handlerVars, balance, environmentVars>>

(* The conditional updateMany, then the items are deleted and recreated.   *)
CommitUpdate(t) ==
    /\ request[t] # NoRequest
    /\ request[t].op = "update"
    /\ status[request[t].order] = "DRAFT"
    /\ warehouse' = [warehouse EXCEPT ![request[t].order] = request[t].warehouse]
    /\ items' = [items EXCEPT ![request[t].order] = request[t].items]
    /\ receivedQuantity' = [receivedQuantity EXCEPT ![request[t].order] = NoItems]
    /\ request' = [request EXCEPT ![t] = NoRequest]
    /\ UNCHANGED <<status, receipts, entered, handlerVars, balance, environmentVars>>

(* The statuses submit, approve and cancel start from, and lead to.        *)
SourcesOf(op) ==
    CASE op = "submit" -> {"DRAFT"}
      [] op = "approve" -> {"PENDING_APPROVAL"}
      [] op = "cancel" -> {"DRAFT", "PENDING_APPROVAL", "APPROVED"}
TargetOf(op) ==
    CASE op = "submit" -> "PENDING_APPROVAL"
      [] op = "approve" -> "APPROVED"
      [] op = "cancel" -> "CANCELLED"

BeginTransition(t, o, op) ==
    /\ request[t] = NoRequest
    /\ status[o] \in SourcesOf(op)
    /\ op = "submit" => ProductsOf(items[o]) # {}
    /\ request' = [request EXCEPT ![t] =
         [op |-> op, order |-> o, from |-> status[o],
          warehouse |-> warehouse[o], items |-> items[o]]]
    /\ UNCHANGED <<orderVars, orderOnly>>

(* Fault: the write is not conditional on the status that was read.        *)
FaultCommitTransitionUnconditionally(t) ==
    /\ request[t] # NoRequest
    /\ request[t].op # "update"
    /\ status' = [status EXCEPT ![request[t].order] = TargetOf(request[t].op)]
    /\ request' = [request EXCEPT ![t] = NoRequest]
    /\ UNCHANGED <<warehouse, items, orderOnly>>

CommitTransition(t) ==
    /\ request[t] # NoRequest
    /\ request[t].op # "update"
    /\ status[request[t].order] = request[t].from
    /\ status' = [status EXCEPT ![request[t].order] = TargetOf(request[t].op)]
    /\ request' = [request EXCEPT ![t] = NoRequest]
    /\ UNCHANGED <<warehouse, items, orderOnly>>

(* The conditional update matched no row (409), or the connection died.    *)
Rollback(t) ==
    /\ request[t] # NoRequest
    /\ request' = [request EXCEPT ![t] = NoRequest]
    /\ UNCHANGED <<orderVars, orderOnly>>

-----------------------------------------------------------------------------
(* Receipts: PurchaseReceiptsService.                                      *)

pending(o, p) == items[o][p] - receivedQuantity[o][p]
LinesOf(b) == ProductsOf(b.quantity)
Entry(b, p) == Command("ENTRY", p, b.quantity[p], NoLocation, b.location[p])
Delivered(b, c) == IF b.location[c[1]] = c[2] THEN b.quantity[c[1]] ELSE 0

(* The checks of the locked order, its items and the locations.            *)
Receivable(b) ==
    /\ status[b.order] \in {"APPROVED", "PARTIALLY_RECEIVED"}
    /\ warehouse[b.order] \notin inactive
    /\ LinesOf(b) \subseteq ProductsOf(items[b.order])
    /\ \A p \in LinesOf(b) :
         /\ WarehouseOf[b.location[p]] = warehouse[b.order]
         /\ b.location[p] \notin inactive
         /\ b.quantity[p] <= pending(b.order, p)

(* applyPurchaseReceiptEntry for each line: an inactive product is allowed.*)
EntryAccepted(b) ==
    /\ \A p \in LinesOf(b) : EndpointsUsable(inactive, Entry(b, p))
                             /\ Unlocked(underInventory, Entry(b, p))
    /\ Fits([c \in Cells |-> balance[c] + Delivered(b, c)])

Accepted(b) == Receivable(b) /\ EntryAccepted(b)

Existing(k) ==
    IF \E i \in DOMAIN receipts : receipts[i].key = k
      THEN receipts[CHOOSE i \in DOMAIN receipts : receipts[i].key = k]
      ELSE NoReceipt

Reply(r, a) ==
    /\ pc' = [pc EXCEPT ![r] = "answered"]
    /\ answer' = [answer EXCEPT ![r] = a]
    /\ attempt' = [attempt EXCEPT ![r] = 1]
    /\ found' = [found EXCEPT ![r] = NoReceipt]
    /\ UNCHANGED <<body, sends>>

durable == <<orderVars, receiptVars, request, balance, environmentVars>>

Send(r) ==
    /\ pc[r] \in {"unsent", "answered"}
    /\ sends[r] < MaxSends
    /\ sends' = [sends EXCEPT ![r] = @ + 1]
    /\ pc' = [pc EXCEPT ![r] = "ready"]
    /\ answer' = [answer EXCEPT ![r] = "NONE"]
    /\ UNCHANGED <<durable, body, attempt, found>>

BeginReceipt(r) ==
    /\ pc[r] = "ready"
    /\ pc' = [pc EXCEPT ![r] = "inTransaction"]
    /\ found' = [found EXCEPT ![r] = Existing(body[r].key)]
    /\ UNCHANGED <<durable, body, attempt, sends, answer>>

(* The hash covers the order, the notes and the lines, sorted by item.     *)
resolveIdempotency(r, row) ==
    Reply(r, IF row = body[r] THEN "RECEIPT" ELSE "RECEIPT_DUPLICATE_REQUEST")

ReturnExisting(r) ==
    /\ pc[r] = "inTransaction"
    /\ found[r] # NoReceipt
    /\ resolveIdempotency(r, found[r])
    /\ UNCHANGED durable

Refuse(r) ==
    /\ pc[r] = "inTransaction"
    /\ found[r] = NoReceipt
    /\ ~Accepted(body[r])
    /\ Reply(r, "REFUSED")
    /\ UNCHANGED durable

(* Fault: the order counts as received when the lines of this receipt are. *)
FaultNextStatus(b, received) ==
    IF \A p \in LinesOf(b) : received[p] = items[b.order][p]
      THEN "RECEIVED" ELSE "PARTIALLY_RECEIVED"

NextStatus(b, received) ==
    IF \A p \in Products : received[p] = items[b.order][p]
      THEN "RECEIVED" ELSE "PARTIALLY_RECEIVED"

(* Fault: the received quantity is overwritten by that of the last receipt.*)
FaultNextReceived(b) ==
    [p \in Products |-> IF b.quantity[p] > 0 THEN b.quantity[p] ELSE receivedQuantity[b.order][p]]

NextReceived(b) == [p \in Products |-> receivedQuantity[b.order][p] + b.quantity[p]]

(* Receipt, items, stock entries, quantities and status: all or nothing.   *)
Receive(b) ==
    /\ receipts' = Append(receipts, b)
    /\ receivedQuantity' = [receivedQuantity EXCEPT ![b.order] = NextReceived(b)]
    /\ balance' = [c \in Cells |-> balance[c] + Delivered(b, c)]
    /\ entered' = [entered EXCEPT ![b.order] = [c \in Cells |-> @[c] + Delivered(b, c)]]
    /\ status' = [status EXCEPT ![b.order] = NextStatus(b, NextReceived(b))]
    /\ UNCHANGED <<warehouse, items, request, environmentVars>>

(* Fault: no unique index stops a key taken since the lookup.              *)
FaultCommitWithoutIndex(r) ==
    /\ pc[r] = "inTransaction"
    /\ found[r] = NoReceipt
    /\ Accepted(body[r])
    /\ Receive(body[r])
    /\ Reply(r, "RECEIPT")

Commit(r) ==
    /\ pc[r] = "inTransaction"
    /\ found[r] = NoReceipt
    /\ Existing(body[r].key) = NoReceipt
    /\ Accepted(body[r])
    /\ Receive(body[r])
    /\ Reply(r, "RECEIPT")

(* P2002: the key was taken after the transaction's own lookup.            *)
UniqueViolation(r) ==
    /\ pc[r] = "inTransaction"
    /\ found[r] = NoReceipt
    /\ Receivable(body[r])
    /\ Existing(body[r].key) # NoReceipt
    /\ pc' = [pc EXCEPT ![r] = "duplicate"]
    /\ UNCHANGED <<durable, body, attempt, sends, found, answer>>

(* findByIdempotency, outside any transaction.                             *)
ResolveDuplicate(r) ==
    /\ pc[r] = "duplicate"
    /\ resolveIdempotency(r, Existing(body[r].key))
    /\ UNCHANGED durable

(* Fault: conflicts are retried without counting the attempts.             *)
FaultConflictForever(r) ==
    /\ pc[r] = "inTransaction"
    /\ pc' = [pc EXCEPT ![r] = "ready"]
    /\ found' = [found EXCEPT ![r] = NoReceipt]
    /\ UNCHANGED <<durable, body, attempt, sends, answer>>

(* P2034 is retried twice, then thrown as it is.                           *)
Conflict(r) ==
    /\ pc[r] = "inTransaction"
    /\ IF attempt[r] < MaxAttempts
         THEN /\ pc' = [pc EXCEPT ![r] = "ready"]
              /\ attempt' = [attempt EXCEPT ![r] = @ + 1]
              /\ found' = [found EXCEPT ![r] = NoReceipt]
              /\ UNCHANGED <<body, sends, answer>>
         ELSE Reply(r, "UNHANDLED_CONFLICT")
    /\ UNCHANGED durable

(* 40001 from the raw FOR UPDATE or the raw upsert of the company's        *)
(* receipt counter arrives as P2010, which this loop does not retry.       *)
RawConflict(r) ==
    /\ pc[r] = "inTransaction"
    /\ found[r] = NoReceipt
    /\ Reply(r, "UNHANDLED_CONFLICT")
    /\ UNCHANGED durable

Crash(r) ==
    /\ pc[r] \in {"ready", "inTransaction", "duplicate"}
    /\ Reply(r, "LOST")
    /\ UNCHANGED durable

Handle(r) ==
    \/ BeginReceipt(r) \/ ReturnExisting(r) \/ Refuse(r) \/ Commit(r)
    \/ UniqueViolation(r) \/ ResolveDuplicate(r) \/ Conflict(r) \/ RawConflict(r)

-----------------------------------------------------------------------------
(* The same stock and catalogue in the hands of other services.            *)

purchasing == <<orderVars, receiptVars, request, handlerVars>>

Movement(cmd) ==
    /\ Usable(inactive, cmd)
    /\ Unlocked(underInventory, cmd)
    /\ Sufficient(balance, NoAmount, cmd, 0)
    /\ Fits(Moved(balance, cmd))
    /\ balance' = Moved(balance, cmd)
    /\ UNCHANGED <<purchasing, environmentVars>>

StartCount(w) ==
    /\ w \notin underInventory \cup inactive
    /\ underInventory' = underInventory \cup {w}
    /\ UNCHANGED <<purchasing, balance, inactive>>

CloseCount(w) ==
    /\ w \in underInventory
    /\ underInventory' = underInventory \ {w}
    /\ UNCHANGED <<purchasing, balance, inactive>>

UpdateStatus(x) ==
    /\ inactive' = IF x \in inactive THEN inactive \ {x} ELSE inactive \cup {x}
    /\ UNCHANGED <<purchasing, balance, underInventory>>

ClientStep(t) ==
    \/ \E o \in Orders, w \in Warehouses, itemList \in ItemChoices :
         BeginUpdate(t, o, w, itemList)
    \/ \E o \in Orders, op \in {"submit", "approve", "cancel"} : BeginTransition(t, o, op)
    \/ CommitUpdate(t) \/ CommitTransition(t) \/ Rollback(t)

OtherServices ==
    \/ \E cmd \in Elsewhere : Movement(cmd)
    \/ \E w \in Countable : StartCount(w) \/ CloseCount(w)
    \/ \E x \in Switchable : UpdateStatus(x)

Next ==
    \/ \E o \in Orders, w \in Warehouses, itemList \in ItemChoices : create(o, w, itemList)
    \/ \E t \in Clients : ClientStep(t)
    \/ \E r \in Requests : Send(r) \/ Handle(r) \/ Crash(r)
    \/ OtherServices

Spec == Init /\ [][Next]_vars

(* A handler that has begun goes on: Node runs its continuations and the   *)
(* database ends every transaction.                                        *)
FairSpec == Spec /\ \A r \in Requests : WF_vars(Handle(r))

-----------------------------------------------------------------------------
(* Properties.                                                             *)

(* Only drafts are editable: an update or transition that read an order    *)
(* before it moved on cannot change what was submitted and approved.       *)
OnlyDraftsAreEdited ==
    [][\A o \in Orders : status[o] \notin {"NONE", "DRAFT"} =>
          warehouse'[o] = warehouse[o] /\ items'[o] = items[o]]_orderVars

(* Orders move forward only; nothing is cancelled once goods arrived and   *)
(* nothing arrives for what is cancelled or not approved.                  *)
StatusPath ==
    [][\A o \in Orders : status'[o] # status[o] =>
          <<status[o], status'[o]>> \in
            {<<"NONE", "DRAFT">>, <<"DRAFT", "PENDING_APPROVAL">>,
             <<"PENDING_APPROVAL", "APPROVED">>, <<"PARTIALLY_RECEIVED", "RECEIVED">>}
            \cup ({"APPROVED"} \X {"PARTIALLY_RECEIVED", "RECEIVED"})
            \cup ({"DRAFT", "PENDING_APPROVAL", "APPROVED"} \X {"CANCELLED"})]_status

(* A request that read an order before another moved it on changes neither *)
(* its content nor its status out of turn.                                 *)
LateWritesAreRefused == OnlyDraftsAreEdited /\ StatusPath

(* The status says what the quantities say: RECEIVED when every item is    *)
(* complete, PARTIALLY_RECEIVED when something but not all arrived, any    *)
(* other status when nothing did.                                          *)
StatusMatchesReceipts ==
    \A o \in Orders :
        LET complete == \A p \in Products : receivedQuantity[o][p] = items[o][p]
            begun == \E p \in Products : receivedQuantity[o][p] > 0
        IN  /\ status[o] = "RECEIVED" <=> (complete /\ begun)
            /\ status[o] = "PARTIALLY_RECEIVED" <=> (begun /\ ~complete)

ReceiptTotal(o, p) ==
    SumFunction([i \in DOMAIN receipts |->
                    IF receipts[i].order = o THEN receipts[i].quantity[p] ELSE 0])
EnteredTotal(o, p) == SumFunction([l \in Locations |-> entered[o][<<p, l>>]])

(* What the order says has arrived, what its receipts say and what entered *)
(* the stock for it are the same, and never more than was ordered.         *)
ReceivedIsExplained ==
    \A o \in Orders, p \in Products :
        /\ receivedQuantity[o][p] = ReceiptTotal(o, p)
        /\ receivedQuantity[o][p] = EnteredTotal(o, p)
        /\ receivedQuantity[o][p] <= items[o][p]

(* An approved order can be completed: each pending quantity is accepted   *)
(* at any active location of an active, unlocked warehouse that has room   *)
(* for it, though products were switched off after the approval.           *)
PendingIsReceivable ==
    \A o \in Orders, l \in Locations :
        (/\ status[o] \in {"APPROVED", "PARTIALLY_RECEIVED"}
         /\ WarehouseOf[l] = warehouse[o]
         /\ {l, warehouse[o]} \cap inactive = {}
         /\ warehouse[o] \notin underInventory
         /\ \A p \in Products : balance[<<p, l>>] + pending(o, p) <= Capacity)
            => /\ \E p \in Products : pending(o, p) > 0
               /\ Accepted([order |-> o, quantity |-> [p \in Products |-> pending(o, p)],
                            location |-> [p \in Products |-> l]])

(* Order, receipts and stock tell the same, and what is pending of an      *)
(* approved order can be received.                                         *)
ReceiptsAgree ==
    TypeOK /\ StatusMatchesReceipts /\ ReceivedIsExplained /\ PendingIsReceivable

(* However often and by however many requests a key is sent, one receipt   *)
(* carries it, so the goods enter once.                                    *)
KeyReceivesOnce ==
    \A i, j \in DOMAIN receipts : receipts[i].key = receipts[j].key => i = j

(* A receipt answered to a request is recorded as it was asked for.        *)
AnswerIsRecorded ==
    \A r \in Requests : answer[r] = "RECEIPT" =>
        \E i \in DOMAIN receipts : receipts[i] = body[r]

(* A 409 for a reused key is told only to a request that differs from what *)
(* the key received, never to a repetition after a lost answer.            *)
ReplayIsNotRefused ==
    \A r \in Requests : answer[r] = "RECEIPT_DUPLICATE_REQUEST" =>
        \A i \in DOMAIN receipts : receipts[i] # body[r]

(* The promise of a key: one receipt, the one asked for, or an error that  *)
(* is true, however requests repeat, overlap and lose their answers.       *)
KeysAreSound == KeyReceivesOnce /\ AnswerIsRecorded /\ ReplayIsNotRefused

(* The retry loop ends: every receipt request sent is answered.            *)
SentIsAnswered ==
    \A r \in Requests : pc[r] = "ready" ~> pc[r] = "answered"

(* Receipts keep the contract of the stock; nothing is reserved here.      *)
Contract == INSTANCE StockContract WITH reserved <- NoAmount
ImplementsContract == Contract!Spec
=============================================================================
