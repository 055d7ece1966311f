----------------------------- MODULE Inventory -----------------------------
(***************************************************************************)
(* InventoryService: manual stock movements requested over HTTP, with      *)
(* their idempotency keys and retries, interleaved with the movements the  *)
(* other services make through the same routine and with the changes they  *)
(* make to the rows it reads.                                              *)
(*                                                                         *)
(* A SERIALIZABLE transaction is two steps: BeginTransaction takes its     *)
(* snapshot and looks the idempotency key up in it; the step that ends it  *)
(* (Commit, Refuse, ReturnExisting, UniqueViolation, Conflict) may come    *)
(* after any number of commits of others.  PostgreSQL commits a            *)
(* transaction only if its reads still hold, so Commit evaluates the       *)
(* checks in the state it commits in; when they no longer hold the         *)
(* transaction refuses or is aborted.                                      *)
(***************************************************************************)
EXTENDS StockRules

CONSTANTS
    Requests,     \* logical requests of the clients
    Keys,         \* idempotency keys
    NoKey,        \* a request without a key
    NoMovement,   \* no movement row
    Bodies,       \* the bodies a request may carry: [command, key]
    MaxSends,     \* how often a client sends one request (bound)
    Switchable    \* catalogue rows whose isActive changes (bound)

ASSUME NoKeyAssumption == NoKey \notin Keys
ASSUME NoMovementAssumption == NoMovement \notin Commands
ASSUME BodiesAssumption == Bodies \subseteq [command : Commands, key : Keys \cup {NoKey}]
ASSUME MaxSendsAssumption == MaxSends \in Nat \ {0}
ASSUME SwitchableAssumption == Switchable \subseteq Products \cup Locations \cup Warehouses

MaxAttempts == 3

VARIABLES
    balance,          \* InventoryBalance.quantity
    ledger,           \* per cell, quantities in minus quantities out of the StockMovement rows
    keyed,            \* unique index (companyId, idempotencyKey): the movement stored under a key
    reserved,         \* sum of the ACTIVE StockReservation rows per cell
    inactive,         \* products, locations and warehouses with isActive = false
    underInventory,   \* warehouses with a count that locks movements
    body,             \* what each request asks for; a resend repeats it
    pc,               \* where the handler of the request is
    attempt,          \* attempt of the retry loop
    sends,            \* times the client has sent the request
    found,            \* the movement the transaction's own lookup returned
    answer,           \* the last answer of the handler
    posted            \* StockMovement rows created for the request

stockVars == <<balance, ledger, reserved, underInventory>>
requestVars == <<body, pc, attempt, sends, found, answer, posted>>
vars == <<stockVars, keyed, inactive, requestVars>>

PC == {"unsent", "ready", "inTransaction", "duplicate", "answered"}
Answers == {"NONE", "MOVEMENT", "REFUSED", "IDEMPOTENCY_KEY_REUSED",
            "UNHANDLED_CONFLICT", "LOST"}

(* Types: balances within their column, one stored movement per key.       *)
TypeOK ==
    /\ balance \in Balances
    /\ ledger \in [Cells -> Int]
    /\ keyed \in [Keys -> Commands \cup {NoMovement}]
    /\ reserved \in Amounts
    /\ inactive \in SUBSET Switchable
    /\ underInventory \in SUBSET Warehouses
    /\ body \in [Requests -> Bodies]
    /\ pc \in [Requests -> PC]
    /\ attempt \in [Requests -> 1..MaxAttempts]
    /\ sends \in [Requests -> 0..MaxSends]
    /\ found \in [Requests -> Commands \cup {NoMovement}]
    /\ answer \in [Requests -> Answers]
    /\ posted \in [Requests -> Nat]

Init ==
    /\ balance = NoAmount
    /\ ledger = NoAmount
    /\ keyed = [k \in Keys |-> NoMovement]
    /\ reserved = NoAmount
    /\ inactive = {}
    /\ underInventory = {}
    /\ body \in [Requests -> Bodies]
    /\ pc = [r \in Requests |-> "unsent"]
    /\ attempt = [r \in Requests |-> 1]
    /\ sends = [r \in Requests |-> 0]
    /\ found = [r \in Requests |-> NoMovement]
    /\ answer = [r \in Requests |-> "NONE"]
    /\ posted = [r \in Requests |-> 0]

-----------------------------------------------------------------------------
(* The handler of one manual request.                                      *)

command(r) == body[r].command
key(r) == body[r].key

(* What the index holds under the request's key.                           *)
Existing(r) == IF key(r) = NoKey THEN NoMovement ELSE keyed[key(r)]

(* The checks of executeTransaction for a manual command.                  *)
Accepts(r) ==
    /\ Usable(inactive, command(r))
    /\ Unlocked(underInventory, command(r))
    /\ Sufficient(balance, reserved, command(r), 0)
    /\ Fits(Moved(balance, command(r)))

Reply(r, a) ==
    /\ pc' = [pc EXCEPT ![r] = "answered"]
    /\ answer' = [answer EXCEPT ![r] = a]
    /\ attempt' = [attempt EXCEPT ![r] = 1]
    /\ found' = [found EXCEPT ![r] = NoMovement]
    /\ UNCHANGED <<body, sends>>

(* The client sends the request, or sends it again because it never saw    *)
(* the answer; the handler starts a new retry loop (the locals of the last *)
(* one were dropped when it replied).                                      *)
Send(r) ==
    /\ pc[r] \in {"unsent", "answered"}
    /\ sends[r] < MaxSends
    /\ sends' = [sends EXCEPT ![r] = @ + 1]
    /\ pc' = [pc EXCEPT ![r] = "ready"]
    /\ answer' = [answer EXCEPT ![r] = "NONE"]
    /\ UNCHANGED <<stockVars, keyed, inactive, body, attempt, found, posted>>

BeginTransaction(r) ==
    /\ pc[r] = "ready"
    /\ pc' = [pc EXCEPT ![r] = "inTransaction"]
    /\ found' = [found EXCEPT ![r] = Existing(r)]
    /\ UNCHANGED <<stockVars, keyed, inactive, body, attempt, sends, answer, posted>>

(* Fault: whatever is stored under the key is returned.                    *)
FaultReplyAnyExisting(r, movement) == Reply(r, "MOVEMENT")

(* sameCommand decides between the stored movement and a 409.              *)
ReplyExisting(r, movement) ==
    Reply(r, IF movement = command(r) THEN "MOVEMENT" ELSE "IDEMPOTENCY_KEY_REUSED")

ReturnExisting(r) ==
    /\ pc[r] = "inTransaction"
    /\ found[r] # NoMovement
    /\ ReplyExisting(r, found[r])
    /\ UNCHANGED <<stockVars, keyed, inactive, posted>>

Refuse(r) ==
    /\ pc[r] = "inTransaction"
    /\ found[r] = NoMovement
    /\ ~Accepts(r)
    /\ Reply(r, "REFUSED")
    /\ UNCHANGED <<stockVars, keyed, inactive, posted>>

(* Fault: a movement with a source never reaches its destination.          *)
FaultPostDropsDestination(r) ==
    /\ balance' = IF command(r).source = NoLocation
                    THEN Moved(balance, command(r))
                    ELSE [c \in Cells |-> balance[c] - Out(command(r), c)]
    /\ ledger' = Moved(ledger, command(r))
    /\ keyed' = IF key(r) = NoKey THEN keyed ELSE [keyed EXCEPT ![key(r)] = command(r)]
    /\ posted' = [posted EXCEPT ![r] = @ + 1]

(* Balances, movement row and key become visible together.                 *)
Post(r) ==
    /\ balance' = Moved(balance, command(r))
    /\ ledger' = Moved(ledger, command(r))
    /\ keyed' = IF key(r) = NoKey THEN keyed ELSE [keyed EXCEPT ![key(r)] = command(r)]
    /\ posted' = [posted EXCEPT ![r] = @ + 1]

Commit(r) ==
    /\ pc[r] = "inTransaction"
    /\ found[r] = NoMovement
    /\ Existing(r) = NoMovement
    /\ Accepts(r)
    /\ Post(r)
    /\ Reply(r, "MOVEMENT")
    /\ UNCHANGED <<reserved, inactive, underInventory>>

(* P2002: the key was taken after the transaction's own lookup.            *)
UniqueViolation(r) ==
    /\ pc[r] = "inTransaction"
    /\ found[r] = NoMovement
    /\ Existing(r) # NoMovement
    /\ pc' = [pc EXCEPT ![r] = "duplicate"]
    /\ UNCHANGED <<stockVars, keyed, inactive, body, attempt, sends, found, answer, posted>>

(* The handler reads the index again, outside any transaction.             *)
ResolveDuplicate(r) ==
    /\ pc[r] = "duplicate"
    /\ ReplyExisting(r, Existing(r))
    /\ UNCHANGED <<stockVars, keyed, inactive, posted>>

(* Fault: conflicts are retried without counting the attempts.             *)
FaultConflictForever(r) ==
    /\ pc[r] = "inTransaction"
    /\ pc' = [pc EXCEPT ![r] = "ready"]
    /\ found' = [found EXCEPT ![r] = NoMovement]
    /\ UNCHANGED <<stockVars, keyed, inactive, body, attempt, sends, answer, posted>>

(* P2034, 40001 or 40P01: retried twice, then thrown as it is.             *)
Conflict(r) ==
    /\ pc[r] = "inTransaction"
    /\ IF attempt[r] < MaxAttempts
         THEN /\ pc' = [pc EXCEPT ![r] = "ready"]
              /\ attempt' = [attempt EXCEPT ![r] = @ + 1]
              /\ found' = [found EXCEPT ![r] = NoMovement]
              /\ UNCHANGED <<body, sends, answer>>
         ELSE Reply(r, "UNHANDLED_CONFLICT")
    /\ UNCHANGED <<stockVars, keyed, inactive, posted>>

(* The connection or the process dies before the handler answers; an open  *)
(* transaction is rolled back.                                             *)
Crash(r) ==
    /\ pc[r] \in {"ready", "inTransaction", "duplicate"}
    /\ Reply(r, "LOST")
    /\ UNCHANGED <<stockVars, keyed, inactive, posted>>

Handle(r) ==
    \/ BeginTransaction(r) \/ ReturnExisting(r) \/ Refuse(r) \/ Commit(r)
    \/ UniqueViolation(r) \/ ResolveDuplicate(r) \/ Conflict(r)

-----------------------------------------------------------------------------
(* Movements other services make inside their own transactions.            *)

others == <<keyed, inactive, requestVars>>

(* Fault: physical stock is promised though it is already reserved.        *)
FaultReserveIgnoresReserved(c, q) ==
    /\ WarehouseOf[c[2]] \notin inactive \cup underInventory
    /\ c[1] \notin inactive
    /\ c[2] \notin inactive
    /\ q <= balance[c]
    /\ reserved' = [reserved EXCEPT ![c] = @ + q]
    /\ UNCHANGED <<balance, ledger, underInventory, others>>

(* StockReservationsService: reservation rows of a cell appear, vanish, or *)
(* are consumed together with their exit movement.                         *)
ReserveStock(c, q) ==
    /\ WarehouseOf[c[2]] \notin inactive \cup underInventory
    /\ c[1] \notin inactive
    /\ c[2] \notin inactive
    /\ reserved[c] + q <= balance[c]
    /\ reserved' = [reserved EXCEPT ![c] = @ + q]
    /\ UNCHANGED <<balance, ledger, underInventory, others>>

ReleaseStock(c, q) ==
    /\ q <= reserved[c]
    /\ reserved' = [reserved EXCEPT ![c] = @ - q]
    /\ UNCHANGED <<balance, ledger, underInventory, others>>

applySalesOrderShipmentExit(c, q) ==
    LET cmd == Command("EXIT", c[1], q, c[2], NoLocation)
    IN  /\ q <= reserved[c]
        /\ EndpointsUsable(inactive, cmd)
        /\ Unlocked(underInventory, cmd)
        /\ Sufficient(balance, reserved, cmd, q)
        /\ balance' = Moved(balance, cmd)
        /\ ledger' = Moved(ledger, cmd)
        /\ reserved' = [reserved EXCEPT ![c] = @ - q]
        /\ UNCHANGED <<underInventory, others>>

(* PurchaseReceiptsService: an entry that tolerates an inactive product.   *)
applyPurchaseReceiptEntry(c, q) ==
    LET cmd == Command("ENTRY", c[1], q, NoLocation, c[2])
    IN  /\ EndpointsUsable(inactive, cmd)
        /\ Unlocked(underInventory, cmd)
        /\ Fits(Moved(balance, cmd))
        /\ balance' = Moved(balance, cmd)
        /\ ledger' = Moved(ledger, cmd)
        /\ UNCHANGED <<reserved, underInventory, others>>

(* InventoryCountsService: a count opens on an active warehouse, and is    *)
(* either cancelled or approved; approving adjusts the cell that differs,  *)
(* in spite of the lock, and ends the count.                               *)
StartCount(w) ==
    /\ w \notin underInventory \cup inactive
    /\ underInventory' = underInventory \cup {w}
    /\ UNCHANGED <<balance, ledger, reserved, others>>

CancelCount(w) ==
    /\ w \in underInventory
    /\ underInventory' = underInventory \ {w}
    /\ UNCHANGED <<balance, ledger, reserved, others>>

applyInventoryAdjustment(cmd) ==
    /\ cmd.type \in {"ADJUSTMENT_IN", "ADJUSTMENT_OUT"}
    /\ WarehousesOf(cmd) \subseteq underInventory
    /\ Usable(inactive, cmd)
    /\ Sufficient(balance, reserved, cmd, 0)
    /\ Fits(Moved(balance, cmd))
    /\ balance' = Moved(balance, cmd)
    /\ ledger' = Moved(ledger, cmd)
    /\ underInventory' = underInventory \ WarehousesOf(cmd)
    /\ UNCHANGED <<reserved, others>>

(* The catalogue services switch isActive on and off.  Their checks across *)
(* a warehouse and its locations are made before the transaction that      *)
(* writes, so any combination of flags can arise.                          *)
UpdateStatus(x) ==
    /\ inactive' = IF x \in inactive THEN inactive \ {x} ELSE inactive \cup {x}
    /\ UNCHANGED <<stockVars, keyed, requestVars>>

OtherServices ==
    \/ \E c \in Cells, q \in Quantities :
         ReserveStock(c, q) \/ ReleaseStock(c, q) \/ applySalesOrderShipmentExit(c, q)
                            \/ applyPurchaseReceiptEntry(c, q)
    \/ \E w \in Warehouses : StartCount(w) \/ CancelCount(w)
    \/ \E cmd \in Commands : applyInventoryAdjustment(cmd)
    \/ \E x \in Switchable : UpdateStatus(x)

Next ==
    \/ \E r \in Requests : Send(r) \/ Handle(r) \/ Crash(r)
    \/ OtherServices

Spec == Init /\ [][Next]_vars

(* A handler that has begun goes on: Node runs its continuations and the   *)
(* database ends every transaction.                                        *)
FairSpec == Spec /\ \A r \in Requests : WF_vars(Handle(r))

-----------------------------------------------------------------------------
(* Properties.                                                             *)

(* What is reserved is physically there, whatever mix of manual exits,     *)
(* transfers, adjustments, counts and shipments runs beside reservations.  *)
ReservedWithinPhysical == \A c \in Cells : reserved[c] <= balance[c]

(* Every balance is explained by its movement rows.                        *)
BalanceMatchesLedger == \A c \in Cells : balance[c] = ledger[c]

(* Whatever mix of operations ran, the balances are in the range of their  *)
(* column and each is the sum of its rows.                                 *)
BalancesAreSound == TypeOK /\ BalanceMatchesLedger

(* However often and by however many requests a key is sent, one movement  *)
(* row carries it.                                                         *)
KeyPostedOnce ==
    \A r, s \in Requests :
        (key(r) # NoKey /\ key(r) = key(s) /\ posted[r] > 0 /\ posted[s] > 0)
            => (r = s /\ posted[r] = 1)

(* A movement answered to a request exists and is the one asked for, even  *)
(* when another request's transaction created it.                          *)
AnswerIsPosted ==
    \A r \in Requests : answer[r] = "MOVEMENT" =>
        \E s \in Requests : /\ posted[s] > 0
                            /\ command(s) = command(r)
                            /\ key(s) = key(r)

(* A request that is told its key was reused really met another command,   *)
(* and never moved stock itself.                                           *)
ReuseIsRefused ==
    \A r \in Requests : answer[r] = "IDEMPOTENCY_KEY_REUSED" =>
        /\ posted[r] = 0
        /\ keyed[key(r)] \notin {NoMovement, command(r)}

(* The promise of a key, as a client may rely on it when an answer is lost *)
(* or another client uses the key: one movement, the one asked for, or an  *)
(* error that is true.                                                     *)
KeysAreSound == KeyPostedOnce /\ AnswerIsPosted /\ ReuseIsRefused

(* A stored key is never rebound to another movement.                      *)
KeysAreStable ==
    [][\A k \in Keys : keyed[k] # NoMovement => keyed'[k] = keyed[k]]_keyed

(* Nothing enters, leaves or is promised in a warehouse under inventory    *)
(* unless the step ends the count.                                         *)
LockedStockStays ==
    [][\A c \in Cells :
          (WarehouseOf[c[2]] \in underInventory \cap underInventory')
              => (balance'[c] = balance[c] /\ reserved'[c] <= reserved[c])]_stockVars

(* The retry loop ends: every request sent is answered.                    *)
SentIsAnswered ==
    \A r \in Requests : pc[r] = "ready" ~> pc[r] = "answered"

(* The error thrown after the loop (INVENTORY_CONCURRENCY_CONFLICT) says   *)
(* that exhausted retries are answered with a 409: no conflict escapes.    *)
ConflictsAreHandled == \A r \in Requests : answer[r] # "UNHANDLED_CONFLICT"

Contract == INSTANCE StockContract
ImplementsContract == Contract!Spec
=============================================================================
