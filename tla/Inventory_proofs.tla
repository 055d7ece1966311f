-------------------------- MODULE Inventory_proofs --------------------------
(***************************************************************************)
(* Proofs about Inventory for every set of products, locations, requests   *)
(* and keys, every capacity and every number of resends.                   *)
(***************************************************************************)
EXTENDS Inventory, Basics_proofs

USE WarehouseOfAssumption, NoLocationAssumption, CapacityAssumption,
    NoKeyAssumption, NoMovementAssumption, BodiesAssumption,
    MaxSendsAssumption, SwitchableAssumption

-----------------------------------------------------------------------------
(* Type correctness.                                                       *)

(* What a request asks for is a command, under a key or under none.        *)
LEMMA RequestShape ==
    ASSUME TypeOK, NEW r \in Requests
    PROVE  /\ command(r) \in Commands
           /\ key(r) \in Keys \cup {NoKey}
           /\ Existing(r) \in Commands \cup {NoMovement}
  BY DEF TypeOK, command, key, Existing

(* The initial state is well typed.                                        *)
LEMMA InitType == Init => TypeOK
  BY DEF Init, TypeOK, NoAmount, Balances, Amounts, PC, Answers, MaxAttempts

(* An answer keeps the types of the handler's locals.                      *)
LEMMA ReplyType ==
    ASSUME TypeOK, NEW r \in Requests, NEW a \in Answers, Reply(r, a)
    PROVE  /\ body' \in [Requests -> Bodies]
           /\ pc' \in [Requests -> PC]
           /\ attempt' \in [Requests -> 1..MaxAttempts]
           /\ sends' \in [Requests -> 0..MaxSends]
           /\ found' \in [Requests -> Commands \cup {NoMovement}]
           /\ answer' \in [Requests -> Answers]
  BY DEF TypeOK, Reply, PC, MaxAttempts

(* Every step of a request keeps the types.                                *)
LEMMA HandlerType ==
    ASSUME TypeOK, NEW r \in Requests, Send(r) \/ Handle(r) \/ Crash(r)
    PROVE  TypeOK'
  <1>1. CASE Send(r)
    BY <1>1 DEF Send, TypeOK, PC, Answers, stockVars
  <1>2. CASE BeginTransaction(r)
    BY <1>2, RequestShape DEF BeginTransaction, TypeOK, PC, stockVars
  <1>3. CASE ReturnExisting(r)
    <2>1. Reply(r, "MOVEMENT") \/ Reply(r, "IDEMPOTENCY_KEY_REUSED")
      BY <1>3 DEF ReturnExisting, ReplyExisting
    <2>2. QED
      BY <1>3, <2>1, ReplyType DEF ReturnExisting, TypeOK, Answers, stockVars
  <1>4. CASE Refuse(r)
    BY <1>4, ReplyType DEF Refuse, TypeOK, Answers, stockVars
  <1>5. CASE Commit(r)
    <2>1. Reply(r, "MOVEMENT")
      BY <1>5 DEF Commit
    <2>2. balance' \in Balances
      BY <1>5, RequestShape, MovedType DEF Commit, Accepts, Post, TypeOK
    <2>3. ledger' \in [Cells -> Int]
      BY <1>5, RequestShape, LedgerType DEF Commit, Post, TypeOK
    <2>4. keyed' \in [Keys -> Commands \cup {NoMovement}]
      BY <1>5, RequestShape DEF Commit, Post, TypeOK
    <2>5. posted' \in [Requests -> Nat]
      BY <1>5 DEF Commit, Post, TypeOK
    <2>6. QED
      BY <1>5, <2>1, <2>2, <2>3, <2>4, <2>5, ReplyType DEF Commit, TypeOK, Answers
  <1>6. CASE UniqueViolation(r)
    BY <1>6 DEF UniqueViolation, TypeOK, PC, stockVars
  <1>7. CASE ResolveDuplicate(r)
    <2>1. Reply(r, "MOVEMENT") \/ Reply(r, "IDEMPOTENCY_KEY_REUSED")
      BY <1>7 DEF ResolveDuplicate, ReplyExisting
    <2>2. QED
      BY <1>7, <2>1, ReplyType DEF ResolveDuplicate, TypeOK, Answers, stockVars
  <1>8. CASE Conflict(r)
    <2>1. CASE attempt[r] < MaxAttempts
      <3>1. attempt[r] + 1 \in 1..MaxAttempts
        BY <2>1 DEF TypeOK, MaxAttempts
      <3>2. /\ pc' = [pc EXCEPT ![r] = "ready"]
            /\ attempt' = [attempt EXCEPT ![r] = @ + 1]
            /\ found' = [found EXCEPT ![r] = NoMovement]
            /\ UNCHANGED <<stockVars, keyed, inactive, posted, body, sends, answer>>
        BY <1>8, <2>1, Zenon DEF Conflict
      <3>3. attempt' \in [Requests -> 1..MaxAttempts]
        BY <3>1, <3>2 DEF TypeOK
      <3>4. QED
        BY <3>2, <3>3 DEF TypeOK, PC, stockVars
    <2>2. CASE ~(attempt[r] < MaxAttempts)
      BY <1>8, <2>2, ReplyType DEF Conflict, TypeOK, Answers, stockVars
    <2>3. QED
      BY <2>1, <2>2
  <1>9. CASE Crash(r)
    BY <1>9, ReplyType DEF Crash, TypeOK, Answers, stockVars
  <1>10. QED
    BY <1>1, <1>2, <1>3, <1>4, <1>5, <1>6, <1>7, <1>8, <1>9 DEF Handle

(* Every step of the other services keeps the types.                       *)
LEMMA OthersType ==
    ASSUME TypeOK, OtherServices
    PROVE  TypeOK'
  <1>1. ASSUME NEW c \in Cells, NEW q \in Quantities, ReserveStock(c, q)
        PROVE  TypeOK'
    BY <1>1 DEF ReserveStock, TypeOK, Amounts, Quantities, others, requestVars
  <1>2. ASSUME NEW c \in Cells, NEW q \in Quantities, ReleaseStock(c, q)
        PROVE  TypeOK'
    BY <1>2 DEF ReleaseStock, TypeOK, Amounts, Quantities, others, requestVars
  <1>3. ASSUME NEW c \in Cells, NEW q \in Quantities, applySalesOrderShipmentExit(c, q)
        PROVE  TypeOK'
    <2> DEFINE cmd == Command("EXIT", c[1], q, c[2], NoLocation)
    <2>1. cmd \in Commands
      BY ExitIsCommand
    <2>2. balance' = Moved(balance, cmd) /\ ledger' = Moved(ledger, cmd)
      BY <1>3 DEF applySalesOrderShipmentExit
    <2>3. Fits(Moved(balance, cmd))
      <3>1. ASSUME NEW d \in Cells PROVE (balance[d] - Out(cmd, d)) + In(cmd, d) <= Capacity
        <4>1. In(cmd, d) = 0
          BY DEF In, Command, Cells
        <4>2. balance[d] \in 0..Capacity /\ Out(cmd, d) \in Nat
          BY <2>1, FlowType DEF TypeOK, Balances
        <4>3. QED
          BY <4>1, <4>2
      <3>2. QED
        BY <3>1 DEF Fits, Moved
    <2>4. balance' \in Balances
      BY <1>3, <2>1, <2>2, <2>3, MovedType
         DEF applySalesOrderShipmentExit, TypeOK, Quantities
    <2>5. ledger' \in [Cells -> Int]
      BY <2>1, <2>2, LedgerType DEF TypeOK
    <2>6. reserved' \in Amounts
      BY <1>3 DEF applySalesOrderShipmentExit, TypeOK, Amounts, Quantities
    <2>7. QED
      BY <1>3, <2>4, <2>5, <2>6
         DEF applySalesOrderShipmentExit, TypeOK, others, requestVars
  <1>4. ASSUME NEW c \in Cells, NEW q \in Quantities, applyPurchaseReceiptEntry(c, q)
        PROVE  TypeOK'
    <2> DEFINE cmd == Command("ENTRY", c[1], q, NoLocation, c[2])
    <2>1. cmd \in Commands
      BY EntryIsCommand
    <2>2. Sufficient(balance, reserved, cmd, 0)
      BY DEF Sufficient, Command
    <2>3. balance' \in Balances
      BY <1>4, <2>1, <2>2, MovedType DEF applyPurchaseReceiptEntry, TypeOK
    <2>4. ledger' \in [Cells -> Int]
      BY <1>4, <2>1, LedgerType DEF applyPurchaseReceiptEntry, TypeOK
    <2>5. QED
      BY <1>4, <2>3, <2>4 DEF applyPurchaseReceiptEntry, TypeOK, others, requestVars
  <1>5. ASSUME NEW w \in Warehouses, StartCount(w) \/ CancelCount(w)
        PROVE  TypeOK'
    BY <1>5 DEF StartCount, CancelCount, TypeOK, others, requestVars
  <1>6. ASSUME NEW cmd \in Commands, applyInventoryAdjustment(cmd)
        PROVE  TypeOK'
    <2>1. balance' \in Balances
      BY <1>6, MovedType DEF applyInventoryAdjustment, TypeOK
    <2>2. ledger' \in [Cells -> Int]
      BY <1>6, LedgerType DEF applyInventoryAdjustment, TypeOK
    <2>3. QED
      BY <1>6, <2>1, <2>2 DEF applyInventoryAdjustment, TypeOK, others, requestVars
  <1>7. ASSUME NEW x \in Switchable, UpdateStatus(x)
        PROVE  TypeOK'
    BY <1>7 DEF UpdateStatus, TypeOK, stockVars, requestVars
  <1>8. QED
    BY <1>1, <1>2, <1>3, <1>4, <1>5, <1>6, <1>7 DEF OtherServices

(* Balances never leave their column and the handlers' locals keep their   *)
(* types, whatever the interleaving.                                       *)
THEOREM TypeCorrect == Spec => []TypeOK
  <1>1. Init => TypeOK
    BY InitType
  <1>2. TypeOK /\ [Next]_vars => TypeOK'
    <2> SUFFICES ASSUME TypeOK, [Next]_vars PROVE TypeOK'
      OBVIOUS
    <2>1. CASE UNCHANGED vars
      BY <2>1 DEF vars, stockVars, requestVars, TypeOK
    <2>2. CASE Next
      BY <2>2, HandlerType, OthersType DEF Next
    <2>3. QED
      BY <2>1, <2>2
  <1>3. QED
    BY <1>1, <1>2, PTL DEF Spec

-----------------------------------------------------------------------------
(* Reserved stock is physically present.                                   *)

(* Every step of the other services leaves reserved stock in place.        *)
LEMMA OthersKeepReserved ==
    ASSUME TypeOK, TypeOK', ReservedWithinPhysical, OtherServices
    PROVE  ReservedWithinPhysical'
  <1> SUFFICES ASSUME NEW d \in Cells PROVE reserved'[d] <= balance'[d]
    BY DEF ReservedWithinPhysical
  <1>0. balance[d] \in 0..Capacity /\ reserved[d] \in Nat /\ reserved[d] <= balance[d]
    BY DEF TypeOK, Balances, Amounts, ReservedWithinPhysical
  <1>1. ASSUME NEW c \in Cells, NEW q \in Quantities, ReserveStock(c, q)
        PROVE  reserved'[d] <= balance'[d]
    BY <1>0, <1>1 DEF ReserveStock, TypeOK, Amounts
  <1>2. ASSUME NEW c \in Cells, NEW q \in Quantities, ReleaseStock(c, q)
        PROVE  reserved'[d] <= balance'[d]
    BY <1>0, <1>2 DEF ReleaseStock, TypeOK, Amounts, Quantities
  <1>3. ASSUME NEW c \in Cells, NEW q \in Quantities, applySalesOrderShipmentExit(c, q)
        PROVE  reserved'[d] <= balance'[d]
    <2> DEFINE cmd == Command("EXIT", c[1], q, c[2], NoLocation)
    <2>1. balance'[d] = (balance[d] - Out(cmd, d)) + In(cmd, d)
      BY <1>3 DEF applySalesOrderShipmentExit, Moved
    <2>2. In(cmd, d) = 0
      BY DEF In, Command, Cells
    <2>3. Out(cmd, d) = IF d = c THEN q ELSE 0
      BY DEF Out, Command, Cells
    <2>4. reserved'[d] = IF d = c THEN reserved[d] - q ELSE reserved[d]
      BY <1>3 DEF applySalesOrderShipmentExit, TypeOK, Amounts
    <2>5. QED
      BY <1>0, <2>1, <2>2, <2>3, <2>4 DEF Quantities
  <1>4. ASSUME NEW c \in Cells, NEW q \in Quantities, applyPurchaseReceiptEntry(c, q)
        PROVE  reserved'[d] <= balance'[d]
    <2> DEFINE cmd == Command("ENTRY", c[1], q, NoLocation, c[2])
    <2>1. cmd \in Commands
      BY EntryIsCommand
    <2>2. Sufficient(balance, reserved, cmd, 0)
      BY DEF Sufficient, Command
    <2>3. QED
      BY <1>0, <1>4, <2>1, <2>2, MovedRespectsReservations
         DEF applyPurchaseReceiptEntry, TypeOK
  <1>5. ASSUME NEW w \in Warehouses, StartCount(w) \/ CancelCount(w)
        PROVE  reserved'[d] <= balance'[d]
    BY <1>0, <1>5 DEF StartCount, CancelCount
  <1>6. ASSUME NEW cmd \in Commands, applyInventoryAdjustment(cmd)
        PROVE  reserved'[d] <= balance'[d]
    BY <1>0, <1>6, MovedRespectsReservations DEF applyInventoryAdjustment, TypeOK
  <1>7. ASSUME NEW x \in Switchable, UpdateStatus(x)
        PROVE  reserved'[d] <= balance'[d]
    BY <1>0, <1>7 DEF UpdateStatus, stockVars
  <1>8. QED
    BY <1>1, <1>2, <1>3, <1>4, <1>5, <1>6, <1>7 DEF OtherServices

(* A step of a request's handler either leaves stock alone or commits a    *)
(* movement that was accepted.                                             *)
LEMMA HandlerStock ==
    ASSUME NEW r \in Requests, Send(r) \/ Handle(r) \/ Crash(r)
    PROVE  \/ UNCHANGED stockVars
           \/ /\ Accepts(r)
              /\ balance' = Moved(balance, command(r))
              /\ ledger' = Moved(ledger, command(r))
              /\ UNCHANGED <<reserved, underInventory>>
  BY DEF Handle, Send, BeginTransaction, ReturnExisting, Refuse, Commit, Post,
         UniqueViolation, ResolveDuplicate, Conflict, Crash, stockVars

(* Every step of a request leaves reserved stock in place.                 *)
LEMMA HandlerKeepsReserved ==
    ASSUME TypeOK, ReservedWithinPhysical, NEW r \in Requests,
           Send(r) \/ Handle(r) \/ Crash(r)
    PROVE  ReservedWithinPhysical'
  <1>1. CASE UNCHANGED stockVars
    BY <1>1 DEF stockVars, ReservedWithinPhysical
  <1>2. CASE /\ Accepts(r)
             /\ balance' = Moved(balance, command(r))
             /\ UNCHANGED reserved
    <2>1. ASSUME NEW d \in Cells PROVE reserved[d] <= Moved(balance, command(r))[d]
      BY <1>2, RequestShape, MovedRespectsReservations
         DEF Accepts, TypeOK, ReservedWithinPhysical
    <2>2. QED
      BY <1>2, <2>1 DEF ReservedWithinPhysical
  <1>3. QED
    BY <1>1, <1>2, HandlerStock

(* No mix of manual movements, receipts, shipments, counts, reservations   *)
(* and status changes leaves a cell with less stock than is reserved in it *)
(* (README.md: physicalQuantity >= reservedQuantity).                      *)
THEOREM ReservationsAreCovered == Spec => []ReservedWithinPhysical
  <1>1. Init => ReservedWithinPhysical
    BY DEF Init, ReservedWithinPhysical, NoAmount
  <1>2. TypeOK /\ TypeOK' /\ ReservedWithinPhysical /\ [Next]_vars => ReservedWithinPhysical'
    <2> SUFFICES ASSUME TypeOK, TypeOK', ReservedWithinPhysical, [Next]_vars
                 PROVE  ReservedWithinPhysical'
      OBVIOUS
    <2>1. CASE UNCHANGED vars
      BY <2>1 DEF vars, stockVars, ReservedWithinPhysical
    <2>2. CASE Next
      BY <2>2, HandlerKeepsReserved, OthersKeepReserved DEF Next
    <2>3. QED
      BY <2>1, <2>2
  <1>3. QED
    BY <1>1, <1>2, TypeCorrect, PTL DEF Spec

-----------------------------------------------------------------------------
(* Balances and ledger.                                                    *)

(* Every balance equals the sum of its movement rows: no step changes one  *)
(* without posting the other.                                              *)
THEOREM BalancesAreExplained == Spec => []BalanceMatchesLedger
  <1> DEFINE Same == balance = ledger
  <1>1. Init => Same
    BY DEF Init
  <1>2. Same /\ [Next]_vars => Same'
    <2> SUFFICES ASSUME Same, [Next]_vars PROVE Same'
      OBVIOUS
    <2>1. CASE UNCHANGED vars
      BY <2>1 DEF vars, stockVars
    <2>2. ASSUME NEW r \in Requests, Send(r) \/ Handle(r) \/ Crash(r) PROVE Same'
      BY <2>2, HandlerStock DEF stockVars
    <2>3. CASE OtherServices
      BY <2>3 DEF OtherServices, ReserveStock, ReleaseStock, applySalesOrderShipmentExit,
                  applyPurchaseReceiptEntry, StartCount, CancelCount,
                  applyInventoryAdjustment, UpdateStatus, stockVars
    <2>4. QED
      BY <2>1, <2>2, <2>3 DEF Next
  <1>3. Same => BalanceMatchesLedger
    BY DEF BalanceMatchesLedger
  <1>4. QED
    BY <1>1, <1>2, <1>3, PTL DEF Spec

(* Balances stay within their column and are the sums of their rows.       *)
THEOREM BalancesStaySound == Spec => []BalancesAreSound
  <1>1. TypeOK /\ BalanceMatchesLedger => BalancesAreSound
    BY DEF BalancesAreSound
  <1>2. QED
    BY <1>1, TypeCorrect, BalancesAreExplained, PTL

-----------------------------------------------------------------------------
(* Idempotency keys.                                                       *)

(* What ties the index, the handlers' lookups and the posted rows          *)
(* together: a posted keyed request owns its key's entry; an entry was     *)
(* posted by a request that asked for exactly it; a lookup that found      *)
(* something is still true, because entries are never rebound.             *)
KeyIndex ==
    /\ \A r \in Requests :
         (posted[r] > 0 /\ key(r) # NoKey) => keyed[key(r)] = command(r)
    /\ \A k \in Keys : keyed[k] # NoMovement =>
         \E s \in Requests : key(s) = k /\ command(s) = keyed[k] /\ posted[s] > 0
    /\ \A r \in Requests : found[r] # NoMovement =>
         key(r) # NoKey /\ keyed[key(r)] = found[r]
    /\ \A r \in Requests : pc[r] = "duplicate" =>
         key(r) # NoKey /\ keyed[key(r)] # NoMovement
    /\ \A r \in Requests : answer[r] = "IDEMPOTENCY_KEY_REUSED" => key(r) # NoKey

KeyInvariant == KeyIndex /\ KeyPostedOnce /\ AnswerIsPosted /\ ReuseIsRefused

(* No key is used initially.                                               *)
LEMMA KeyInit == Init => KeyInvariant
  BY DEF Init, KeyInvariant, KeyIndex, KeyPostedOnce, AnswerIsPosted, ReuseIsRefused

(* Requests keep what they ask for.                                        *)
LEMMA BodyStable ==
    ASSUME UNCHANGED body, NEW r \in Requests
    PROVE  command(r)' = command(r) /\ key(r)' = key(r)
  BY DEF command, key

(* Steps that post nothing and only change the locals of r.                *)
Local(r) ==
    /\ UNCHANGED <<body, keyed, posted>>
    /\ \A s \in Requests \ {r} :
         pc'[s] = pc[s] /\ found'[s] = found[s] /\ answer'[s] = answer[s]

(* An answer that posts nothing is a local step.                           *)
LEMMA ReplyIsLocal ==
    ASSUME TypeOK, NEW r \in Requests, NEW a, Reply(r, a), UNCHANGED <<keyed, posted>>
    PROVE  /\ Local(r)
           /\ pc'[r] = "answered" /\ found'[r] = NoMovement /\ answer'[r] = a
  BY DEF Reply, Local, TypeOK

(* A local step keeps the key invariant if the new locals of r agree with  *)
(* the index.                                                              *)
LEMMA LocalKeeps ==
    ASSUME TypeOK, KeyInvariant, NEW r \in Requests, Local(r),
           found'[r] # NoMovement => key(r) # NoKey /\ keyed[key(r)] = found'[r],
           pc'[r] = "duplicate" => key(r) # NoKey /\ keyed[key(r)] # NoMovement,
           answer'[r] = "MOVEMENT" =>
                \/ answer[r] = "MOVEMENT"
                \/ key(r) # NoKey /\ keyed[key(r)] = command(r),
           answer'[r] = "IDEMPOTENCY_KEY_REUSED" =>
                \/ answer[r] = "IDEMPOTENCY_KEY_REUSED"
                \/ key(r) # NoKey /\ keyed[key(r)] \notin {NoMovement, command(r)}
    PROVE  KeyInvariant'
  <1>0. \A s \in Requests : command(s)' = command(s) /\ key(s)' = key(s)
    BY BodyStable DEF Local
  <1>1. /\ \A s \in Requests :
             (posted'[s] > 0 /\ key(s) # NoKey) => keyed'[key(s)] = command(s)
        /\ \A k \in Keys : keyed'[k] # NoMovement =>
             \E s \in Requests : key(s) = k /\ command(s) = keyed'[k] /\ posted'[s] > 0
    BY DEF Local, KeyInvariant, KeyIndex
  <1>2. /\ \A s \in Requests : found'[s] # NoMovement =>
             key(s) # NoKey /\ keyed'[key(s)] = found'[s]
        /\ \A s \in Requests : pc'[s] = "duplicate" =>
             key(s) # NoKey /\ keyed'[key(s)] # NoMovement
    BY DEF Local, KeyInvariant, KeyIndex
  <1>3. \A s \in Requests : answer'[s] = "IDEMPOTENCY_KEY_REUSED" => key(s) # NoKey
    BY DEF Local, KeyInvariant, KeyIndex
  <1>4. KeyIndex'
    BY <1>0, <1>1, <1>2, <1>3 DEF KeyIndex
  <1>5. KeyPostedOnce'
    BY <1>0 DEF Local, KeyInvariant, KeyPostedOnce
  <1>6. ASSUME NEW s \in Requests, answer'[s] = "MOVEMENT"
        PROVE  \E t \in Requests : posted'[t] > 0 /\ command(t) = command(s) /\ key(t) = key(s)
    <2>1. CASE answer[s] = "MOVEMENT"
      BY <2>1 DEF Local, KeyInvariant, AnswerIsPosted
    <2>2. CASE s = r /\ key(r) # NoKey /\ keyed[key(r)] = command(r)
      <3>1. command(r) # NoMovement /\ key(r) \in Keys
        BY <2>2, RequestShape
      <3>2. QED
        BY <2>2, <3>1 DEF Local, KeyInvariant, KeyIndex
    <2>3. QED
      BY <1>6, <2>1, <2>2 DEF Local
  <1>7. AnswerIsPosted'
    BY <1>0, <1>6 DEF AnswerIsPosted
  <1>8. ASSUME NEW s \in Requests, answer'[s] = "IDEMPOTENCY_KEY_REUSED"
        PROVE  posted'[s] = 0 /\ keyed'[key(s)] \notin {NoMovement, command(s)}
    <2>1. CASE answer[s] = "IDEMPOTENCY_KEY_REUSED"
      BY <2>1 DEF Local, KeyInvariant, ReuseIsRefused
    <2>2. CASE s = r /\ key(r) # NoKey /\ keyed[key(r)] \notin {NoMovement, command(r)}
      <3>1. ~(posted[r] > 0)
        BY <2>2 DEF KeyInvariant, KeyIndex
      <3>2. posted[r] = 0
        BY <3>1 DEF TypeOK
      <3>3. QED
        BY <2>2, <3>2 DEF Local
    <2>3. QED
      BY <1>8, <2>1, <2>2 DEF Local
  <1>9. ReuseIsRefused'
    BY <1>0, <1>8 DEF ReuseIsRefused
  <1>10. QED
    BY <1>4, <1>5, <1>7, <1>9 DEF KeyInvariant

(* A commit binds a free key to its own command.                           *)
LEMMA CommitKeepsKeys ==
    ASSUME TypeOK, KeyInvariant, NEW r \in Requests, Commit(r)
    PROVE  KeyInvariant'
  <1>0. /\ \A s \in Requests : command(s)' = command(s) /\ key(s)' = key(s)
        /\ \A s \in Requests : command(s) \in Commands /\ key(s) \in Keys \cup {NoKey}
    BY BodyStable, RequestShape DEF Commit, Reply
  <1>1. /\ posted' = [posted EXCEPT ![r] = @ + 1]
        /\ \A s \in Requests : posted[s] \in Nat
        /\ \A s \in Requests : posted'[s] = IF s = r THEN posted[r] + 1 ELSE posted[s]
    BY DEF Commit, Post, TypeOK
  <1>2. \A k \in Keys : keyed'[k] = IF key(r) = k THEN command(r) ELSE keyed[k]
    BY <1>0 DEF Commit, Post, TypeOK
  <1>3. key(r) # NoKey => keyed[key(r)] = NoMovement
    BY DEF Commit, Existing
  <1>4. \A s \in Requests :
          /\ pc'[s] = IF s = r THEN "answered" ELSE pc[s]
          /\ found'[s] = IF s = r THEN NoMovement ELSE found[s]
          /\ answer'[s] = IF s = r THEN "MOVEMENT" ELSE answer[s]
    BY DEF Commit, Reply, TypeOK
  <1>5. \A s \in Requests : (key(r) # NoKey /\ key(s) = key(r)) => posted[s] = 0
    <2> SUFFICES ASSUME NEW s \in Requests, key(r) # NoKey, key(s) = key(r), posted[s] > 0
                 PROVE  FALSE
      BY <1>1
    <2>1. keyed[key(s)] = command(s)
      BY DEF KeyInvariant, KeyIndex
    <2>2. QED
      BY <1>0, <1>3, <2>1
  <1>6. KeyIndex'
    <2>1. ASSUME NEW s \in Requests, posted'[s] > 0, key(s) # NoKey
          PROVE  keyed'[key(s)] = command(s)
      <3>1. CASE s = r
        BY <1>0, <1>2, <2>1, <3>1
      <3>2. CASE s # r
        <4>1. posted[s] > 0
          BY <1>1, <2>1, <3>2
        <4>2. keyed[key(s)] = command(s) /\ key(s) # key(r)
          BY <1>5, <2>1, <4>1 DEF KeyInvariant, KeyIndex
        <4>3. QED
          BY <1>0, <1>2, <2>1, <4>2
      <3>3. QED
        BY <3>1, <3>2
    <2>2. ASSUME NEW k \in Keys, keyed'[k] # NoMovement
          PROVE  \E s \in Requests : key(s) = k /\ command(s) = keyed'[k] /\ posted'[s] > 0
      <3>1. CASE key(r) = k
        <4>1. posted'[r] > 0
          BY <1>1
        <4>2. QED
          BY <1>2, <3>1, <4>1
      <3>2. CASE key(r) # k
        <4>1. PICK s \in Requests : key(s) = k /\ command(s) = keyed[k] /\ posted[s] > 0
          BY <1>2, <2>2, <3>2 DEF KeyInvariant, KeyIndex
        <4>2. posted'[s] > 0
          BY <1>1, <4>1
        <4>3. QED
          BY <1>2, <3>2, <4>1, <4>2
      <3>3. QED
        BY <3>1, <3>2
    <2>3. ASSUME NEW s \in Requests, found'[s] # NoMovement
          PROVE  key(s) # NoKey /\ keyed'[key(s)] = found'[s]
      BY <1>0, <1>2, <1>3, <1>4, <2>3 DEF KeyInvariant, KeyIndex
    <2>4. ASSUME NEW s \in Requests, pc'[s] = "duplicate"
          PROVE  key(s) # NoKey /\ keyed'[key(s)] # NoMovement
      BY <1>0, <1>2, <1>4, <2>4 DEF KeyInvariant, KeyIndex
    <2>5. ASSUME NEW s \in Requests, answer'[s] = "IDEMPOTENCY_KEY_REUSED"
          PROVE  key(s) # NoKey
      BY <1>4, <2>5 DEF KeyInvariant, KeyIndex
    <2>6. QED
      BY <1>0, <2>1, <2>2, <2>3, <2>4, <2>5 DEF KeyIndex
  <1>7. KeyPostedOnce'
    BY <1>0, <1>1, <1>5 DEF KeyInvariant, KeyPostedOnce
  <1>8. AnswerIsPosted'
    <2>1. ASSUME NEW s \in Requests, answer'[s] = "MOVEMENT"
          PROVE  \E t \in Requests : posted'[t] > 0 /\ command(t) = command(s) /\ key(t) = key(s)
      <3>1. CASE s = r
        <4>1. posted'[r] > 0
          BY <1>1
        <4>2. QED
          BY <3>1, <4>1
      <3>2. CASE s # r
        <4>1. PICK t \in Requests : posted[t] > 0 /\ command(t) = command(s) /\ key(t) = key(s)
          BY <1>4, <2>1, <3>2 DEF KeyInvariant, AnswerIsPosted
        <4>2. posted'[t] > 0
          BY <1>1, <4>1
        <4>3. QED
          BY <4>1, <4>2
      <3>3. QED
        BY <3>1, <3>2
    <2>2. QED
      BY <1>0, <2>1 DEF AnswerIsPosted
  <1>9. ReuseIsRefused'
    <2>1. ASSUME NEW s \in Requests, answer'[s] = "IDEMPOTENCY_KEY_REUSED"
          PROVE  posted'[s] = 0 /\ keyed'[key(s)] \notin {NoMovement, command(s)}
      <3>1. /\ s # r
            /\ posted[s] = 0 /\ keyed[key(s)] \notin {NoMovement, command(s)}
            /\ key(s) \in Keys
        BY <1>0, <1>4, <2>1 DEF KeyInvariant, ReuseIsRefused, KeyIndex
      <3>2. key(s) # key(r)
        BY <1>3, <3>1
      <3>3. QED
        BY <1>1, <1>2, <3>1, <3>2
    <2>2. QED
      BY <1>0, <2>1 DEF ReuseIsRefused
  <1>10. QED
    BY <1>6, <1>7, <1>8, <1>9 DEF KeyInvariant

(* Every step of a request keeps the key invariant.                        *)
LEMMA HandlerKeepsKeys ==
    ASSUME TypeOK, KeyInvariant, NEW r \in Requests, Send(r) \/ Handle(r) \/ Crash(r)
    PROVE  KeyInvariant'
  <1>0. /\ found[r] # NoMovement => key(r) # NoKey /\ keyed[key(r)] = found[r]
        /\ pc[r] = "duplicate" => key(r) # NoKey /\ keyed[key(r)] # NoMovement
        /\ command(r) # NoMovement
    BY RequestShape DEF KeyInvariant, KeyIndex
  <1>1. CASE Send(r)
    <2>1. Local(r) /\ pc'[r] = "ready" /\ found'[r] = found[r] /\ answer'[r] = "NONE"
      BY <1>1 DEF Send, Local, TypeOK
    <2>2. QED
      BY <1>0, <2>1, LocalKeeps
  <1>2. CASE BeginTransaction(r)
    <2>1. /\ Local(r) /\ pc'[r] = "inTransaction" /\ answer'[r] = answer[r]
          /\ found'[r] = Existing(r)
      BY <1>2 DEF BeginTransaction, Local, TypeOK
    <2>2. QED
      BY <2>1, LocalKeeps DEF Existing
  <1>3. CASE ReturnExisting(r)
    <2>1. Reply(r, IF found[r] = command(r) THEN "MOVEMENT" ELSE "IDEMPOTENCY_KEY_REUSED")
      BY <1>3 DEF ReturnExisting, ReplyExisting
    <2>2. QED
      BY <1>0, <1>3, <2>1, ReplyIsLocal, LocalKeeps DEF ReturnExisting
  <1>4. CASE Refuse(r)
    BY <1>4, ReplyIsLocal, LocalKeeps DEF Refuse
  <1>5. CASE Commit(r)
    BY <1>5, CommitKeepsKeys
  <1>6. CASE UniqueViolation(r)
    <2>1. /\ Local(r) /\ pc'[r] = "duplicate" /\ answer'[r] = answer[r]
          /\ found'[r] = NoMovement /\ Existing(r) # NoMovement
      BY <1>6 DEF UniqueViolation, Local, TypeOK
    <2>2. QED
      BY <2>1, LocalKeeps DEF Existing
  <1>7. CASE ResolveDuplicate(r)
    <2>1. Reply(r, IF keyed[key(r)] = command(r) THEN "MOVEMENT" ELSE "IDEMPOTENCY_KEY_REUSED")
      BY <1>0, <1>7 DEF ResolveDuplicate, ReplyExisting, Existing
    <2>2. QED
      BY <1>0, <1>7, <2>1, ReplyIsLocal, LocalKeeps DEF ResolveDuplicate
  <1>8. CASE Conflict(r)
    <2>1. CASE attempt[r] < MaxAttempts
      <3>1. /\ pc' = [pc EXCEPT ![r] = "ready"]
            /\ found' = [found EXCEPT ![r] = NoMovement]
            /\ UNCHANGED <<body, keyed, posted, answer>>
        BY <1>8, <2>1, Zenon DEF Conflict
      <3>2. Local(r) /\ pc'[r] = "ready" /\ found'[r] = NoMovement /\ answer'[r] = answer[r]
        BY <3>1 DEF Local, TypeOK
      <3>3. QED
        BY <3>2, LocalKeeps
    <2>2. CASE ~(attempt[r] < MaxAttempts)
      <3>1. Reply(r, "UNHANDLED_CONFLICT") /\ UNCHANGED <<keyed, posted>>
        BY <1>8, <2>2, Zenon DEF Conflict
      <3>2. QED
        BY <3>1, ReplyIsLocal, LocalKeeps
    <2>3. QED
      BY <2>1, <2>2
  <1>9. CASE Crash(r)
    BY <1>9, ReplyIsLocal, LocalKeeps DEF Crash
  <1>10. QED
    BY <1>1, <1>2, <1>3, <1>4, <1>5, <1>6, <1>7, <1>8, <1>9 DEF Handle

(* The other services neither touch the index nor the handlers.            *)
LEMMA OthersKeepKeys ==
    ASSUME OtherServices
    PROVE  UNCHANGED <<keyed, requestVars>>
  BY DEF OtherServices, ReserveStock, ReleaseStock, applySalesOrderShipmentExit,
         applyPurchaseReceiptEntry, StartCount, CancelCount,
         applyInventoryAdjustment, UpdateStatus, others

(* Steps that leave index and handlers alone keep the key invariant.       *)
LEMMA UnchangedKeepsKeys ==
    ASSUME KeyInvariant, UNCHANGED <<keyed, requestVars>>
    PROVE  KeyInvariant'
  BY DEF KeyInvariant, KeyIndex, KeyPostedOnce, AnswerIsPosted, ReuseIsRefused,
         command, key, requestVars

(* The key invariant holds at all times: every request of a key is         *)
(* answered consistently with the one movement stored under it.            *)
THEOREM KeysAreConsistent == Spec => []KeyInvariant
  <1>1. TypeOK /\ KeyInvariant /\ [Next]_vars => KeyInvariant'
    <2> SUFFICES ASSUME TypeOK, KeyInvariant, [Next]_vars PROVE KeyInvariant'
      OBVIOUS
    <2>1. CASE UNCHANGED vars
      BY <2>1, UnchangedKeepsKeys DEF vars
    <2>2. CASE \E r \in Requests : Send(r) \/ Handle(r) \/ Crash(r)
      BY <2>2, HandlerKeepsKeys
    <2>3. CASE OtherServices
      BY <2>3, OthersKeepKeys, UnchangedKeepsKeys
    <2>4. QED
      BY <2>1, <2>2, <2>3 DEF Next
  <1>2. QED
    BY <1>1, KeyInit, TypeCorrect, PTL DEF Spec

(* At most one movement row ever carries a key, however often and by       *)
(* however many requests it is sent, through conflicts, crashes and races  *)
(* on the unique index.                                                    *)
THEOREM OneMovementPerKey == Spec => []KeyPostedOnce
  <1>1. KeyInvariant => KeyPostedOnce
    BY DEF KeyInvariant
  <1>2. QED
    BY <1>1, KeysAreConsistent, PTL

(* A movement answered was posted, and is the one asked for.               *)
THEOREM AnswersAreTrue == Spec => []AnswerIsPosted
  <1>1. KeyInvariant => AnswerIsPosted
    BY DEF KeyInvariant
  <1>2. QED
    BY <1>1, KeysAreConsistent, PTL

(* IDEMPOTENCY_KEY_REUSED is only answered to a request that posted        *)
(* nothing and met another command under its key.                          *)
THEOREM ReusesAreRefused == Spec => []ReuseIsRefused
  <1>1. KeyInvariant => ReuseIsRefused
    BY DEF KeyInvariant
  <1>2. QED
    BY <1>1, KeysAreConsistent, PTL

(* A key keeps its promise: one movement, the one asked for, or a true     *)
(* error.                                                                  *)
THEOREM KeysKeepTheirPromise == Spec => []KeysAreSound
  <1>1. KeyPostedOnce /\ AnswerIsPosted /\ ReuseIsRefused => KeysAreSound
    BY DEF KeysAreSound
  <1>2. QED
    BY <1>1, OneMovementPerKey, AnswersAreTrue, ReusesAreRefused, PTL

-----------------------------------------------------------------------------
(* The contract of stock.  The mapping is the identity on the three        *)
(* variables the contract speaks of; everything else Inventory does is a   *)
(* stutter of the contract.                                                *)

(* The contract is about the same cells and the same quantities.           *)
LEMMA SameVocabulary ==
    /\ Contract!Cells = Cells
    /\ Contract!Balances = Balances
    /\ Contract!NoAmount = NoAmount
    /\ \A w : Contract!CellsOf(w) = CellsOf(w)
  BY DEF Contract!Cells, Cells, Contract!Balances, Balances, Contract!NoAmount, NoAmount,
         Contract!CellsOf, CellsOf

(* Only open warehouses and what was free are touched by a movement that   *)
(* passed the checks.                                                      *)
LEMMA MovementMoves ==
    ASSUME TypeOK, TypeOK', NEW cmd \in Commands,
           Unlocked(underInventory, cmd), Sufficient(balance, reserved, cmd, 0),
           balance' = Moved(balance, cmd), UNCHANGED <<reserved, underInventory>>
    PROVE  Contract!Move
  <1>1. balance \in Balances /\ balance' \in Balances /\ reserved \in Amounts
    BY DEF TypeOK
  <1>2. ASSUME NEW c \in Cells, balance'[c] # balance[c]
        PROVE  Contract!Open(c) /\ (balance'[c] > balance[c] \/ balance'[c] >= reserved[c])
    BY <1>1, <1>2, MovementIsLocal DEF Unlocked, Contract!Open
  <1>3. QED
    BY <1>1, <1>2, SameVocabulary DEF Contract!Move

(* A step of a request is a movement of the contract or nothing to it.     *)
LEMMA HandlerImplements ==
    ASSUME TypeOK, TypeOK', NEW r \in Requests, Send(r) \/ Handle(r) \/ Crash(r)
    PROVE  Contract!Move \/ UNCHANGED Contract!vars
  <1>1. CASE UNCHANGED stockVars
    BY <1>1 DEF stockVars, Contract!vars
  <1>2. CASE /\ Accepts(r)
             /\ balance' = Moved(balance, command(r))
             /\ UNCHANGED <<reserved, underInventory>>
    BY <1>2, RequestShape, MovementMoves DEF Accepts
  <1>3. QED
    BY <1>1, <1>2, HandlerStock

(* Reserving holds available stock of one cell.                            *)
LEMMA ReserveImplements ==
    ASSUME TypeOK, TypeOK', ReservedWithinPhysical',
           NEW c \in Cells, NEW q \in Quantities, ReserveStock(c, q)
    PROVE  Contract!Hold
  <1>1. \A d \in Cells : /\ balance[d] \in 0..Capacity /\ balance'[d] = balance[d]
                         /\ reserved[d] \in Nat /\ reserved'[d] \in Nat
                         /\ reserved'[d] <= balance'[d]
                         /\ reserved'[d] = IF d = c THEN reserved[c] + q ELSE reserved[d]
    BY DEF TypeOK, Balances, Amounts, ReservedWithinPhysical, ReserveStock
  <1>2. reserved' \in Balances
    BY WithinBalances DEF TypeOK, ReservedWithinPhysical
  <1>3. Contract!Open(c) /\ UNCHANGED <<balance, underInventory>>
    BY DEF ReserveStock, Contract!Open
  <1>4. \A d \in Cells : \/ reserved'[d] = reserved[d]
                         \/ Contract!Open(d) /\ reserved[d] < reserved'[d] /\ reserved'[d] <= balance[d]
    BY <1>1, <1>3 DEF Quantities
  <1>5. QED
    BY <1>2, <1>3, <1>4, SameVocabulary DEF Contract!Hold

(* Releasing frees it.                                                     *)
LEMMA ReleaseImplements ==
    ASSUME TypeOK, TypeOK', ReservedWithinPhysical',
           NEW c \in Cells, NEW q \in Quantities, ReleaseStock(c, q)
    PROVE  Contract!Free
  <1>1. \A d \in Cells : /\ balance'[d] \in 0..Capacity
                         /\ reserved[d] \in Nat /\ reserved'[d] \in Nat
                         /\ reserved'[d] <= balance'[d]
                         /\ reserved'[d] = IF d = c THEN reserved[c] - q ELSE reserved[d]
    BY DEF TypeOK, Balances, Amounts, ReservedWithinPhysical, ReleaseStock
  <1>2. reserved' \in Balances
    BY WithinBalances DEF TypeOK, ReservedWithinPhysical
  <1>3. \A d \in Cells : reserved'[d] <= reserved[d]
    BY <1>1 DEF Quantities
  <1>4. QED
    BY <1>2, <1>3, SameVocabulary DEF Contract!Free, ReleaseStock

(* A shipment's exit takes stock and reservation together.                 *)
LEMMA ShipmentImplements ==
    ASSUME TypeOK, TypeOK', ReservedWithinPhysical',
           NEW c \in Cells, NEW q \in Quantities, applySalesOrderShipmentExit(c, q)
    PROVE  Contract!Ship
  <1> DEFINE cmd == Command("EXIT", c[1], q, c[2], NoLocation)
  <1>1. c = <<c[1], c[2]>> /\ c[2] \in Locations
    BY DEF Cells
  <1>2. /\ balance' = Moved(balance, cmd) /\ reserved' = [reserved EXCEPT ![c] = @ - q]
        /\ Unlocked(underInventory, cmd) /\ UNCHANGED underInventory
    BY DEF applySalesOrderShipmentExit
  <1>3. \A d \in Cells : Out(cmd, d) = (IF d = c THEN q ELSE 0) /\ In(cmd, d) = 0
    BY <1>1, NoLocationAssumption DEF Out, In, Command, Cells
  <1>4. \A d \in Cells : /\ balance[d] \in 0..Capacity /\ balance'[d] \in 0..Capacity
                         /\ reserved[d] \in Nat /\ reserved'[d] \in Nat
                         /\ reserved'[d] <= balance'[d]
                         /\ reserved'[d] = (IF d = c THEN reserved[c] - q ELSE reserved[d])
                         /\ balance'[d] = (balance[d] - Out(cmd, d)) + In(cmd, d)
    BY <1>2 DEF TypeOK, Balances, Amounts, ReservedWithinPhysical, Moved
  <1>5. balance' \in Balances /\ reserved' \in Balances
    BY WithinBalances DEF TypeOK, ReservedWithinPhysical
  <1>6. WarehouseOf[c[2]] \in WarehousesOf(cmd)
    BY <1>1, WarehouseOfEndpoint DEF Command
  <1>7. Contract!Open(c)
    BY <1>2, <1>6 DEF Unlocked, Contract!Open
  <1>8. \A d \in Cells :
          \/ balance'[d] = balance[d] /\ reserved'[d] = reserved[d]
          \/ Contract!Open(d) /\ reserved'[d] < reserved[d]
                     /\ balance[d] - balance'[d] = reserved[d] - reserved'[d]
    BY <1>3, <1>4, <1>7 DEF Quantities
  <1>9. QED
    BY <1>2, <1>5, <1>8, SameVocabulary DEF Contract!Ship

(* A receipt is a movement that takes nothing away.                        *)
LEMMA ReceiptImplements ==
    ASSUME TypeOK, TypeOK', NEW c \in Cells, NEW q \in Quantities,
           applyPurchaseReceiptEntry(c, q)
    PROVE  Contract!Move
  <1> DEFINE cmd == Command("ENTRY", c[1], q, NoLocation, c[2])
  <1>1. cmd \in Commands
    BY EntryIsCommand
  <1>2. Sufficient(balance, reserved, cmd, 0)
    BY DEF Sufficient, Command
  <1>3. /\ Unlocked(underInventory, cmd) /\ balance' = Moved(balance, cmd)
        /\ UNCHANGED <<reserved, underInventory>>
    BY DEF applyPurchaseReceiptEntry
  <1>4. QED
    BY <1>1, <1>2, <1>3, MovementMoves

(* The adjustment of a count is its approval.                              *)
LEMMA AdjustmentImplements ==
    ASSUME TypeOK, TypeOK', NEW cmd \in Commands, applyInventoryAdjustment(cmd)
    PROVE  \E w \in Warehouses : Contract!ApproveCount(w)
  <1>1. PICK w \in Warehouses : WarehousesOf(cmd) = {w}
    BY AdjustmentHasOneSide DEF applyInventoryAdjustment
  <1>2. /\ w \in underInventory /\ underInventory' = underInventory \ {w}
        /\ balance \in Balances /\ balance' \in Balances /\ reserved \in Amounts
        /\ UNCHANGED reserved
        /\ balance' = Moved(balance, cmd) /\ Sufficient(balance, reserved, cmd, 0)
    BY <1>1 DEF applyInventoryAdjustment, TypeOK
  <1>3. ASSUME NEW c \in Cells, balance'[c] # balance[c]
        PROVE  c \in CellsOf(w) /\ (balance'[c] > balance[c] \/ balance'[c] >= reserved[c])
    BY <1>1, <1>2, <1>3, MovementIsLocal DEF CellsOf
  <1>4. QED
    BY <1>2, <1>3, SameVocabulary DEF Contract!ApproveCount

(* Every step of the other services is a step of the contract.             *)
LEMMA OthersImplement ==
    ASSUME TypeOK, TypeOK', ReservedWithinPhysical', OtherServices
    PROVE  Contract!Next \/ UNCHANGED Contract!vars
  <1>1. ASSUME NEW c \in Cells, NEW q \in Quantities,
               \/ ReserveStock(c, q) \/ ReleaseStock(c, q)
               \/ applySalesOrderShipmentExit(c, q) \/ applyPurchaseReceiptEntry(c, q)
        PROVE  Contract!Next
    BY <1>1, ReserveImplements, ReleaseImplements, ShipmentImplements, ReceiptImplements
       DEF Contract!Next
  <1>2. ASSUME NEW w \in Warehouses, StartCount(w) \/ CancelCount(w)
        PROVE  Contract!Next
    <2>1. Contract!OpenCount(w) \/ Contract!CloseCount(w)
      BY <1>2 DEF StartCount, CancelCount, Contract!OpenCount, Contract!CloseCount
    <2>2. QED
      BY <2>1 DEF Contract!Next
  <1>3. ASSUME NEW cmd \in Commands, applyInventoryAdjustment(cmd)
        PROVE  Contract!Next
    BY <1>3, AdjustmentImplements DEF Contract!Next
  <1>4. ASSUME NEW x \in Switchable, UpdateStatus(x)
        PROVE  UNCHANGED Contract!vars
    BY <1>4 DEF UpdateStatus, stockVars, Contract!vars
  <1>5. QED
    BY <1>1, <1>2, <1>3, <1>4 DEF OtherServices

(* No step of Inventory is seen by the contract as anything it forbids.    *)
LEMMA StepImplements ==
    ASSUME TypeOK, TypeOK', ReservedWithinPhysical', [Next]_vars
    PROVE  [Contract!Next]_(Contract!vars)
  <1>1. CASE UNCHANGED vars
    BY <1>1 DEF vars, stockVars, Contract!vars
  <1>2. CASE \E r \in Requests : Send(r) \/ Handle(r) \/ Crash(r)
    BY <1>2, HandlerImplements DEF Contract!Next
  <1>3. CASE OtherServices
    BY <1>3, OthersImplement
  <1>4. QED
    BY <1>1, <1>2, <1>3 DEF Next

(* Manual movements, with their races, retries and crashes, and every      *)
(* other service's movements keep the contract of the stock they share.    *)
THEOREM InventoryKeepsContract == Spec => ImplementsContract
  <1>1. Init => Contract!Init
    BY InitType, SameVocabulary DEF Init, TypeOK, Contract!Init
  <1>2. TypeOK /\ TypeOK' /\ ReservedWithinPhysical' /\ [Next]_vars
            => [Contract!Next]_(Contract!vars)
    BY StepImplements
  <1>3. Spec => Contract!Spec
    BY <1>1, <1>2, TypeCorrect, ReservationsAreCovered, PTL DEF Spec, Contract!Spec
  <1>4. QED
    BY <1>3 DEF ImplementsContract

(* What the contract says of a cell whose warehouse is and stays locked.   *)
LEMMA ContractLocks ==
    ASSUME [Contract!Next]_(Contract!vars), TypeOK, NEW c \in Cells,
           WarehouseOf[c[2]] \in underInventory \cap underInventory'
    PROVE  balance'[c] = balance[c] /\ reserved'[c] <= reserved[c]
  <1>0. reserved[c] \in Nat /\ ~Contract!Open(c)
    BY DEF TypeOK, Amounts, Contract!Open
  <1>1. CASE Contract!Move \/ Contract!Hold
    BY <1>0, <1>1, SameVocabulary DEF Contract!Move, Contract!Hold
  <1>2. CASE Contract!Free \/ Contract!Ship
    BY <1>0, <1>2, SameVocabulary DEF Contract!Free, Contract!Ship
  <1>3. CASE \E w \in Warehouses : Contract!OpenCount(w) \/ Contract!CloseCount(w)
    BY <1>0, <1>3 DEF Contract!OpenCount, Contract!CloseCount
  <1>4. ASSUME NEW w \in Warehouses, Contract!ApproveCount(w)
        PROVE  balance'[c] = balance[c] /\ reserved'[c] <= reserved[c]
    <2>1. c \notin Contract!CellsOf(w)
      BY <1>4, SameVocabulary DEF Contract!ApproveCount, CellsOf
    <2>2. QED
      BY <1>0, <1>4, <2>1, SameVocabulary DEF Contract!ApproveCount
  <1>5. CASE UNCHANGED Contract!vars
    BY <1>0, <1>5 DEF Contract!vars
  <1>6. QED
    BY <1>1, <1>2, <1>3, <1>4, <1>5 DEF Contract!Next

(* While a warehouse stays under inventory nothing enters it, leaves it or *)
(* is promised in it, whoever acts.                                        *)
THEOREM LockedStockIsFrozen == Spec => LockedStockStays
  <1>1. TypeOK /\ TypeOK' /\ ReservedWithinPhysical' /\ [Next]_vars =>
          \A c \in Cells : (WarehouseOf[c[2]] \in underInventory \cap underInventory')
              => (balance'[c] = balance[c] /\ reserved'[c] <= reserved[c])
    BY StepImplements, ContractLocks
  <1>2. QED
    BY <1>1, TypeCorrect, ReservationsAreCovered, PTL DEF Spec, LockedStockStays

(* No retry, crash or concurrent request rebinds a key once a movement is  *)
(* stored under it.                                                        *)
THEOREM KeysNeverChange == Spec => KeysAreStable
  <1>1. TypeOK /\ [Next]_vars =>
          \A k \in Keys : keyed[k] # NoMovement => keyed'[k] = keyed[k]
    <2> SUFFICES ASSUME TypeOK, [Next]_vars, keyed' # keyed
                 PROVE  \A k \in Keys : keyed[k] # NoMovement => keyed'[k] = keyed[k]
      OBVIOUS
    <2>1. PICK r \in Requests : Commit(r)
      BY OthersKeepKeys
         DEF Next, Handle, vars, Send, BeginTransaction, ReturnExisting, Refuse,
             UniqueViolation, ResolveDuplicate, Conflict, Crash
    <2>2. key(r) # NoKey => keyed[key(r)] = NoMovement
      BY <2>1 DEF Commit, Existing
    <2>3. QED
      BY <2>1, <2>2 DEF Commit, Post, TypeOK
  <1>2. QED
    BY <1>1, TypeCorrect, PTL DEF Spec, KeysAreStable

-----------------------------------------------------------------------------
(* What follows from the contract alone, so for every component that keeps *)
(* it; stated of these variables, which stand for those of any of them.    *)

(* No cell is reserved initially, and balances are natural numbers.        *)
LEMMA ContractInit == Contract!Init => Contract!TypeOK /\ Contract!ReservedWithinPhysical
  <1> SUFFICES ASSUME Contract!Init
               PROVE  Contract!TypeOK /\ Contract!ReservedWithinPhysical
    OBVIOUS
  <1>1. Contract!TypeOK
    BY DEF Contract!Init, Contract!TypeOK, Contract!NoAmount, Contract!Amounts
  <1>2. \A c \in Contract!Cells : reserved[c] = 0 /\ balance[c] \in 0..Capacity
    BY DEF Contract!Init, Contract!NoAmount, Contract!Balances
  <1>3. QED
    BY <1>1, <1>2, CapacityAssumption DEF Contract!ReservedWithinPhysical

(* Every step of the contract keeps its types: a balance is an amount.     *)
LEMMA ContractKeepsTypes ==
    ASSUME Contract!TypeOK, Contract!Next
    PROVE  Contract!TypeOK'
  <1>1. Contract!Balances \subseteq Contract!Amounts
    BY CapacityAssumption DEF Contract!Balances, Contract!Amounts
  <1>2. CASE Contract!Move \/ Contract!Hold \/ Contract!Free \/ Contract!Ship
    BY <1>1, <1>2
       DEF Contract!Move, Contract!Hold, Contract!Free, Contract!Ship, Contract!TypeOK
  <1>3. ASSUME NEW w \in Warehouses,
               Contract!OpenCount(w) \/ Contract!CloseCount(w) \/ Contract!ApproveCount(w)
        PROVE  Contract!TypeOK'
    BY <1>3 DEF Contract!OpenCount, Contract!CloseCount, Contract!ApproveCount, Contract!TypeOK
  <1>4. QED
    BY <1>2, <1>3 DEF Contract!Next

(* What a step takes from a cell was free, or promised to whom it goes.    *)
LEMMA ContractKeepsCover ==
    ASSUME Contract!TypeOK, Contract!ReservedWithinPhysical, Contract!Next,
           NEW c \in Contract!Cells
    PROVE  reserved'[c] <= balance'[c]
  <1>1. /\ balance[c] \in Int /\ balance'[c] \in Int
        /\ reserved[c] \in Int /\ reserved'[c] \in Int
        /\ reserved[c] <= balance[c]
    BY ContractKeepsTypes, CapacityAssumption
       DEF Contract!TypeOK, Contract!ReservedWithinPhysical, Contract!Balances, Contract!Amounts
  <1>2. CASE Contract!Move \/ Contract!Hold \/ Contract!Free
    BY <1>1, <1>2 DEF Contract!Move, Contract!Hold, Contract!Free
  <1>3. CASE Contract!Ship
    BY <1>1, <1>3 DEF Contract!Ship
  <1>4. ASSUME NEW w \in Warehouses,
               Contract!OpenCount(w) \/ Contract!CloseCount(w) \/ Contract!ApproveCount(w)
        PROVE  reserved'[c] <= balance'[c]
    BY <1>1, <1>4 DEF Contract!OpenCount, Contract!CloseCount, Contract!ApproveCount
  <1>5. QED
    BY <1>2, <1>3, <1>4 DEF Contract!Next

(* physicalQuantity >= reservedQuantity in every component that keeps the  *)
(* contract: SalesFlow, InventoryCounts and Purchasing inherit this.       *)
THEOREM ContractCoversReservations == Contract!Spec => []Contract!ReservedWithinPhysical
  <1>1. ASSUME Contract!TypeOK, Contract!ReservedWithinPhysical, [Contract!Next]_(Contract!vars)
        PROVE  Contract!TypeOK' /\ Contract!ReservedWithinPhysical'
    <2>1. CASE Contract!Next
      BY <1>1, <2>1, ContractKeepsTypes, ContractKeepsCover DEF Contract!ReservedWithinPhysical
    <2>2. CASE UNCHANGED Contract!vars
      BY <1>1, <2>2 DEF Contract!vars, Contract!TypeOK, Contract!ReservedWithinPhysical
    <2>3. QED
      BY <1>1, <2>1, <2>2
  <1>2. QED
    BY <1>1, ContractInit, PTL DEF Contract!Spec
=============================================================================
