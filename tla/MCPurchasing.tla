---------------------------- MODULE MCPurchasing ----------------------------
(***************************************************************************)
(* An instance of Purchasing with three scenarios, one chosen at the start.*)
(*   races: an order of up to two products; two clients whose update,      *)
(*          submit, approve and cancel overlap with each other and with    *)
(*          partial receipts.                                              *)
(*   keys:  two receipt requests, each sent twice, that may share a key.   *)
(*   stock: partial receipts into two locations beside movements, counts   *)
(*          and status changes.                                            *)
(***************************************************************************)
EXTENDS Purchasing

CONSTANTS o1, p1, p2, l1, l2, w1, k1, k2, d1, d2, r1, r2, t1, t2

VARIABLE scenario

MCProducts == {p1, p2}
MCLocations == {l1, l2}
MCWarehouses == {w1}
MCClients == {t1, t2}
MCRequests == {r1, r2}
SameWarehouse == [l \in {l1, l2} |-> w1]

Receipt(quantity, l, d, k) ==
    [order |-> o1, quantity |-> quantity, location |-> [p \in {p1, p2} |-> l],
     details |-> d, key |-> k]
Only(p, n) == [x \in {p1, p2} |-> IF x = p THEN n ELSE 0]
Both == [x \in {p1, p2} |-> 1]

RaceItems == {Both, Only(p1, 1)}
First == Receipt(Only(p1, 1), l1, d1, k1)
Second == Receipt(Only(p2, 1), l1, d1, k2)
Complete == Receipt(Both, l1, d1, k1)
OtherNotes == Receipt(Only(p1, 1), l1, d2, k1)
OtherKey == Receipt(Only(p1, 1), l1, d1, k2)
OtherLocation == Receipt(Only(p1, 1), l2, d1, k2)
FullItems == {Only(p1, 2)}

MCItemChoices == RaceItems \cup FullItems
MCBodies == {First, Second, Complete, OtherNotes, OtherKey, OtherLocation}
MCSwitchable == {p1, l1}
MCElsewhere == {cmd \in Commands : cmd.productId = p1}

Pair(b1, b2) == body = [r \in Requests |-> IF r = r1 THEN b1 ELSE b2]

(* The two requests are interchangeable: one order of each pair is enough. *)
MCInit ==
    /\ Init
    /\ \/ scenario = "races" /\ Pair(First, Second)
       \/ scenario = "races" /\ \E b \in {First, Second} : Pair(Complete, b)
       \/ scenario = "keys" /\ \E b \in {First, OtherNotes, OtherKey} : Pair(First, b)
       \/ scenario = "stock" /\ Pair(First, OtherLocation)

OneClient == request'[t2] = NoRequest
OneSend == \A r \in Requests : sends'[r] <= 1 /\ attempt'[r] = 1
OnlyReceipts == inactive' = inactive /\ underInventory' = underInventory
                /\ (receipts' = receipts => balance' = balance)
Asked(choices) ==
    /\ \A o \in Orders : items'[o] \in choices \cup {NoItems}
    /\ \A t \in Clients : request'[t] # NoRequest => request'[t].items \in choices

(* What the other scenarios examine does not happen in this one.           *)
Within ==
    CASE scenario = "races" -> Asked(RaceItems) /\ OneSend /\ OnlyReceipts
      [] scenario = "keys" -> Asked(FullItems) /\ OneClient /\ OnlyReceipts
      [] scenario = "stock" -> Asked(FullItems) /\ OneClient /\ OneSend

MCSpec ==
    /\ MCInit
    /\ [][Next /\ Within /\ UNCHANGED scenario]_<<vars, scenario>>
    /\ \A r \in Requests : WF_vars(Handle(r))
=============================================================================
