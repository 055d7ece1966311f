----------------------------- MODULE MCFinance -----------------------------
(***************************************************************************)
(* An instance of Finance with two scenarios, one chosen at the start.     *)
(*   keys:  two titles of two units, two settlement requests, each sent    *)
(*          twice, that may share a key, with equal or different content.  *)
(*   books: one title of one to three units, settled in parts, edited,     *)
(*          cancelled, and a report read beside the settlements.           *)
(***************************************************************************)
EXTENDS Finance

CONSTANTS e1, e2, k1, k2, d1, d2, r1, r2

VARIABLE scenario

Settlement(e, a, d, k) == [entry |-> e, amount |-> a, details |-> d, key |-> k]

First == Settlement(e1, 1, d1, k1)
OtherNotes == Settlement(e1, 1, d2, k1)
OtherTitle == Settlement(e2, 1, d1, k1)
OtherKey == Settlement(e1, 1, d1, k2)
Rest == Settlement(e1, 2, d1, k2)
RestSameKey == Settlement(e1, 2, d1, k1)

MCRequests == {r1, r2}
MCAmounts == 1..3
MCDays == 1..2
MCBodies == {First, OtherNotes, OtherTitle, OtherKey, Rest, RestSameKey}

Pair(b1, b2) == body = [r \in Requests |-> IF r = r1 THEN b1 ELSE b2]

(* The two requests are interchangeable: one order of each pair is enough. *)
MCInit ==
    /\ Init
    /\ \/ scenario = "keys" /\ \E b \in {First, OtherNotes, OtherTitle, Rest} : Pair(First, b)
       \/ scenario = "keys" /\ Pair(OtherTitle, Rest)
       \/ scenario = "books" /\ \E b \in {OtherKey, Rest} : Pair(First, b)
       \/ scenario = "books" /\ Pair(Rest, RestSameKey)

(* What the other scenario examines does not happen in this one.           *)
Within ==
    CASE scenario = "keys" ->
            /\ \A e \in Entries : originalAmount'[e] \in {0, 2}
            /\ dueDate' = dueDate
            /\ report' = report
      [] scenario = "books" ->
            /\ status'[e2] = "NONE"
            /\ \A r \in Requests : sends'[r] <= 1 /\ attempt'[r] = 1

MCSpec ==
    /\ MCInit
    /\ [][Next /\ Within /\ UNCHANGED scenario]_<<vars, scenario>>
    /\ \A r \in Requests : WF_vars(Handle(r))
=============================================================================
