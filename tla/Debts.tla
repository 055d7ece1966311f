------------------------------- MODULE Debts -------------------------------
(***************************************************************************)
(* What financial entries promise, whatever requests, retries and reports  *)
(* run: an entry is a debt that is issued, may be revised or voided as     *)
(* long as nothing was paid on it, and is then paid down, never below      *)
(* zero, by payments of which each idempotency key makes at most one.      *)
(* Finance is shown to implement this specification.                       *)
(***************************************************************************)
EXTENDS Integers

CONSTANTS
    Entries,      \* financial entries (titles)
    Amounts,      \* amounts an entry may be issued for
    Keys,         \* idempotency keys
    Payments,     \* what may be stored under a key: [entry, amount, ...]
    NoPayment     \* nothing is stored under the key

VARIABLES
    debt,      \* what is still owed on each entry
    stage,     \* NONE, LIVE or VOID, for each entry
    paid       \* the payment made under each key

vars == <<debt, stage, paid>>

Init ==
    /\ debt = [e \in Entries |-> 0]
    /\ stage = [e \in Entries |-> "NONE"]
    /\ paid = [k \in Keys |-> NoPayment]

Untouched(e) == \A k \in Keys : paid[k] # NoPayment => paid[k].entry # e

(* Also a revision: a debt on which nothing was paid takes a new amount.   *)
Issue(e, amount) ==
    /\ stage[e] # "VOID"
    /\ Untouched(e)
    /\ debt' = [debt EXCEPT ![e] = amount]
    /\ stage' = [stage EXCEPT ![e] = "LIVE"]
    /\ UNCHANGED paid

Void(e) ==
    /\ stage[e] = "LIVE"
    /\ Untouched(e)
    /\ debt' = [debt EXCEPT ![e] = 0]
    /\ stage' = [stage EXCEPT ![e] = "VOID"]
    /\ UNCHANGED paid

Pay(k, p) ==
    /\ paid[k] = NoPayment
    /\ stage[p.entry] = "LIVE"
    /\ p.amount <= debt[p.entry]
    /\ debt' = [debt EXCEPT ![p.entry] = @ - p.amount]
    /\ paid' = [paid EXCEPT ![k] = p]
    /\ UNCHANGED stage

Next ==
    \/ \E e \in Entries : Void(e) \/ \E amount \in Amounts : Issue(e, amount)
    \/ \E k \in Keys, p \in Payments : Pay(k, p)

Spec == Init /\ [][Next]_vars
=============================================================================
