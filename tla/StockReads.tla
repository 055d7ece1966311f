----------------------------- MODULE StockReads -----------------------------
(***************************************************************************)
(* How the API reads what is available, beside the steps that StockContract *)
(* allows the writers: the balances in one statement and the sum of the     *)
(* reservations in the next, except in the reports, whose one statement     *)
(* reads both.                                                              *)
(***************************************************************************)
EXTENDS StockContract

VARIABLES
    reading,   \* the balances a read under way has seen, or NotReading
    answer,    \* what was available at each cell of the last answer
    truth,     \* what was available there when it was computed
    touched,   \* cells whose physical stock changed during the read
    risen      \* those of them whose stock rose

readVars == <<reading, answer, truth, touched, risen>>

NotReading == <<>>
Partial == UNION {[s -> 0..Capacity] : s \in SUBSET Cells}
Answers == UNION {[s -> (-Capacity)..Capacity] : s \in SUBSET Cells}

(* Types: a read under way has not been answered.                           *)
ReadsTypeOK ==
    /\ TypeOK
    /\ reading \in Partial \cup {NotReading}
    /\ answer \in Answers /\ truth \in Answers
    /\ DOMAIN truth = DOMAIN answer
    /\ risen \subseteq touched /\ touched \subseteq Cells

ReadsInit ==
    /\ Init
    /\ reading = NotReading
    /\ answer = <<>> /\ truth = <<>>
    /\ touched = {} /\ risen = {}

(* A writer commits.                                                        *)
Write ==
    /\ Next
    /\ IF reading = NotReading
         THEN UNCHANGED <<touched, risen>>
         ELSE /\ touched' = touched \cup {c \in Cells : balance'[c] # balance[c]}
              /\ risen' = risen \cup {c \in Cells : balance'[c] > balance[c]}
    /\ UNCHANGED <<reading, answer, truth>>

(* The balances of the cells s are read.                                    *)
ReadBalances(s) ==
    /\ reading = NotReading
    /\ reading' = [c \in s |-> balance[c]]
    /\ answer' = <<>> /\ truth' = <<>>
    /\ touched' = {} /\ risen' = {}
    /\ UNCHANGED vars

FindBalances == \E s \in (SUBSET Cells) \ {{}} : ReadBalances(s)
FindBalance == \E c \in Cells : ReadBalances({c})
FindProductBalance == \E p \in Products : ReadBalances({c \in Cells : c[1] = p})

(* Fault: reservations are looked up by product alone.                      *)
FaultAvailable(physical) ==
    [c \in DOMAIN physical |->
        physical[c] - reserved[CHOOSE d \in Cells : d[1] = c[1]]]

(* The ACTIVE reservations of a cell are found by product and location.     *)
Available(physical) == [c \in DOMAIN physical |-> physical[c] - reserved[c]]

(* The reservations are summed and the answer is computed.                  *)
ReadReserved ==
    /\ reading # NotReading
    /\ answer' = Available(reading)
    /\ truth' = [c \in DOMAIN reading |-> balance[c] - reserved[c]]
    /\ reading' = NotReading
    /\ UNCHANGED <<vars, touched, risen>>

(* The statements of the reports see one snapshot.                          *)
ReadBoth(s) ==
    /\ reading = NotReading
    /\ answer' = Available([c \in s |-> balance[c]])
    /\ truth' = [c \in s |-> balance[c] - reserved[c]]
    /\ touched' = {} /\ risen' = {}
    /\ UNCHANGED <<vars, reading>>

InventoryReport == \E s \in (SUBSET Cells) \ {{}} : ReadBoth(s)
InventorySummary == ReadBoth(Cells)

ReadsNext ==
    \/ Write
    \/ FindBalances \/ FindBalance \/ FindProductBalance \/ ReadReserved
    \/ InventoryReport \/ InventorySummary

ReadsSpec == ReadsInit /\ [][ReadsNext]_<<vars, readVars>>

-----------------------------------------------------------------------------
(* What is shown as available is available when it is answered, wherever no *)
(* stock entered or left during the read; reservations may come and go.     *)
AvailableIsCurrent == \A c \in DOMAIN answer \ touched : answer[c] = truth[c]

(* A negative quantity is shown only where stock entered during the read    *)
(* and was promised at once: the balance is old, the reservation new.       *)
NegativeNeedsEntry == \A c \in DOMAIN answer : answer[c] < 0 => c \in risen
=============================================================================
