--------------------------- MODULE Finance_proofs ---------------------------
(***************************************************************************)
(* What Finance guarantees for every set of titles, requests, keys and     *)
(* amounts: the books agree (BooksStayTrue), a key settles once            *)
(* (KeysKeepTheirPromise), a combined report misses nothing                *)
(* (ReportsMissNothing), and titles and settlements are debts and payments *)
(* (FinanceKeepsLedger).  Sums over the settlement rows are taken from     *)
(* Basics_proofs.                                                          *)
(***************************************************************************)
EXTENDS Finance, Basics_proofs

USE EntryAmountsAssumption, DaysAssumption, BodiesAssumption, NoSettlementAssumption,
    MaxSendsAssumption

(* What one row contributes to the settled amount of a title.              *)
Contribution(rows, e) ==
    [i \in DOMAIN rows |-> IF rows[i].entry = e THEN rows[i].amount ELSE 0]

(* A title that exists is one for a positive amount.                       *)
IssuedIsPositive == \A e \in Entries : status[e] # "NONE" => originalAmount[e] # 0

(* The inductive invariant of the books.                                   *)
BooksInvariant == SettledIsExplained /\ StatusAgrees /\ IssuedIsPositive

(* What a transaction's lookup returned is stored under the request's key. *)
FoundIsRow ==
    \A r \in Requests : found[r] # NoSettlement =>
        \E i \in DOMAIN settlements :
            settlements[i] = found[r] /\ settlements[i].key = body[r].key

(* A handler that lost the race for a key will find the winner's row.      *)
DuplicateHasRow ==
    \A r \in Requests : pc[r] = "duplicate" =>
        \E i \in DOMAIN settlements : settlements[i].key = body[r].key

(* A request refused for a reused key met another row under that key.      *)
ReuseMetOther ==
    \A r \in Requests : answer[r] = "IDEMPOTENCY_KEY_REUSED" =>
        \E i \in DOMAIN settlements :
            settlements[i].key = body[r].key /\ settlements[i] # body[r]

(* The inductive invariant of the keys.                                    *)
KeyInvariant ==
    KeySettlesOnce /\ AnswerIsRecorded /\ FoundIsRow /\ DuplicateHasRow /\ ReuseMetOther

(* The inductive invariant of the reports: until the settlements are read, *)
(* what is settled now stands for what will be read.                       *)
ReportCovers ==
    \A v \in Readers : report[v] # NoReport =>
        \A e \in Entries :
            report[v].forecast[e]
              + (IF report[v].complete THEN report[v].realized[e] ELSE settledAmount[e])
                >= report[v].asked[e]

-----------------------------------------------------------------------------
(* Types.                                                                  *)

LEMMA BodyShape ==
    ASSUME NEW b \in Bodies
    PROVE  b.entry \in Entries /\ b.amount \in Nat \ {0} /\ b.key \in Keys
  OBVIOUS

(* The settled amount of a title is a sum over the rows.                   *)
LEMMA SettledOnIsSum ==
    ASSUME NEW e
    PROVE  SettledOn(e) = SumFunctionOnSet(Contribution(settlements, e), DOMAIN settlements)
  BY DEF SettledOn, SumFunction, Contribution

LEMMA ContributionType ==
    ASSUME NEW rows \in Seq(Bodies), NEW e
    PROVE  /\ IsFiniteSet(DOMAIN rows)
           /\ DOMAIN rows = 1..Len(rows)
           /\ \A i \in DOMAIN rows : Contribution(rows, e)[i] \in Nat
  <1>1. DOMAIN rows = 1..Len(rows) /\ \A i \in DOMAIN rows : rows[i] \in Bodies
    OBVIOUS
  <1>2. IsFiniteSet(DOMAIN rows)
    BY <1>1, FS_Interval
  <1>3. QED
    BY <1>1, <1>2, BodyShape DEF Contribution

LEMMA SettledOnType ==
    ASSUME TypeOK, NEW e
    PROVE  SettledOn(e) \in Nat
  <1>1. settlements \in Seq(Bodies)
    BY DEF TypeOK
  <1>2. QED
    BY <1>1, SettledOnIsSum, ContributionType, SumOfNaturals

(* One settlement more adds its amount to its title, and to no other.      *)
LEMMA SettledOnGrows ==
    ASSUME TypeOK, NEW b \in Bodies, settlements' = Append(settlements, b), NEW e
    PROVE  SettledOn(e)' = SettledOn(e) + (IF b.entry = e THEN b.amount ELSE 0)
  <1> DEFINE n == Len(settlements)
             f == Contribution(settlements, e)
             h == Contribution(settlements', e)
  <1>1. settlements \in Seq(Bodies) /\ n \in Nat /\ settlements' \in Seq(Bodies)
    BY DEF TypeOK
  <1>2. DOMAIN settlements = 1..n /\ DOMAIN settlements' = 1..(n + 1)
    BY <1>1
  <1>3. \A i \in 1..n : f[i] \in Int /\ h[i] = f[i]
    BY <1>1, <1>2, ContributionType DEF Contribution
  <1>4. h[n + 1] = (IF b.entry = e THEN b.amount ELSE 0) /\ h[n + 1] \in Int
    BY <1>1, <1>2, BodyShape DEF Contribution
  <1>5. SettledOn(e) = SumFunctionOnSet(f, 1..n)
    BY <1>2, SettledOnIsSum, Zenon
  <1>6. SettledOn(e)' = SumFunctionOnSet(h, 1..(n + 1))
    <2>1. SettledOn(e)' = SumFunctionOnSet(h, DOMAIN settlements')
      BY DEF SettledOn, SumFunction, Contribution
    <2>2. QED
      BY <1>2, <2>1, Zenon
  <1> HIDE DEF n, f, h
  <1>7. SumFunctionOnSet(h, 1..(n + 1)) = SumFunctionOnSet(f, 1..n) + h[n + 1]
    BY <1>1, <1>3, <1>4, SumAddsLast
  <1>8. QED
    BY <1>4, <1>5, <1>6, <1>7

(* A title without settled amount has no settlement.                       *)
LEMMA NothingSettled ==
    ASSUME TypeOK, NEW e, SettledOn(e) = 0
    PROVE  \A i \in DOMAIN settlements : settlements[i].entry # e
  <1>1. settlements \in Seq(Bodies)
    BY DEF TypeOK
  <1>2. \A i \in DOMAIN settlements : Contribution(settlements, e)[i] = 0
    BY <1>1, SettledOnIsSum, ContributionType, SumOfNaturals
  <1>3. QED
    BY <1>1, <1>2, BodyShape DEF Contribution

-----------------------------------------------------------------------------
(* Types.                                                                  *)

LEMMA ReplyType ==
    ASSUME TypeOK, NEW r \in Requests, NEW a \in Answers, Reply(r, a)
    PROVE  /\ pc' \in [Requests -> PC]
           /\ answer' \in [Requests -> Answers]
           /\ attempt' \in [Requests -> 1..MaxAttempts]
           /\ found' \in [Requests -> Bodies \cup {NoSettlement}]
           /\ UNCHANGED <<body, sends>>
  BY DEF TypeOK, Reply, PC, MaxAttempts

LEMMA ExistingType ==
    ASSUME TypeOK, NEW k
    PROVE  Existing(k) \in Bodies \cup {NoSettlement}
  BY DEF TypeOK, Existing

LEMMA TitlesKeepTypes ==
    ASSUME TypeOK, Titles
    PROVE  TypeOK'
  <1> PICK e \in Entries :
        \/ cancel(e)
        \/ \E amount \in EntryAmounts, due \in Days :
                create(e, amount, due) \/ update(e, amount, due)
    BY DEF Titles
  <1> USE DEF TypeOK, Statuses
  <1>1. CASE cancel(e)
    BY <1>1 DEF cancel, requestVars
  <1>2. ASSUME NEW amount \in EntryAmounts, NEW due \in Days, create(e, amount, due)
        PROVE  TypeOK'
    BY <1>2 DEF create, requestVars
  <1>3. ASSUME NEW amount \in EntryAmounts, NEW due \in Days, update(e, amount, due)
        PROVE  TypeOK'
    BY <1>3 DEF update, requestVars
  <1>4. QED
    BY <1>1, <1>2, <1>3

LEMMA RecordKeepsTypes ==
    ASSUME TypeOK, NEW r \in Requests, Record(r), Settleable(r)
    PROVE  /\ status' \in [Entries -> Statuses \cup {"NONE"}]
           /\ originalAmount' \in [Entries -> Nat]
           /\ settledAmount' \in [Entries -> Nat]
           /\ dueDate' \in [Entries -> Days]
           /\ settlements' \in Seq(Bodies)
  <1>1. body[r] \in Bodies /\ body[r].entry \in Entries /\ body[r].amount \in Nat
    BY BodyShape DEF TypeOK
  <1>2. settlements' \in Seq(Bodies)
    BY <1>1 DEF TypeOK, Record
  <1>3. QED
    BY <1>1, <1>2 DEF TypeOK, Record, NextStatus, Statuses

LEMMA HandlerKeepsTypes ==
    ASSUME TypeOK, NEW r \in Requests, Send(r) \/ Handle(r) \/ Crash(r)
    PROVE  TypeOK'
  <1>1. CASE Send(r)
    BY <1>1 DEF TypeOK, Send, PC, Answers, entryVars
  <1>2. CASE BeginTransaction(r)
    BY <1>2, ExistingType DEF TypeOK, BeginTransaction, PC, entryVars
  <1>3. ASSUME NEW a \in Answers, Reply(r, a), UNCHANGED <<entryVars, settlements, report>>
        PROVE  TypeOK'
    BY <1>3, ReplyType DEF TypeOK, entryVars
  <1>4. CASE Commit(r)
    <2>1. Reply(r, "SETTLEMENT") /\ "SETTLEMENT" \in Answers /\ Record(r) /\ Settleable(r) /\ UNCHANGED report
      BY <1>4 DEF Commit, Answers
    <2>2. QED
      BY <2>1, ReplyType, RecordKeepsTypes DEF TypeOK
  <1>5. CASE UniqueViolation(r)
    BY <1>5 DEF TypeOK, UniqueViolation, PC, entryVars
  <1>6. CASE Conflict(r) /\ attempt[r] < MaxAttempts
    <2>1. /\ pc' = [pc EXCEPT ![r] = "ready"]
          /\ attempt' = [attempt EXCEPT ![r] = @ + 1]
          /\ found' = [found EXCEPT ![r] = NoSettlement]
          /\ UNCHANGED <<body, sends, answer>>
      BY <1>6, Zenon DEF Conflict
    <2>2. UNCHANGED <<entryVars, settlements, report>>
      BY <1>6 DEF Conflict
    <2>3. attempt[r] + 1 \in 1..MaxAttempts
      <3>1. attempt[r] \in 1..MaxAttempts /\ attempt[r] < MaxAttempts
        BY <1>6 DEF TypeOK
      <3>2. QED
        BY <3>1 DEF MaxAttempts
    <2>4. QED
      BY <2>1, <2>2, <2>3 DEF TypeOK, PC, entryVars
  <1>7. CASE ReturnExisting(r) \/ Refuse(r) \/ ResolveDuplicate(r) \/ RawConflict(r) \/ Crash(r)
             \/ (Conflict(r) /\ ~(attempt[r] < MaxAttempts))
    <2>1. \E a \in Answers : Reply(r, a)
      BY <1>7, Zenon DEF ReturnExisting, Refuse, ResolveDuplicate, RawConflict, Crash, Conflict,
         resolveSettlementRetry, Answers
    <2>2. UNCHANGED <<entryVars, settlements, report>>
      BY <1>7 DEF ReturnExisting, Refuse, ResolveDuplicate, RawConflict, Crash, Conflict
    <2>3. QED
      BY <1>3, <2>1, <2>2
  <1>8. QED
    BY <1>1, <1>2, <1>4, <1>5, <1>6, <1>7 DEF Handle

LEMMA ReportsKeepTypes ==
    ASSUME TypeOK, NEW v \in Readers, ReadForecast(v) \/ ReadRealized(v) \/ CloseReport(v)
    PROVE  TypeOK'
  <1>1. UNCHANGED <<entryVars, settlements, requestVars>>
    BY DEF ReadForecast, ReadRealized, CloseReport
  <1>2. report' \in [Readers -> Reports \cup {NoReport}]
    <2>1. CASE ReadForecast(v)
      <3> DEFINE new == [asked |-> [e \in Entries |-> Booked(e)],
                         forecast |-> [e \in Entries |-> Forecast(e)],
                         realized |-> [e \in Entries |-> 0],
                         complete |-> FALSE]
      <3>1. \A e \in Entries : Booked(e) \in Nat /\ Forecast(e) \in Int
        BY DEF TypeOK, Booked, Forecast, remaining
      <3>2. new \in Reports
        BY <3>1 DEF Reports
      <3>3. report' = [report EXCEPT ![v] = new]
        BY <2>1 DEF ReadForecast
      <3> HIDE DEF new
      <3>4. QED
        BY <3>2, <3>3 DEF TypeOK
    <2>2. CASE ReadRealized(v)
      <3> DEFINE sums == [e \in Entries |-> SettledOn(e)]
      <3>1. sums \in [Entries -> Nat]
        BY SettledOnType
      <3>2. report' = [report EXCEPT ![v].realized = sums, ![v].complete = TRUE]
        BY <2>2 DEF ReadRealized
      <3>3. report[v] \in Reports
        BY <2>2 DEF TypeOK, ReadRealized
      <3> HIDE DEF sums
      <3>4. [report[v] EXCEPT !.realized = sums, !.complete = TRUE] \in Reports
        BY <3>1, <3>3 DEF Reports
      <3>5. report' = [report EXCEPT ![v] = [report[v] EXCEPT !.realized = sums, !.complete = TRUE]]
        BY <3>2 DEF TypeOK
      <3>6. QED
        BY <3>4, <3>5 DEF TypeOK
    <2>3. CASE CloseReport(v)
      BY <2>3 DEF TypeOK, CloseReport
    <2>4. QED
      BY <2>1, <2>2, <2>3
  <1>3. QED
    BY <1>1, <1>2 DEF TypeOK, entryVars, requestVars

LEMMA TypeInit == Init => TypeOK
  <1>1. (CHOOSE d \in Days : TRUE) \in Days
    OBVIOUS
  <1>2. QED
    BY <1>1 DEF Init, TypeOK, Statuses, PC, Answers, MaxAttempts

LEMMA StepKeepsTypes ==
    ASSUME TypeOK, [Next]_vars
    PROVE  TypeOK'
  <1>1. CASE UNCHANGED vars
    BY <1>1 DEF TypeOK, vars, entryVars, requestVars
  <1>2. CASE Next
    BY <1>2, TitlesKeepTypes, HandlerKeepsTypes, ReportsKeepTypes DEF Next
  <1>3. QED
    BY <1>1, <1>2

(* Amounts are not negative and every settlement row was asked for by a    *)
(* client, whatever titles are created, edited, cancelled and settled.     *)
THEOREM TypeCorrect == Spec => []TypeOK
  BY TypeInit, StepKeepsTypes, PTL DEF Spec
-----------------------------------------------------------------------------
(* The books.                                                              *)

(* Of all the steps of a settlement request, only the commit changes       *)
(* titles or settlements.                                                  *)
LEMMA OnlyCommitWrites ==
    ASSUME NEW r \in Requests, Send(r) \/ Handle(r) \/ Crash(r)
    PROVE  /\ Commit(r) \/ UNCHANGED <<entryVars, settlements>>
           /\ UNCHANGED report
  BY DEF Send, Handle, Crash, BeginTransaction, ReturnExisting, Refuse, Commit, UniqueViolation,
         ResolveDuplicate, Conflict, RawConflict

(* A committed settlement is paid by a live title that owes as much.       *)
LEMMA CommitWrites ==
    ASSUME TypeOK, NEW r \in Requests, Commit(r)
    PROVE  LET b == body[r]
           IN  /\ b \in Bodies /\ b.entry \in Entries /\ b.amount \in Nat \ {0} /\ b.key \in Keys
               /\ status[b.entry] \in {"OPEN", "PARTIALLY_SETTLED"}
               /\ b.amount <= originalAmount[b.entry] - settledAmount[b.entry]
               /\ settlements' = Append(settlements, b)
               /\ settledAmount' = [settledAmount EXCEPT ![b.entry] = @ + b.amount]
               /\ status' = [status EXCEPT ![b.entry] =
                               NextStatus(b.entry, settledAmount[b.entry] + b.amount)]
               /\ UNCHANGED <<originalAmount, dueDate>>
  <1>1. body[r] \in Bodies
    BY DEF TypeOK
  <1>2. QED
    BY <1>1, BodyShape DEF Commit, Settleable, Record, remaining

LEMMA UnchangedKeepsBooks ==
    ASSUME BooksInvariant, UNCHANGED <<entryVars, settlements>>
    PROVE  BooksInvariant'
  BY DEF BooksInvariant, SettledIsExplained, StatusAgrees, IssuedIsPositive, SettledOn, entryVars

LEMMA TitlesKeepBooks ==
    ASSUME TypeOK, BooksInvariant, Titles
    PROVE  BooksInvariant'
  <1> PICK e \in Entries :
        \/ cancel(e)
        \/ \E amount \in EntryAmounts, due \in Days :
                create(e, amount, due) \/ update(e, amount, due)
    BY DEF Titles
  <1>1. UNCHANGED <<settledAmount, settlements>>
    BY DEF cancel, create, update
  <1>2. SettledIsExplained'
    BY <1>1 DEF BooksInvariant, SettledIsExplained, SettledOn
  <1>3. settledAmount[e] = 0 /\ \A x \in Entries \ {e} :
            status'[x] = status[x] /\ originalAmount'[x] = originalAmount[x]
    BY DEF TypeOK, BooksInvariant, StatusAgrees, cancel, create, update
  <1>4. \/ status'[e] = "OPEN" /\ originalAmount'[e] # 0
        \/ status'[e] = "CANCELLED" /\ originalAmount'[e] = originalAmount[e] /\ status[e] # "NONE"
    BY DEF TypeOK, cancel, create, update
  <1>5. StatusAgrees' /\ IssuedIsPositive'
    BY <1>1, <1>3, <1>4 DEF BooksInvariant, StatusAgrees, IssuedIsPositive
  <1>6. QED
    BY <1>2, <1>5 DEF BooksInvariant

LEMMA CommitKeepsBooks ==
    ASSUME TypeOK, BooksInvariant, NEW r \in Requests, Commit(r)
    PROVE  BooksInvariant'
  <1> DEFINE b == body[r]
             e == b.entry
             next == settledAmount[e] + b.amount
  <1>1. /\ b \in Bodies /\ e \in Entries /\ b.amount \in Nat \ {0}
        /\ status[e] \in {"OPEN", "PARTIALLY_SETTLED"}
        /\ b.amount <= originalAmount[e] - settledAmount[e]
        /\ settlements' = Append(settlements, b)
        /\ settledAmount' = [settledAmount EXCEPT ![e] = next]
        /\ status' = [status EXCEPT ![e] = NextStatus(e, next)]
        /\ originalAmount' = originalAmount
    BY CommitWrites
  <1> HIDE DEF b, e
  <1>2. ASSUME NEW x \in Entries
        PROVE  settledAmount'[x] = SettledOn(x)'
    <2>1. SettledOn(x)' = SettledOn(x) + (IF e = x THEN b.amount ELSE 0)
      BY <1>1, SettledOnGrows DEF e
    <2>2. SettledOn(x) = settledAmount[x] /\ settledAmount[x] \in Nat
      BY DEF TypeOK, BooksInvariant, SettledIsExplained
    <2>3. settledAmount'[x] = settledAmount[x] + (IF e = x THEN b.amount ELSE 0)
      BY <1>1, <2>2 DEF TypeOK
    <2>4. QED
      BY <2>1, <2>2, <2>3
  <1>3. /\ originalAmount[e] \in Nat /\ settledAmount[e] \in Nat
        /\ settledAmount'[e] = next /\ next \in 1..originalAmount[e]
        /\ status'[e] = IF next = originalAmount[e] THEN "SETTLED" ELSE "PARTIALLY_SETTLED"
    <2>1. originalAmount[e] \in Nat /\ settledAmount[e] \in Nat
      BY <1>1 DEF TypeOK
    <2>2. settledAmount'[e] = next /\ status'[e] = NextStatus(e, next)
      BY <1>1 DEF TypeOK
    <2>3. next \in 1..originalAmount[e]
      BY <1>1, <2>1
    <2>4. QED
      BY <2>1, <2>2, <2>3 DEF NextStatus
  <1>4. \A x \in Entries \ {e} : status'[x] = status[x] /\ settledAmount'[x] = settledAmount[x]
    BY <1>1 DEF TypeOK
  <1>5. StatusAgrees' /\ IssuedIsPositive'
    BY <1>1, <1>3, <1>4 DEF BooksInvariant, StatusAgrees, IssuedIsPositive
  <1>6. QED
    BY <1>2, <1>5 DEF BooksInvariant, SettledIsExplained

LEMMA BooksInit == Init => BooksInvariant
  <1> SUFFICES ASSUME Init PROVE BooksInvariant
    OBVIOUS
  <1>1. ASSUME NEW e \in Entries PROVE SettledOn(e) = 0
    <2>1. DOMAIN settlements = {}
      BY DEF Init
    <2>2. QED
      BY <2>1, SettledOnIsSum, SumOfNothing
  <1>2. QED
    BY <1>1 DEF Init, BooksInvariant, SettledIsExplained, StatusAgrees, IssuedIsPositive

(* The inductive invariant of the books, in every reachable state.         *)
THEOREM BooksAreKept == Spec => []BooksInvariant
  <1>1. TypeOK /\ BooksInvariant /\ [Next]_vars => BooksInvariant'
    <2> SUFFICES ASSUME TypeOK, BooksInvariant, [Next]_vars PROVE BooksInvariant'
      OBVIOUS
    <2>1. CASE UNCHANGED vars
      BY <2>1, UnchangedKeepsBooks DEF vars
    <2>2. CASE Titles
      BY <2>2, TitlesKeepBooks
    <2>3. CASE \E r \in Requests : Send(r) \/ Handle(r) \/ Crash(r)
      BY <2>3, OnlyCommitWrites, CommitKeepsBooks, UnchangedKeepsBooks
    <2>4. CASE \E v \in Readers : ReadForecast(v) \/ ReadRealized(v) \/ CloseReport(v)
      <3>1. UNCHANGED <<entryVars, settlements>>
        BY <2>4 DEF ReadForecast, ReadRealized, CloseReport
      <3>2. QED
        BY <3>1, UnchangedKeepsBooks
    <2>5. QED
      BY <2>1, <2>2, <2>3, <2>4 DEF Next
  <1>2. QED
    BY <1>1, BooksInit, TypeCorrect, PTL DEF Spec

(* Status, amounts and settlement rows agree, and the overdue filter and   *)
(* the overdue flag give the same titles, after any sequence of creates,   *)
(* edits, cancellations and concurrent, repeated or lost settlements.      *)
THEOREM BooksStayTrue == Spec => []BooksAgree
  <1>1. TypeOK /\ BooksInvariant => BooksAgree
    <2> SUFFICES ASSUME TypeOK, BooksInvariant PROVE BooksAgree
      OBVIOUS
    <2>1. ASSUME NEW e \in Entries, NEW today \in Days, status[e] # "NONE"
          PROVE  /\ ListedOverdue(e, today) = overdue(e, today)
                 /\ ListedNotOverdue(e, today) = ~overdue(e, today)
      <3>1. /\ originalAmount[e] \in Nat \ {0} /\ settledAmount[e] \in Nat
            /\ status[e] \in Statuses
            /\ dueDate[e] \in Int /\ today \in Int
        BY <2>1 DEF TypeOK, BooksInvariant, IssuedIsPositive
      <3>2. remaining(e) > 0 <=> status[e] # "SETTLED"
        BY <3>1 DEF BooksInvariant, StatusAgrees, remaining, Statuses
      <3>3. dueDate[e] >= today <=> ~(dueDate[e] < today)
        BY <3>1
      <3>4. QED
        BY <3>1, <3>2, <3>3 DEF ListedOverdue, ListedNotOverdue, overdue, Statuses
    <2>2. QED
      BY <2>1 DEF BooksAgree, BooksInvariant, OverdueAgrees
  <1>2. QED
    BY <1>1, TypeCorrect, BooksAreKept, PTL

-----------------------------------------------------------------------------
(* The keys.                                                               *)

(* The unique index finds the row under a key, if there is one.            *)
LEMMA ExistingIsRow ==
    ASSUME TypeOK, NEW k
    PROVE  \/ /\ Existing(k) = NoSettlement
              /\ \A i \in DOMAIN settlements : settlements[i].key # k
           \/ /\ Existing(k) \in Bodies
              /\ \E i \in DOMAIN settlements :
                     settlements[i] = Existing(k) /\ settlements[i].key = k
  <1>1. \A i \in DOMAIN settlements : settlements[i] \in Bodies
    BY DEF TypeOK
  <1>2. QED
    BY <1>1 DEF Existing

(* An answer that is true of the rows leaves the keys as they are.         *)
LEMMA ReplyKeepsKeys ==
    ASSUME TypeOK, KeyInvariant, UNCHANGED settlements,
           NEW r \in Requests, NEW a \in Answers, Reply(r, a),
           a = "SETTLEMENT" => \E i \in DOMAIN settlements : settlements[i] = body[r],
           a = "IDEMPOTENCY_KEY_REUSED" =>
               \E i \in DOMAIN settlements :
                   settlements[i].key = body[r].key /\ settlements[i] # body[r]
    PROVE  KeyInvariant'
  <1>1. /\ answer' = [answer EXCEPT ![r] = a]
        /\ pc' = [pc EXCEPT ![r] = "answered"]
        /\ found' = [found EXCEPT ![r] = NoSettlement]
        /\ body' = body
    BY DEF Reply
  <1>2. KeySettlesOnce'
    BY DEF KeyInvariant, KeySettlesOnce
  <1>3. AnswerIsRecorded'
    BY <1>1 DEF TypeOK, KeyInvariant, AnswerIsRecorded
  <1>4. FoundIsRow'
    BY <1>1 DEF TypeOK, KeyInvariant, FoundIsRow
  <1>5. DuplicateHasRow'
    BY <1>1 DEF TypeOK, KeyInvariant, DuplicateHasRow
  <1>6. ReuseMetOther'
    BY <1>1 DEF TypeOK, KeyInvariant, ReuseMetOther
  <1>7. QED
    BY <1>2, <1>3, <1>4, <1>5, <1>6 DEF KeyInvariant

(* So does the answer to a retry, given from a row stored under its key.   *)
LEMMA RetryKeepsKeys ==
    ASSUME TypeOK, KeyInvariant, UNCHANGED settlements,
           NEW r \in Requests, NEW i \in DOMAIN settlements, settlements[i].key = body[r].key,
           resolveSettlementRetry(r, settlements[i])
    PROVE  KeyInvariant'
  <1>1. CASE settlements[i] = body[r]
    <2>1. Reply(r, "SETTLEMENT") /\ "SETTLEMENT" \in Answers
      BY <1>1 DEF resolveSettlementRetry, Answers
    <2>2. QED
      BY <1>1, <2>1, ReplyKeepsKeys
  <1>2. CASE settlements[i] # body[r]
    <2>1. Reply(r, "IDEMPOTENCY_KEY_REUSED") /\ "IDEMPOTENCY_KEY_REUSED" \in Answers
      BY <1>2 DEF resolveSettlementRetry, Answers
    <2>2. QED
      BY <1>2, <2>1, ReplyKeepsKeys
  <1>3. QED
    BY <1>1, <1>2

LEMMA CommitKeepsKeys ==
    ASSUME TypeOK, KeyInvariant, NEW r \in Requests, Commit(r)
    PROVE  KeyInvariant'
  <1> DEFINE n == Len(settlements)
             b == body[r]
  <1>1. /\ settlements \in Seq(Bodies) /\ n \in Nat /\ b \in Bodies
        /\ settlements' = Append(settlements, b)
        /\ Existing(b.key) = NoSettlement
        /\ Reply(r, "SETTLEMENT")
    <2>1. settlements \in Seq(Bodies)
      BY DEF TypeOK
    <2>2. Existing(b.key) = NoSettlement /\ Reply(r, "SETTLEMENT")
      BY DEF Commit
    <2>3. b \in Bodies /\ settlements' = Append(settlements, b)
      BY CommitWrites
    <2>4. QED
      BY <2>1, <2>2, <2>3
  <1>2. /\ DOMAIN settlements = 1..n /\ DOMAIN settlements' = 1..(n + 1)
        /\ \A i \in 1..n : settlements'[i] = settlements[i]
        /\ settlements'[n + 1] = b
    BY <1>1
  <1>3. \A i \in 1..n : settlements[i].key # b.key
    <2>1. Existing(b.key) \notin Bodies
      BY <1>1
    <2>2. \A i \in DOMAIN settlements : settlements[i].key # b.key
      BY <2>1, ExistingIsRow, Zenon
    <2>3. QED
      BY <1>2, <2>2
  <1>4. /\ answer' = [answer EXCEPT ![r] = "SETTLEMENT"]
        /\ pc' = [pc EXCEPT ![r] = "answered"]
        /\ found' = [found EXCEPT ![r] = NoSettlement]
        /\ body' = body
    BY <1>1 DEF Reply
  <1> HIDE DEF n
  <1>5. KeySettlesOnce'
    <2> SUFFICES ASSUME NEW i \in 1..(n + 1), NEW j \in 1..(n + 1),
                        settlements'[i].key = settlements'[j].key
                 PROVE  i = j
      BY <1>2 DEF KeySettlesOnce
    <2>1. i \in 1..n \/ i = n + 1
      BY <1>1 DEF n
    <2>2. j \in 1..n \/ j = n + 1
      BY <1>1 DEF n
    <2>3. QED
      BY <1>2, <1>3, <2>1, <2>2 DEF KeyInvariant, KeySettlesOnce
  <1>6. \A i \in DOMAIN settlements : i \in DOMAIN settlements' /\ settlements'[i] = settlements[i]
    BY <1>1, <1>2
  <1>7. AnswerIsRecorded'
    <2>1. \E i \in DOMAIN settlements' : settlements'[i] = body'[r]
      BY <1>1, <1>2, <1>4
    <2>2. \A q \in Requests \ {r} : answer'[q] = answer[q]
      BY <1>4 DEF TypeOK
    <2>3. QED
      BY <1>4, <1>6, <2>1, <2>2 DEF KeyInvariant, AnswerIsRecorded
  <1>8. FoundIsRow'
    BY <1>4, <1>6 DEF TypeOK, KeyInvariant, FoundIsRow
  <1>9. DuplicateHasRow'
    BY <1>4, <1>6 DEF TypeOK, KeyInvariant, DuplicateHasRow
  <1>10. ReuseMetOther'
    BY <1>4, <1>6 DEF TypeOK, KeyInvariant, ReuseMetOther
  <1>11. QED
    BY <1>5, <1>7, <1>8, <1>9, <1>10 DEF KeyInvariant

LEMMA HandlerKeepsKeys ==
    ASSUME TypeOK, KeyInvariant, NEW r \in Requests, Send(r) \/ Handle(r) \/ Crash(r)
    PROVE  KeyInvariant'
  <1> USE DEF KeyInvariant, KeySettlesOnce, AnswerIsRecorded, FoundIsRow, DuplicateHasRow,
              ReuseMetOther
  <1>1. CASE Send(r)
    BY <1>1 DEF TypeOK, Send
  <1>2. CASE BeginTransaction(r)
    <2>1. /\ found' = [found EXCEPT ![r] = Existing(body[r].key)]
          /\ pc' = [pc EXCEPT ![r] = "inTransaction"]
          /\ UNCHANGED <<settlements, body, answer>>
      BY <1>2 DEF BeginTransaction
    <2>2. Existing(body[r].key) # NoSettlement =>
            \E i \in DOMAIN settlements :
                settlements[i] = Existing(body[r].key) /\ settlements[i].key = body[r].key
      BY ExistingIsRow
    <2>3. QED
      BY <2>1, <2>2 DEF TypeOK
  <1>3. CASE ReturnExisting(r)
    <2>1. PICK i \in DOMAIN settlements :
            settlements[i] = found[r] /\ settlements[i].key = body[r].key
      BY <1>3 DEF ReturnExisting
    <2>2. resolveSettlementRetry(r, settlements[i]) /\ UNCHANGED settlements
      BY <1>3, <2>1 DEF ReturnExisting
    <2>3. QED
      BY <2>1, <2>2, RetryKeepsKeys
  <1>4. CASE Refuse(r) \/ RawConflict(r) \/ Crash(r) \/ (Conflict(r) /\ ~(attempt[r] < MaxAttempts))
    <2>1. PICK a \in {"REFUSED", "UNHANDLED_CONFLICT", "LOST"} : Reply(r, a)
      BY <1>4, Zenon DEF Refuse, RawConflict, Crash, Conflict
    <2>2. UNCHANGED settlements
      BY <1>4 DEF Refuse, RawConflict, Crash, Conflict
    <2>3. a \in Answers /\ a # "SETTLEMENT" /\ a # "IDEMPOTENCY_KEY_REUSED"
      BY DEF Answers
    <2>4. QED
      BY <2>1, <2>2, <2>3, ReplyKeepsKeys
  <1>5. CASE Commit(r)
    BY <1>5, CommitKeepsKeys
  <1>6. CASE UniqueViolation(r)
    <2>1. \E i \in DOMAIN settlements : settlements[i].key = body[r].key
      BY <1>6, ExistingIsRow DEF UniqueViolation
    <2>2. pc' = [pc EXCEPT ![r] = "duplicate"] /\ UNCHANGED <<settlements, body, found, answer>>
      BY <1>6 DEF UniqueViolation
    <2>3. QED
      BY <2>1, <2>2 DEF TypeOK
  <1>7. CASE ResolveDuplicate(r)
    <2>1. PICK i \in DOMAIN settlements :
            settlements[i] = Existing(body[r].key) /\ settlements[i].key = body[r].key
      BY <1>7, ExistingIsRow DEF ResolveDuplicate
    <2>2. resolveSettlementRetry(r, settlements[i]) /\ UNCHANGED settlements
      BY <1>7, <2>1 DEF ResolveDuplicate
    <2>3. QED
      BY <2>1, <2>2, RetryKeepsKeys
  <1>8. CASE Conflict(r) /\ attempt[r] < MaxAttempts
    <2>1. /\ pc' = [pc EXCEPT ![r] = "ready"]
          /\ found' = [found EXCEPT ![r] = NoSettlement]
          /\ UNCHANGED <<body, answer>>
      BY <1>8, Zenon DEF Conflict
    <2>2. UNCHANGED settlements
      BY <1>8 DEF Conflict
    <2>3. QED
      BY <2>1, <2>2 DEF TypeOK
  <1>9. QED
    BY <1>1, <1>2, <1>3, <1>4, <1>5, <1>6, <1>7, <1>8 DEF Handle

LEMMA UnchangedKeepsKeys ==
    ASSUME KeyInvariant, UNCHANGED <<settlements, requestVars>>
    PROVE  KeyInvariant'
  BY DEF KeyInvariant, KeySettlesOnce, AnswerIsRecorded, FoundIsRow, DuplicateHasRow, ReuseMetOther,
         requestVars

LEMMA KeyInit == Init => KeyInvariant
  BY DEF Init, KeyInvariant, KeySettlesOnce, AnswerIsRecorded, FoundIsRow, DuplicateHasRow,
         ReuseMetOther

(* The inductive invariant of the keys, in every reachable state.          *)
THEOREM KeysAreConsistent == Spec => []KeyInvariant
  <1>1. TypeOK /\ KeyInvariant /\ [Next]_vars => KeyInvariant'
    <2> SUFFICES ASSUME TypeOK, KeyInvariant, [Next]_vars PROVE KeyInvariant'
      OBVIOUS
    <2>1. CASE UNCHANGED vars
      BY <2>1, UnchangedKeepsKeys DEF vars
    <2>2. CASE Titles
      <3>1. UNCHANGED <<settlements, requestVars>>
        BY <2>2 DEF Titles, cancel, create, update
      <3>2. QED
        BY <3>1, UnchangedKeepsKeys
    <2>3. CASE \E r \in Requests : Send(r) \/ Handle(r) \/ Crash(r)
      BY <2>3, HandlerKeepsKeys
    <2>4. CASE \E v \in Readers : ReadForecast(v) \/ ReadRealized(v) \/ CloseReport(v)
      <3>1. UNCHANGED <<settlements, requestVars>>
        BY <2>4 DEF ReadForecast, ReadRealized, CloseReport
      <3>2. QED
        BY <3>1, UnchangedKeepsKeys
    <2>5. QED
      BY <2>1, <2>2, <2>3, <2>4 DEF Next
  <1>2. QED
    BY <1>1, KeyInit, TypeCorrect, PTL DEF Spec

(* A key settles once, a settlement answered is recorded as it was asked   *)
(* for, and a repetition is never told that its own key is taken.          *)
THEOREM KeysKeepTheirPromise == Spec => []KeysAreSound
  <1>1. KeyInvariant => KeysAreSound
    <2> SUFFICES ASSUME KeyInvariant PROVE KeysAreSound
      OBVIOUS
    <2>1. ReplayIsNotRefused
      BY DEF KeyInvariant, KeySettlesOnce, ReuseMetOther, ReplayIsNotRefused
    <2>2. QED
      BY <2>1 DEF KeyInvariant, KeysAreSound
  <1>2. QED
    BY <1>1, KeysAreConsistent, PTL

-----------------------------------------------------------------------------
(* The reports.                                                            *)

(* What the forecast lists and what is settled now cover the books.        *)
LEMMA ForecastCovers ==
    ASSUME TypeOK, BooksInvariant, NEW e \in Entries
    PROVE  /\ Forecast(e) \in Int /\ Booked(e) \in Int
           /\ Forecast(e) + settledAmount[e] >= Booked(e)
  <1>1. /\ status[e] \in Statuses \cup {"NONE"}
        /\ originalAmount[e] \in Nat /\ settledAmount[e] \in Nat
    BY DEF TypeOK
  <1>2. QED
    BY <1>1 DEF BooksInvariant, StatusAgrees, Forecast, Booked, remaining, Statuses

(* A settled amount that does not fall keeps open reports covered.         *)
LEMMA SettlingKeepsCover ==
    ASSUME TypeOK, ReportCovers, UNCHANGED report,
           \A e \in Entries : settledAmount'[e] \in Int /\ settledAmount'[e] >= settledAmount[e]
    PROVE  ReportCovers'
  <1> SUFFICES ASSUME NEW v \in Readers, report[v] # NoReport, NEW e \in Entries
               PROVE  report[v].forecast[e]
                        + (IF report[v].complete THEN report[v].realized[e] ELSE settledAmount'[e])
                          >= report[v].asked[e]
    BY DEF ReportCovers
  <1>1. report[v] \in Reports
    BY DEF TypeOK
  <1>2. /\ report[v].forecast[e] \in Int /\ report[v].realized[e] \in Nat
        /\ report[v].asked[e] \in Nat
    BY <1>1 DEF Reports
  <1>3. report[v].forecast[e]
          + (IF report[v].complete THEN report[v].realized[e] ELSE settledAmount[e])
            >= report[v].asked[e]
    BY DEF ReportCovers
  <1>4. settledAmount[e] \in Nat /\ settledAmount'[e] \in Int /\ settledAmount'[e] >= settledAmount[e]
    BY DEF TypeOK
  <1>5. QED
    BY <1>2, <1>3, <1>4

LEMMA ReadersKeepCover ==
    ASSUME TypeOK, BooksInvariant, ReportCovers,
           NEW v \in Readers, ReadForecast(v) \/ ReadRealized(v) \/ CloseReport(v)
    PROVE  ReportCovers'
  <1>1. UNCHANGED settledAmount /\ \A x \in Readers \ {v} : report'[x] = report[x]
    BY DEF TypeOK, ReadForecast, ReadRealized, CloseReport, entryVars
  <1>2. SUFFICES ASSUME report'[v] # NoReport, NEW e \in Entries
                 PROVE  report'[v].forecast[e]
                          + (IF report'[v].complete THEN report'[v].realized[e] ELSE settledAmount[e])
                            >= report'[v].asked[e]
    BY <1>1 DEF ReportCovers
  <1>3. CASE ReadForecast(v)
    <2>1. /\ report'[v].forecast[e] = Forecast(e) /\ report'[v].asked[e] = Booked(e)
          /\ report'[v].complete = FALSE
      BY <1>3 DEF TypeOK, ReadForecast
    <2>2. QED
      BY <2>1, ForecastCovers
  <1>4. CASE ReadRealized(v)
    <2>1. /\ report[v] \in Reports /\ report[v] # NoReport /\ ~report[v].complete
          /\ report' = [report EXCEPT ![v].realized = [x \in Entries |-> SettledOn(x)],
                                      ![v].complete = TRUE]
      BY <1>4 DEF TypeOK, ReadRealized
    <2>2. /\ report'[v].forecast = report[v].forecast /\ report'[v].asked = report[v].asked
          /\ report'[v].realized[e] = SettledOn(e) /\ report'[v].complete = TRUE
      BY <2>1 DEF TypeOK, Reports
    <2>3. SettledOn(e) = settledAmount[e]
      BY DEF BooksInvariant, SettledIsExplained
    <2>4. report[v].forecast[e] + settledAmount[e] >= report[v].asked[e]
      BY <2>1 DEF ReportCovers
    <2>5. QED
      BY <2>2, <2>3, <2>4
  <1>5. CASE CloseReport(v)
    BY <1>2, <1>5 DEF TypeOK, CloseReport
  <1>6. QED
    BY <1>3, <1>4, <1>5

LEMMA StepKeepsCover ==
    ASSUME TypeOK, BooksInvariant, ReportCovers, [Next]_vars
    PROVE  ReportCovers'
  <1>1. \A e \in Entries : settledAmount[e] \in Nat
    BY DEF TypeOK
  <1>2. CASE UNCHANGED <<settledAmount, report>>
    BY <1>1, <1>2, SettlingKeepsCover
  <1>3. ASSUME NEW r \in Requests, Commit(r)
        PROVE  ReportCovers'
    <2>1. /\ body[r].amount \in Nat
          /\ settledAmount' = [settledAmount EXCEPT ![body[r].entry] = @ + body[r].amount]
      BY <1>3, CommitWrites
    <2>2. \A e \in Entries : settledAmount'[e] \in Int /\ settledAmount'[e] >= settledAmount[e]
      BY <1>1, <2>1 DEF TypeOK
    <2>3. UNCHANGED report
      BY <1>3 DEF Commit
    <2>4. QED
      BY <2>2, <2>3, SettlingKeepsCover
  <1>4. CASE UNCHANGED vars
    BY <1>2, <1>4 DEF vars, entryVars
  <1>5. CASE Titles
    BY <1>2, <1>5 DEF Titles, cancel, create, update
  <1>6. CASE \E r \in Requests : Send(r) \/ Handle(r) \/ Crash(r)
    BY <1>2, <1>3, <1>6, OnlyCommitWrites DEF entryVars
  <1>7. CASE \E v \in Readers : ReadForecast(v) \/ ReadRealized(v) \/ CloseReport(v)
    BY <1>7, ReadersKeepCover
  <1>8. QED
    BY <1>4, <1>5, <1>6, <1>7 DEF Next

(* The inductive invariant of the reports, in every reachable state.       *)
THEOREM ReportsAreCovered == Spec => []ReportCovers
  <1>1. Init => ReportCovers
    BY DEF Init, ReportCovers
  <1>2. QED
    BY <1>1, StepKeepsCover, TypeCorrect, BooksAreKept, PTL DEF Spec

(* A combined report never misses money, though its two reads see          *)
(* different states of the books.                                          *)
THEOREM ReportsMissNothing == Spec => []NothingIsMissed
  <1>1. ReportCovers => NothingIsMissed
    BY DEF ReportCovers, NothingIsMissed
  <1>2. QED
    BY <1>1, ReportsAreCovered, PTL

-----------------------------------------------------------------------------
(* Titles and settlements are debts and payments.  The mapping of Ledger,  *)
(* by name.                                                                *)
Debt == [e \in Entries |-> IF status[e] = "CANCELLED" THEN 0 ELSE remaining(e)]
Stage == [e \in Entries |-> CASE status[e] = "NONE" -> "NONE"
                               [] status[e] = "CANCELLED" -> "VOID"
                               [] OTHER -> "LIVE"]
RowUnder(rows, k) ==
    IF \E i \in DOMAIN rows : rows[i].key = k
      THEN rows[CHOOSE i \in DOMAIN rows : rows[i].key = k]
      ELSE NoSettlement
Stored(rows) == [k \in Keys |-> RowUnder(rows, k)]

LEMMA MappingByName ==
    /\ Stored(settlements) = [k \in Keys |-> Existing(k)]
    /\ Stored(settlements)' = [k \in Keys |-> Existing(k)']
  BY DEF Stored, RowUnder, Existing

LEMMA TitleMapping ==
    ASSUME NEW e \in Entries
    PROVE  /\ Debt[e] = IF status[e] = "CANCELLED" THEN 0 ELSE remaining(e)
           /\ Stage[e] = CASE status[e] = "NONE" -> "NONE"
                            [] status[e] = "CANCELLED" -> "VOID"
                            [] OTHER -> "LIVE"
           /\ Debt'[e] = IF status'[e] = "CANCELLED" THEN 0 ELSE originalAmount'[e] - settledAmount'[e]
           /\ Stage'[e] = CASE status'[e] = "NONE" -> "NONE"
                             [] status'[e] = "CANCELLED" -> "VOID"
                             [] OTHER -> "LIVE"
  BY DEF Debt, Stage, remaining

(* One row more is stored under its own key, if that key was free.         *)
LEMMA StoredGrows ==
    ASSUME NEW rows \in Seq(Bodies), NEW b \in Bodies,
           \A i \in DOMAIN rows : rows[i].key # b.key,
           \A i, j \in DOMAIN rows : rows[i].key = rows[j].key => i = j
    PROVE  Stored(Append(rows, b)) = [Stored(rows) EXCEPT ![b.key] = b]
  <1> DEFINE n == Len(rows)
             more == Append(rows, b)
  <1>1. /\ n \in Nat /\ DOMAIN rows = 1..n /\ DOMAIN more = 1..(n + 1)
        /\ \A i \in 1..n : more[i] = rows[i]
        /\ more[n + 1] = b
    OBVIOUS
  <1>2. n + 1 \in 1..(n + 1) /\ 1..n \subseteq 1..(n + 1)
        /\ \A i \in 1..(n + 1) : i \in 1..n \/ i = n + 1
    BY <1>1
  <1> HIDE DEF n, more
  <1>3. ASSUME NEW k \in Keys
        PROVE  RowUnder(more, k) = IF k = b.key THEN b ELSE RowUnder(rows, k)
    <2>1. CASE k = b.key
      <3>1. \A i \in DOMAIN more : more[i].key = k => more[i] = b
        BY <1>1, <1>2, <2>1
      <3>2. \E i \in DOMAIN more : more[i].key = k
        BY <1>1, <1>2, <2>1
      <3>3. QED
        BY <2>1, <3>1, <3>2 DEF RowUnder
    <2>2. CASE k # b.key /\ \E i \in DOMAIN rows : rows[i].key = k
      <3>1. PICK i \in DOMAIN rows : rows[i].key = k
        BY <2>2
      <3>2. RowUnder(rows, k) = rows[i]
        BY <3>1 DEF RowUnder
      <3>3. \A j \in DOMAIN more : more[j].key = k => more[j] = rows[i]
        BY <1>1, <1>2, <2>2, <3>1
      <3>4. i \in DOMAIN more /\ more[i].key = k
        BY <1>1, <1>2, <3>1
      <3>5. RowUnder(more, k) = rows[i]
        BY <3>3, <3>4 DEF RowUnder
      <3>6. QED
        BY <2>2, <3>2, <3>5
    <2>3. CASE k # b.key /\ \A i \in DOMAIN rows : rows[i].key # k
      <3>1. \A i \in DOMAIN more : more[i].key # k
        BY <1>1, <1>2, <2>3
      <3>2. QED
        BY <2>3, <3>1 DEF RowUnder
    <2>4. QED
      BY <2>1, <2>2, <2>3
  <1>4. QED
    BY <1>3 DEF Stored, more

(* A title without settled amount is untouched by payments.                *)
LEMMA NothingPaid ==
    ASSUME TypeOK, BooksInvariant, NEW e \in Entries, settledAmount[e] = 0
    PROVE  Ledger!Untouched(e)
  <1>1. \A i \in DOMAIN settlements : settlements[i].entry # e
    BY NothingSettled DEF BooksInvariant, SettledIsExplained
  <1>2. \A k \in Keys : Existing(k) # NoSettlement => Existing(k).entry # e
    BY <1>1, ExistingIsRow
  <1>3. QED
    BY <1>2 DEF Ledger!Untouched

LEMMA TitlesImplement ==
    ASSUME TypeOK, BooksInvariant, Titles
    PROVE  Ledger!Next
  <1> PICK e \in Entries :
        \/ cancel(e)
        \/ \E amount \in EntryAmounts, due \in Days :
                create(e, amount, due) \/ update(e, amount, due)
    BY DEF Titles
  <1>1. /\ UNCHANGED <<settledAmount, settlements>>
        /\ \A x \in Entries \ {e} : status'[x] = status[x] /\ originalAmount'[x] = originalAmount[x]
    BY DEF TypeOK, cancel, create, update
  <1>2. settledAmount[e] = 0 /\ Ledger!Untouched(e)
    BY NothingPaid DEF BooksInvariant, StatusAgrees, cancel, create, update
  <1>3. \A x \in Entries \ {e} : Debt'[x] = Debt[x] /\ Stage'[x] = Stage[x]
    BY <1>1, TitleMapping DEF remaining
  <1>4. Stored(settlements)' = Stored(settlements)
    BY <1>1 DEF Stored, RowUnder
  <1>5. ASSUME NEW amount \in EntryAmounts, NEW due \in Days,
               create(e, amount, due) \/ update(e, amount, due)
        PROVE  Ledger!Issue(e, amount)
    <2>1. status[e] \in {"NONE", "OPEN"} /\ status'[e] = "OPEN" /\ originalAmount'[e] = amount
      BY <1>5 DEF TypeOK, create, update
    <2>2. Stage[e] # "VOID" /\ Stage'[e] = "LIVE" /\ Debt'[e] = amount
      BY <1>1, <1>2, <2>1, TitleMapping
    <2>3. Debt' = [Debt EXCEPT ![e] = amount] /\ Stage' = [Stage EXCEPT ![e] = "LIVE"]
      BY <1>3, <2>2 DEF Debt, Stage
    <2>4. QED
      BY <1>2, <1>4, <2>2, <2>3, MappingByName DEF Ledger!Issue, Debt, Stage
  <1>6. CASE cancel(e)
    <2>1. status[e] \notin {"NONE", "CANCELLED"} /\ status'[e] = "CANCELLED"
      BY <1>6 DEF TypeOK, cancel
    <2>2. Stage[e] = "LIVE" /\ Stage'[e] = "VOID" /\ Debt'[e] = 0
      BY <2>1, TitleMapping
    <2>3. Debt' = [Debt EXCEPT ![e] = 0] /\ Stage' = [Stage EXCEPT ![e] = "VOID"]
      BY <1>3, <2>2 DEF Debt, Stage
    <2>4. QED
      BY <1>2, <1>4, <2>2, <2>3, MappingByName DEF Ledger!Next, Ledger!Void, Debt, Stage
  <1>7. QED
    BY <1>5, <1>6 DEF Ledger!Next

LEMMA CommitImplements ==
    ASSUME TypeOK, KeyInvariant, NEW r \in Requests, Commit(r)
    PROVE  Ledger!Next
  <1>0. PICK b \in Bodies : b = body[r]
    BY DEF TypeOK
  <1> DEFINE e == b.entry
             k == b.key
  <1>1. /\ b \in Bodies /\ e \in Entries /\ k \in Keys /\ b.amount \in Nat
        /\ status[e] \in {"OPEN", "PARTIALLY_SETTLED"}
        /\ b.amount <= originalAmount[e] - settledAmount[e]
        /\ settlements' = Append(settlements, b)
        /\ settledAmount' = [settledAmount EXCEPT ![e] = @ + b.amount]
        /\ status' = [status EXCEPT ![e] = NextStatus(e, settledAmount[e] + b.amount)]
        /\ originalAmount' = originalAmount
    BY <1>0, CommitWrites
  <1>2. Existing(k) = NoSettlement
    BY <1>0 DEF Commit
  <1>3. Stored(settlements)' = [Stored(settlements) EXCEPT ![k] = b]
    <2>1. Existing(k) \notin Bodies
      BY <1>2
    <2>2. \A i \in DOMAIN settlements : settlements[i].key # k
      BY <2>1, ExistingIsRow, Zenon
    <2>3. settlements \in Seq(Bodies)
      BY DEF TypeOK
    <2>4. Stored(Append(settlements, b)) = [Stored(settlements) EXCEPT ![k] = b]
      BY <1>1, <2>2, <2>3, StoredGrows DEF KeyInvariant, KeySettlesOnce
    <2>5. Stored(settlements)' = Stored(settlements')
      BY DEF Stored, RowUnder
    <2>6. QED
      BY <1>1, <2>4, <2>5
  <1> HIDE DEF e, k
  <1>4. /\ originalAmount[e] \in Nat /\ settledAmount[e] \in Nat
        /\ settledAmount'[e] = settledAmount[e] + b.amount
        /\ status'[e] \in {"SETTLED", "PARTIALLY_SETTLED"}
        /\ \A x \in Entries \ {e} : status'[x] = status[x] /\ settledAmount'[x] = settledAmount[x]
    BY <1>1 DEF TypeOK, NextStatus
  <1>5. /\ Debt[e] = originalAmount[e] - settledAmount[e] /\ Stage[e] = "LIVE"
        /\ Debt'[e] = originalAmount[e] - settledAmount'[e] /\ Stage'[e] = "LIVE"
    BY <1>1, <1>4, TitleMapping DEF remaining
  <1>6. Debt'[e] = Debt[e] - b.amount /\ b.amount <= Debt[e]
    BY <1>1, <1>4, <1>5
  <1>7. \A x \in Entries \ {e} : Debt'[x] = Debt[x] /\ Stage'[x] = Stage[x]
    BY <1>1, <1>4, TitleMapping DEF remaining
  <1>8. Debt' = [Debt EXCEPT ![e] = @ - b.amount] /\ Stage' = Stage
    <2>1. \A x \in Entries : Debt'[x] = IF x = e THEN Debt[e] - b.amount ELSE Debt[x]
      BY <1>6, <1>7
    <2>2. \A x \in Entries : Stage'[x] = Stage[x]
      BY <1>5, <1>7
    <2>3. QED
      BY <2>1, <2>2 DEF Debt, Stage
  <1>9. Ledger!Pay(k, b)
    <2>1. Stored(settlements)[k] = NoSettlement
      BY <1>1, <1>2, MappingByName
    <2>2. Stage[b.entry] = "LIVE" /\ b.amount <= Debt[b.entry]
          /\ Debt' = [Debt EXCEPT ![b.entry] = @ - b.amount]
      BY <1>5, <1>6, <1>8 DEF e
    <2>3. QED
      BY <1>3, <1>8, <2>1, <2>2, MappingByName DEF Ledger!Pay, Debt, Stage
  <1>10. QED
    <2>1. k \in Keys /\ b \in Bodies
      BY <1>1
    <2>2. QED
      BY <1>9, <2>1, Zenon DEF Ledger!Next

LEMMA UnchangedImplements ==
    ASSUME UNCHANGED <<entryVars, settlements>>
    PROVE  UNCHANGED Ledger!vars
  BY DEF Ledger!vars, entryVars, remaining, Existing

LEMMA LedgerInit == Init => Ledger!Init
  <1> SUFFICES ASSUME Init PROVE Ledger!Init
    OBVIOUS
  <1>1. \A e \in Entries : Debt[e] = 0 /\ Stage[e] = "NONE"
    BY TitleMapping DEF Init, remaining
  <1>2. \A k \in Keys : Existing(k) = NoSettlement
    BY DEF Init, Existing
  <1>3. Debt = [e \in Entries |-> 0] /\ Stage = [e \in Entries |-> "NONE"]
    BY <1>1 DEF Debt, Stage
  <1>4. QED
    BY <1>2, <1>3 DEF Ledger!Init, Debt, Stage

(* FinanceService implements the ledger of debts and payments: a debt is   *)
(* only paid by settlements, at most one under each key and never beyond   *)
(* what is owed, and is revised or voided only while nothing was paid.     *)
THEOREM FinanceKeepsLedger == Spec => ImplementsLedger
  <1>1. TypeOK /\ BooksInvariant /\ KeyInvariant /\ [Next]_vars => [Ledger!Next]_(Ledger!vars)
    <2> SUFFICES ASSUME TypeOK, BooksInvariant, KeyInvariant, [Next]_vars
                 PROVE  Ledger!Next \/ UNCHANGED Ledger!vars
      OBVIOUS
    <2>1. CASE UNCHANGED vars
      BY <2>1, UnchangedImplements DEF vars
    <2>2. CASE Titles
      BY <2>2, TitlesImplement
    <2>3. CASE \E r \in Requests : Send(r) \/ Handle(r) \/ Crash(r)
      BY <2>3, OnlyCommitWrites, CommitImplements, UnchangedImplements
    <2>4. CASE \E v \in Readers : ReadForecast(v) \/ ReadRealized(v) \/ CloseReport(v)
      <3>1. UNCHANGED <<entryVars, settlements>>
        BY <2>4 DEF ReadForecast, ReadRealized, CloseReport
      <3>2. QED
        BY <3>1, UnchangedImplements
    <2>5. QED
      BY <2>1, <2>2, <2>3, <2>4 DEF Next
  <1>2. QED
    BY <1>1, LedgerInit, TypeCorrect, BooksAreKept, KeysAreConsistent, PTL
       DEF Spec, ImplementsLedger, Ledger!Spec
=============================================================================
