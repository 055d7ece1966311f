------------------------------ MODULE Finance ------------------------------
(***************************************************************************)
(* FinanceService: titles to pay or to receive, their settlements with     *)
(* idempotency keys and retries, and the reports that read both tables.    *)
(*                                                                         *)
(* create, update and cancel are SERIALIZABLE transactions whose outcome   *)
(* does not depend on what a caller did before: one step each, where they  *)
(* commit.  settle is split because its handler sees the difference: the   *)
(* key is looked up in the transaction's snapshot, and the transaction     *)
(* ends in a commit, a refusal, a unique violation or a conflict.          *)
(* cashFlow and summary read entries and settlements by two statements,    *)
(* each with a snapshot of its own.                                        *)
(*                                                                         *)
(* Partners, reference documents and texts are left out: they can only     *)
(* refuse a create or an update, and a refused call is no step.            *)
(***************************************************************************)
EXTENDS Integers, Sequences, Functions

CONSTANTS
    Entries,      \* FinancialEntry ids
    EntryAmounts, \* originalAmount values a client may ask for
    Days,         \* due dates
    Requests,     \* logical settlement requests of the clients
    Keys,         \* idempotency keys; a settlement always carries one
    Bodies,       \* what a request may carry: [entry, amount, details, key]
    Details,      \* date, method and notes of a settlement
    NoSettlement, \* no row under a key
    Readers,      \* users who ask for reports
    NoReport,     \* the reader has no report open
    MaxSends      \* how often a client sends one request (bound)

ASSUME EntryAmountsAssumption == EntryAmounts \subseteq Nat \ {0}
ASSUME DaysAssumption == Days \subseteq Int /\ Days # {}
ASSUME BodiesAssumption ==
    Bodies \subseteq [entry : Entries, amount : Nat \ {0}, details : Details, key : Keys]
ASSUME NoSettlementAssumption == NoSettlement \notin Bodies
ASSUME MaxSendsAssumption == MaxSends \in Nat \ {0}

MaxAttempts == 3

VARIABLES
    status,           \* FinancialEntry.status; NONE before the row exists
    originalAmount,   \* FinancialEntry.originalAmount
    settledAmount,    \* FinancialEntry.settledAmount
    dueDate,          \* FinancialEntry.dueDate
    settlements,      \* FinancialSettlement rows in the order they were created
    body,             \* what each request asks for; a resend repeats it
    pc,               \* where the handler of the request is
    attempt,          \* attempt of the retry loop
    sends,            \* times the client has sent the request
    found,            \* the row the transaction's own lookup returned
    answer,           \* the last answer of the handler
    report            \* the report each reader is computing or has received

entryVars == <<status, originalAmount, settledAmount, dueDate>>
requestVars == <<body, pc, attempt, sends, found, answer>>
vars == <<entryVars, settlements, requestVars, report>>

Statuses == {"OPEN", "PARTIALLY_SETTLED", "SETTLED", "CANCELLED"}
PC == {"unsent", "ready", "inTransaction", "duplicate", "answered"}
Answers == {"NONE", "SETTLEMENT", "REFUSED", "IDEMPOTENCY_KEY_REUSED",
            "UNHANDLED_CONFLICT", "LOST"}
Reports == [asked : [Entries -> Nat], forecast : [Entries -> Int],
            realized : [Entries -> Nat], complete : BOOLEAN]

(* Types: amounts are not negative, every row was asked for by a client.   *)
TypeOK ==
    /\ status \in [Entries -> Statuses \cup {"NONE"}]
    /\ originalAmount \in [Entries -> Nat]
    /\ settledAmount \in [Entries -> Nat]
    /\ dueDate \in [Entries -> Days]
    /\ settlements \in Seq(Bodies)
    /\ body \in [Requests -> Bodies]
    /\ pc \in [Requests -> PC]
    /\ attempt \in [Requests -> 1..MaxAttempts]
    /\ sends \in [Requests -> 0..MaxSends]
    /\ found \in [Requests -> Bodies \cup {NoSettlement}]
    /\ answer \in [Requests -> Answers]
    /\ report \in [Readers -> Reports \cup {NoReport}]

Init ==
    /\ status = [e \in Entries |-> "NONE"]
    /\ originalAmount = [e \in Entries |-> 0]
    /\ settledAmount = [e \in Entries |-> 0]
    /\ dueDate \in [Entries -> {CHOOSE d \in Days : TRUE}]
    /\ settlements = <<>>
    /\ body \in [Requests -> Bodies]
    /\ pc = [r \in Requests |-> "unsent"]
    /\ attempt = [r \in Requests |-> 1]
    /\ sends = [r \in Requests |-> 0]
    /\ found = [r \in Requests |-> NoSettlement]
    /\ answer = [r \in Requests |-> "NONE"]
    /\ report = [v \in Readers |-> NoReport]

-----------------------------------------------------------------------------
(* Titles.                                                                 *)

remaining(e) == originalAmount[e] - settledAmount[e]

create(e, amount, due) ==
    /\ status[e] = "NONE"
    /\ status' = [status EXCEPT ![e] = "OPEN"]
    /\ originalAmount' = [originalAmount EXCEPT ![e] = amount]
    /\ dueDate' = [dueDate EXCEPT ![e] = due]
    /\ UNCHANGED <<settledAmount, settlements, requestVars, report>>

(* The row is locked, then checked, then written with the fields given.    *)
update(e, amount, due) ==
    /\ status[e] = "OPEN"
    /\ settledAmount[e] = 0
    /\ originalAmount' = [originalAmount EXCEPT ![e] = amount]
    /\ dueDate' = [dueDate EXCEPT ![e] = due]
    /\ UNCHANGED <<status, settledAmount, settlements, requestVars, report>>

(* A call on a CANCELLED title answers and changes nothing.                *)
cancel(e) ==
    /\ status[e] \notin {"NONE", "CANCELLED"}
    /\ settledAmount[e] = 0
    /\ status' = [status EXCEPT ![e] = "CANCELLED"]
    /\ UNCHANGED <<originalAmount, settledAmount, dueDate, settlements, requestVars, report>>

-----------------------------------------------------------------------------
(* The handler of one settlement request.                                  *)

(* The row the unique index (companyId, idempotencyKey) finds.             *)
Existing(k) ==
    IF \E i \in DOMAIN settlements : settlements[i].key = k
      THEN settlements[CHOOSE i \in DOMAIN settlements : settlements[i].key = k]
      ELSE NoSettlement

Reply(r, a) ==
    /\ pc' = [pc EXCEPT ![r] = "answered"]
    /\ answer' = [answer EXCEPT ![r] = a]
    /\ attempt' = [attempt EXCEPT ![r] = 1]
    /\ found' = [found EXCEPT ![r] = NoSettlement]
    /\ UNCHANGED <<body, sends>>

Send(r) ==
    /\ pc[r] \in {"unsent", "answered"}
    /\ sends[r] < MaxSends
    /\ sends' = [sends EXCEPT ![r] = @ + 1]
    /\ pc' = [pc EXCEPT ![r] = "ready"]
    /\ answer' = [answer EXCEPT ![r] = "NONE"]
    /\ UNCHANGED <<entryVars, settlements, body, attempt, found, report>>

BeginTransaction(r) ==
    /\ pc[r] = "ready"
    /\ pc' = [pc EXCEPT ![r] = "inTransaction"]
    /\ found' = [found EXCEPT ![r] = Existing(body[r].key)]
    /\ UNCHANGED <<entryVars, settlements, body, attempt, sends, answer, report>>

(* Fault: the hash covers something that differs from one send to the next.*)
FaultReplayNever(r, row) == Reply(r, "IDEMPOTENCY_KEY_REUSED")

(* The hash covers entry, amount, date, method and notes.                  *)
resolveSettlementRetry(r, row) ==
    Reply(r, IF row = body[r] THEN "SETTLEMENT" ELSE "IDEMPOTENCY_KEY_REUSED")

ReturnExisting(r) ==
    /\ pc[r] = "inTransaction"
    /\ found[r] # NoSettlement
    /\ resolveSettlementRetry(r, found[r])
    /\ UNCHANGED <<entryVars, settlements, report>>

(* Fault: the amount is compared with the whole title.                     *)
FaultSettleable(r) ==
    LET e == body[r].entry
    IN  /\ status[e] \in {"OPEN", "PARTIALLY_SETTLED"}
        /\ body[r].amount <= originalAmount[e]

(* The checks made of the locked entry.                                    *)
Settleable(r) ==
    LET e == body[r].entry
    IN  /\ status[e] \in {"OPEN", "PARTIALLY_SETTLED"}
        /\ body[r].amount <= remaining(e)

Refuse(r) ==
    /\ pc[r] = "inTransaction"
    /\ found[r] = NoSettlement
    /\ ~Settleable(r)
    /\ Reply(r, "REFUSED")
    /\ UNCHANGED <<entryVars, settlements, report>>

(* Fault: a title is settled by its last payment only if it was the first. *)
FaultNextStatus(e, nextSettled) ==
    IF settledAmount[e] = 0 /\ nextSettled = originalAmount[e]
      THEN "SETTLED" ELSE "PARTIALLY_SETTLED"

NextStatus(e, nextSettled) ==
    IF nextSettled = originalAmount[e] THEN "SETTLED" ELSE "PARTIALLY_SETTLED"

(* Settlement row, settled amount and status become visible together.      *)
Record(r) ==
    LET e == body[r].entry
        nextSettled == settledAmount[e] + body[r].amount
    IN  /\ settlements' = Append(settlements, body[r])
        /\ settledAmount' = [settledAmount EXCEPT ![e] = nextSettled]
        /\ status' = [status EXCEPT ![e] = NextStatus(e, nextSettled)]
        /\ UNCHANGED <<originalAmount, dueDate>>

(* Fault: no unique index stops a key taken since the lookup.              *)
FaultCommitWithoutIndex(r) ==
    /\ pc[r] = "inTransaction"
    /\ found[r] = NoSettlement
    /\ Settleable(r)
    /\ Record(r)
    /\ Reply(r, "SETTLEMENT")
    /\ UNCHANGED report

Commit(r) ==
    /\ pc[r] = "inTransaction"
    /\ found[r] = NoSettlement
    /\ Existing(body[r].key) = NoSettlement
    /\ Settleable(r)
    /\ Record(r)
    /\ Reply(r, "SETTLEMENT")
    /\ UNCHANGED report

(* P2002: the key was taken after the transaction's own lookup.            *)
UniqueViolation(r) ==
    /\ pc[r] = "inTransaction"
    /\ found[r] = NoSettlement
    /\ Settleable(r)
    /\ Existing(body[r].key) # NoSettlement
    /\ pc' = [pc EXCEPT ![r] = "duplicate"]
    /\ UNCHANGED <<entryVars, settlements, body, attempt, sends, found, answer, report>>

(* The handler reads the index again, outside any transaction.             *)
ResolveDuplicate(r) ==
    /\ pc[r] = "duplicate"
    /\ resolveSettlementRetry(r, Existing(body[r].key))
    /\ UNCHANGED <<entryVars, settlements, report>>

(* Fault: conflicts are retried without counting the attempts.             *)
FaultConflictForever(r) ==
    /\ pc[r] = "inTransaction"
    /\ pc' = [pc EXCEPT ![r] = "ready"]
    /\ found' = [found EXCEPT ![r] = NoSettlement]
    /\ UNCHANGED <<entryVars, settlements, body, attempt, sends, answer, report>>

(* P2034 is retried twice, then thrown as it is.                           *)
Conflict(r) ==
    /\ pc[r] = "inTransaction"
    /\ IF attempt[r] < MaxAttempts
         THEN /\ pc' = [pc EXCEPT ![r] = "ready"]
              /\ attempt' = [attempt EXCEPT ![r] = @ + 1]
              /\ found' = [found EXCEPT ![r] = NoSettlement]
              /\ UNCHANGED <<body, sends, answer>>
         ELSE Reply(r, "UNHANDLED_CONFLICT")
    /\ UNCHANGED <<entryVars, settlements, report>>

(* The raw FOR UPDATE of lockEntry meets a row changed since the snapshot: *)
(* 40001 inside P2010, which this loop, unlike inventory's, does not know. *)
RawConflict(r) ==
    /\ pc[r] = "inTransaction"
    /\ found[r] = NoSettlement
    /\ Reply(r, "UNHANDLED_CONFLICT")
    /\ UNCHANGED <<entryVars, settlements, report>>

Crash(r) ==
    /\ pc[r] \in {"ready", "inTransaction", "duplicate"}
    /\ Reply(r, "LOST")
    /\ UNCHANGED <<entryVars, settlements, report>>

Handle(r) ==
    \/ BeginTransaction(r) \/ ReturnExisting(r) \/ Refuse(r) \/ Commit(r)
    \/ UniqueViolation(r) \/ ResolveDuplicate(r) \/ Conflict(r) \/ RawConflict(r)

-----------------------------------------------------------------------------
(* Reports: what is still due, then what was settled.                      *)

(* Fault: the forecast forgets titles that were paid in part.              *)
FaultForecast(e) == IF status[e] = "OPEN" THEN remaining(e) ELSE 0

Forecast(e) ==
    IF status[e] \in {"OPEN", "PARTIALLY_SETTLED"} THEN remaining(e) ELSE 0

SettledOn(e) ==
    SumFunction([i \in DOMAIN settlements |->
                    IF settlements[i].entry = e THEN settlements[i].amount ELSE 0])

(* What the books say when the report is asked for; not part of the code.  *)
Booked(e) == IF status[e] \in {"NONE", "CANCELLED"} THEN 0 ELSE originalAmount[e]

ReadForecast(v) ==
    /\ report[v] = NoReport
    /\ report' = [report EXCEPT ![v] =
         [asked |-> [e \in Entries |-> Booked(e)],
          forecast |-> [e \in Entries |-> Forecast(e)],
          realized |-> [e \in Entries |-> 0],
          complete |-> FALSE]]
    /\ UNCHANGED <<entryVars, settlements, requestVars>>

ReadRealized(v) ==
    /\ report[v] # NoReport
    /\ ~report[v].complete
    /\ report' = [report EXCEPT ![v].realized = [e \in Entries |-> SettledOn(e)],
                                ![v].complete = TRUE]
    /\ UNCHANGED <<entryVars, settlements, requestVars>>

CloseReport(v) ==
    /\ report[v] # NoReport
    /\ report' = [report EXCEPT ![v] = NoReport]
    /\ UNCHANGED <<entryVars, settlements, requestVars>>

(* The list filter `overdue` and the flag of each response, on some day.   *)
ListedOverdue(e, today) ==
    dueDate[e] < today /\ status[e] \in {"OPEN", "PARTIALLY_SETTLED"}
ListedNotOverdue(e, today) ==
    dueDate[e] >= today \/ status[e] \in {"SETTLED", "CANCELLED"}
overdue(e, today) ==
    status[e] # "CANCELLED" /\ remaining(e) > 0 /\ dueDate[e] < today

-----------------------------------------------------------------------------
Titles ==
    \E e \in Entries :
        \/ cancel(e)
        \/ \E amount \in EntryAmounts, due \in Days :
                create(e, amount, due) \/ update(e, amount, due)

Next ==
    \/ Titles
    \/ \E r \in Requests : Send(r) \/ Handle(r) \/ Crash(r)
    \/ \E v \in Readers : ReadForecast(v) \/ ReadRealized(v) \/ CloseReport(v)

Spec == Init /\ [][Next]_vars

(* A handler that has begun goes on: Node runs its continuations and the   *)
(* database ends every transaction.                                        *)
FairSpec == Spec /\ \A r \in Requests : WF_vars(Handle(r))

-----------------------------------------------------------------------------
(* Properties.                                                             *)

(* The settled amount of a title is the sum of its settlement rows: none   *)
(* is lost to, or counted twice by, concurrent or repeated settlements.    *)
SettledIsExplained == \A e \in Entries : settledAmount[e] = SettledOn(e)

(* Status and amounts agree, as FinancialEntry_status_check demands: no    *)
(* sequence of operations is aborted by the constraint.                    *)
StatusAgrees ==
    \A e \in Entries :
        /\ status[e] \in {"NONE", "OPEN", "CANCELLED"} => settledAmount[e] = 0
        /\ status[e] = "PARTIALLY_SETTLED" => settledAmount[e] \in 1..(originalAmount[e] - 1)
        /\ status[e] = "SETTLED" => settledAmount[e] = originalAmount[e]

(* However often and by however many requests a key is sent, one row       *)
(* carries it.                                                             *)
KeySettlesOnce ==
    \A i, j \in DOMAIN settlements : settlements[i].key = settlements[j].key => i = j

(* A settlement answered to a request is recorded as it was asked for.     *)
AnswerIsRecorded ==
    \A r \in Requests : answer[r] = "SETTLEMENT" =>
        \E i \in DOMAIN settlements : settlements[i] = body[r]

(* A 409 for a reused key is told only to a request that differs from what *)
(* the key paid for, never to a repetition whose first answer was lost.    *)
ReplayIsNotRefused ==
    \A r \in Requests : answer[r] = "IDEMPOTENCY_KEY_REUSED" =>
        \A i \in DOMAIN settlements : settlements[i] # body[r]

(* The promise of a key: one settlement, the one asked for, or an error    *)
(* that is true, however requests repeat, overlap and lose their answers.  *)
KeysAreSound == KeySettlesOnce /\ AnswerIsRecorded /\ ReplayIsNotRefused

(* A combined report never misses money: for every title, what it lists as *)
(* due plus what it lists as settled covers the title as it stood when the *)
(* report was asked for, though a settlement may commit between the reads  *)
(* (it is then listed on both sides).                                      *)
NothingIsMissed ==
    \A v \in Readers : (report[v] # NoReport /\ report[v].complete) =>
        \A e \in Entries : report[v].forecast[e] + report[v].realized[e] >= report[v].asked[e]

(* The list filter, evaluated on status, and the flag in the response,     *)
(* evaluated on amounts, say the same of every title, and the two values   *)
(* of the filter split the list.                                           *)
OverdueAgrees ==
    \A e \in Entries, today \in Days : status[e] # "NONE" =>
        /\ ListedOverdue(e, today) = overdue(e, today)
        /\ ListedNotOverdue(e, today) = ~overdue(e, today)

(* Rows, amounts, status and the two ways to ask for overdue titles tell   *)
(* the same of every title after any sequence of operations.               *)
BooksAgree == TypeOK /\ SettledIsExplained /\ StatusAgrees /\ OverdueAgrees

(* The retry loop ends: every settlement request sent is answered.         *)
SentIsAnswered ==
    \A r \in Requests : pc[r] = "ready" ~> pc[r] = "answered"

(* Titles and settlements are debts and payments.                          *)
Ledger == INSTANCE Debts WITH
    Amounts <- EntryAmounts,
    Payments <- Bodies,
    NoPayment <- NoSettlement,
    debt <- [e \in Entries |-> IF status[e] = "CANCELLED" THEN 0 ELSE remaining(e)],
    stage <- [e \in Entries |-> CASE status[e] = "NONE" -> "NONE"
                                   [] status[e] = "CANCELLED" -> "VOID"
                                   [] OTHER -> "LIVE"],
    paid <- [k \in Keys |-> Existing(k)]
ImplementsLedger == Ledger!Spec
=============================================================================
