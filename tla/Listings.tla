------------------------------ MODULE Listings ------------------------------
(***************************************************************************)
(* One list page of the web application: what is typed in its filters, the *)
(* page asked for, the query cache and what is drawn, while other users    *)
(* change the rows.  The pages are written apart and differ in when they   *)
(* ask, what they draw meanwhile and where the pager takes its page from.  *)
(*                                                                         *)
(* A page has one row.  Deleted: the columns, and queries collected after  *)
(* five minutes unused, which only makes a page load again.                *)
(***************************************************************************)
EXTENDS Naturals

CONSTANTS
    Filters,     \* what may be typed or chosen
    MaxRows,     \* rows that match a filter (bound)
    MaxMoves,    \* keystrokes and clicks (bound)
    MaxChanges   \* changes by other users (bound)

ListingsAssumption ==
    /\ Filters # {}
    /\ MaxRows \in Nat /\ MaxMoves \in Nat /\ MaxChanges \in Nat

(* How a list page behaves: whether the search text is asked for after a    *)
(* pause only, whether the rows of the last answer stay while the next is   *)
(* awaited, and whether the pager is that of a list (drawn under rows and   *)
(* counting from the answer) or of a report (drawn with any answer and      *)
(* counting from the page asked for, with no retry after an error).         *)
Shape(delays, keeps, reports) == [delays |-> delays, keeps |-> keeps, reports |-> reports]

UsersPage == Shape(TRUE, FALSE, FALSE)
CustomersPage == Shape(TRUE, FALSE, FALSE)
SuppliersPage == Shape(TRUE, FALSE, FALSE)
ProductsPage == Shape(TRUE, FALSE, FALSE)
CatalogPage == Shape(TRUE, FALSE, FALSE)
WarehousesPage == Shape(TRUE, FALSE, FALSE)
StockLocationsPage == Shape(TRUE, FALSE, FALSE)
InventoryPage == Shape(TRUE, FALSE, FALSE)
InventoryCountsPage == Shape(TRUE, FALSE, FALSE)
InventoryMovementsPage == Shape(FALSE, FALSE, FALSE)
StockReservationsPage == Shape(FALSE, FALSE, FALSE)
SalesOrdersPage == Shape(FALSE, FALSE, FALSE)
PurchaseOrdersPage == Shape(FALSE, FALSE, FALSE)
PurchaseReceiptsPage == Shape(FALSE, FALSE, FALSE)
FinancialEntriesPage == Shape(FALSE, TRUE, FALSE)
ReportPage == Shape(TRUE, TRUE, TRUE)

ListPages ==
    {UsersPage, CustomersPage, SuppliersPage, ProductsPage, CatalogPage, WarehousesPage,
     StockLocationsPage, InventoryPage, InventoryCountsPage, InventoryMovementsPage,
     StockReservationsPage, SalesOrdersPage, PurchaseOrdersPage, PurchaseReceiptsPage,
     FinancialEntriesPage, ReportPage}

VARIABLES
    shape,    \* the page looked at
    rows,     \* the rows that match each filter
    typed,    \* the filter on the screen
    asked,    \* the filter of the query
    page,     \* the page of the query
    cache,    \* per query: the total of the last answer, or NoData
    failed,   \* the queries whose last fetch failed
    fetches,  \* per query: the fetch under way
    held,     \* the query observed last that had data
    moves,    \* keystrokes and clicks so far
    changes,  \* changes by others so far
    shrunk    \* whether one of them took rows away

vars == <<shape, rows, typed, asked, page, cache, failed, fetches, held, moves, changes, shrunk>>

Pages == 0..(MaxRows + 1)
Queries == Filters \X Pages
NoData == MaxRows + 1
Idle == MaxRows + 2
Sent == MaxRows + 3
Refused == MaxRows + 4
NoQuery == <<>>

(* Types: and held has data.                                                *)
TypeOK ==
    /\ shape \in ListPages
    /\ rows \in [Filters -> 0..MaxRows]
    /\ typed \in Filters /\ asked \in Filters /\ page \in Pages
    /\ cache \in [Queries -> 0..NoData]
    /\ failed \subseteq Queries
    /\ fetches \in [Queries -> (0..MaxRows) \cup {Idle, Sent, Refused}]
    /\ held # NoQuery => held \in Queries /\ cache[held] # NoData
    /\ moves \in 0..MaxMoves /\ changes \in 0..MaxChanges /\ shrunk \in BOOLEAN

Init ==
    /\ shape \in ListPages
    /\ rows \in [Filters -> 0..MaxRows]
    /\ typed \in Filters /\ asked = typed /\ page = 1
    /\ cache = [q \in Queries |-> NoData]
    /\ failed = {}
    /\ fetches = [q \in Queries |-> IF q = <<asked, 1>> THEN Sent ELSE Idle]
    /\ held = NoQuery
    /\ moves = 0 /\ changes = 0 /\ shrunk = FALSE

-----------------------------------------------------------------------------
(* What is drawn.                                                           *)

Query == <<asked, page>>

(* Fault: every page keeps the rows of the last answer.                     *)
FaultSource == IF cache[Query] # NoData THEN Query ELSE held

(* The query whose rows are on the screen, NoQuery for none.                *)
Source ==
    IF cache[Query] # NoData THEN Query
      ELSE IF shape.keeps /\ Query \notin failed THEN held ELSE NoQuery

HasRows(q) == q[2] <= cache[q]

ShowsError == Query \in failed
ShowsAnswer == Source # NoQuery /\ (shape.reports \/ ~ShowsError)
ShowsTable == ShowsAnswer /\ HasRows(Source)
ShowsEmpty == ShowsAnswer /\ ~HasRows(Source)
ShowsPager == ShowsAnswer /\ (shape.reports \/ HasRows(Source))

-----------------------------------------------------------------------------
(* The user.                                                                *)

(* The page observes the query q from now on: one that is stale is fetched, *)
(* unless a fetch is under way; reports are stale after half a minute.      *)
Observe(q) ==
    /\ held' = IF cache[q] # NoData THEN q ELSE held
    /\ IF q = Query
         THEN UNCHANGED <<fetches, failed>>
         ELSE \/ /\ fetches' = [fetches EXCEPT ![q] = IF @ = Idle THEN Sent ELSE @]
                 /\ failed' = IF cache[q] = NoData /\ fetches[q] = Idle THEN failed \ {q} ELSE failed
              \/ /\ shape.reports /\ cache[q] # NoData
                 /\ UNCHANGED <<fetches, failed>>

Move == moves < MaxMoves /\ moves' = moves + 1

Type(f) ==
    /\ f # typed
    /\ Move
    /\ typed' = f /\ page' = 1
    /\ asked' = IF shape.delays THEN asked ELSE f
    /\ Observe(<<asked', page'>>)
    /\ UNCHANGED <<shape, rows, cache, changes, shrunk>>

(* Fault: the pause ends, and the query goes on with the old text.          *)
FaultPause ==
    /\ asked # typed
    /\ asked' = typed
    /\ UNCHANGED <<shape, rows, typed, page, cache, failed, fetches, held, moves, changes, shrunk>>

(* The pause after the last keystroke is over.                              *)
Pause ==
    /\ asked # typed
    /\ asked' = typed
    /\ Observe(<<typed, page>>)
    /\ UNCHANGED <<shape, rows, typed, page, cache, moves, changes, shrunk>>

(* The page a click asks for: counted from the answer by the pager of a     *)
(* list, from the page asked for by that of a report.                       *)
Counted == IF shape.reports THEN page ELSE Source[2]

Turn(to) ==
    /\ ShowsPager
    /\ Move
    /\ to \in Pages
    /\ page' = to
    /\ Observe(<<asked, to>>)
    /\ UNCHANGED <<shape, rows, typed, asked, cache, changes, shrunk>>

NextPage == ShowsPager /\ Source[2] < cache[Source] /\ Turn(Counted + 1)
PreviousPage == ShowsPager /\ Source[2] > 1 /\ Counted > 0 /\ Turn(Counted - 1)

Retry ==
    /\ ShowsError /\ ~shape.reports
    /\ fetches[Query] = Idle
    /\ fetches' = [fetches EXCEPT ![Query] = Sent]
    /\ failed' = IF cache[Query] = NoData THEN failed \ {Query} ELSE failed
    /\ UNCHANGED <<shape, rows, typed, asked, page, cache, held, moves, changes, shrunk>>

-----------------------------------------------------------------------------
(* The API, and the other users.                                            *)

(* A page below one is refused; one beyond the last is empty.               *)
Serve(q) ==
    /\ fetches[q] = Sent
    /\ fetches' = [fetches EXCEPT ![q] = IF q[2] = 0 THEN Refused ELSE rows[q[1]]]
    /\ UNCHANGED <<shape, rows, typed, asked, page, cache, failed, held, moves, changes, shrunk>>

Arrive(q) ==
    /\ fetches[q] \in 0..MaxRows
    /\ fetches' = [fetches EXCEPT ![q] = Idle]
    /\ cache' = [cache EXCEPT ![q] = fetches[q]]
    /\ failed' = failed \ {q}
    /\ held' = IF q = Query THEN q ELSE held
    /\ UNCHANGED <<shape, rows, typed, asked, page, moves, changes, shrunk>>

(* Refused by the API, or lost on the way; queries are not retried.         *)
Fail(q) ==
    /\ fetches[q] # Idle
    /\ fetches' = [fetches EXCEPT ![q] = Idle]
    /\ failed' = failed \cup {q}
    /\ UNCHANGED <<shape, rows, typed, asked, page, cache, held, moves, changes, shrunk>>

Change(f, n) ==
    /\ changes < MaxChanges
    /\ n # rows[f]
    /\ rows' = [rows EXCEPT ![f] = n]
    /\ changes' = changes + 1
    /\ shrunk' = (shrunk \/ n < rows[f])
    /\ UNCHANGED <<shape, typed, asked, page, cache, failed, fetches, held, moves>>

Answered == \E q \in Queries : Serve(q) \/ Arrive(q) \/ Fail(q)

Next ==
    \/ \E f \in Filters : Type(f)
    \/ Pause \/ NextPage \/ PreviousPage \/ Retry
    \/ Answered
    \/ \E f \in Filters, n \in 0..MaxRows : Change(f, n)

Spec == Init /\ [][Next]_vars

(* The timer fires, and requests are answered or fail.                      *)
Fairness == WF_vars(Pause) /\ WF_vars(Answered)

FairSpec == Spec /\ Fairness

-----------------------------------------------------------------------------
(* What a user may rely on.                                                 *)

(* Rows are rows of what is on the screen: a table answers the filter the   *)
(* user sees, unless the pause has not ended or the page keeps the rows of  *)
(* the last answer while it loads.                                          *)
TableAnswersFilter ==
    ShowsTable => Source[1] = typed \/ (shape.delays /\ asked # typed) \/ (shape.keeps /\ Source # Query)

(* Nothing found means there is nothing: a list page that asks at once and  *)
(* keeps no old pager on the screen says so only of a filter without rows,  *)
(* as long as nobody took rows away.                                        *)
NothingFoundIsTrue ==
    ShowsEmpty /\ ~shape.delays /\ ~shape.keeps /\ ~shrunk => cache[Source] = 0

(* What is typed is answered in the end, unless the user types on: rows or  *)
(* their absence for that filter, or an error.                              *)
AnswersTyped == ShowsError \/ (ShowsAnswer /\ Source[1] = typed)
TypedIsAnswered == []<>AnswersTyped
=============================================================================
