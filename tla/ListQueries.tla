---------------------------- MODULE ListQueries ----------------------------
(***************************************************************************)
(* The list endpoints of the API, read page after page while rows come, go *)
(* and change.  Every page is two statements, one for its rows and one for *)
(* the total; each sees what is committed when it starts.  Rows that the   *)
(* order of a list does not tell apart come in any order.                  *)
(*                                                                         *)
(* A row has one sort key, that of the list's default order.  Which rows   *)
(* match the filters is part of the table: a row that stops matching is    *)
(* gone.                                                                   *)
(***************************************************************************)
EXTENDS Naturals, FiniteSets, SequencesExt

CONSTANTS
    MaxRow,      \* the rows are 1..MaxRow, in the order of their ids (bound)
    MaxKey,      \* largest sort key (bound)
    Limit,       \* rows of a page
    MaxWrites    \* writes by other users (bound)

ListQueriesAssumption ==
    /\ MaxRow \in Nat /\ MaxKey \in Nat \ {0}
    /\ Limit \in Nat \ {0} /\ MaxWrites \in Nat

(* A list: whether a unique index keeps its sort keys apart, whether the id *)
(* decides between equal keys, and whether the two statements of a page are *)
(* started together instead of one after the other.                         *)
List(name, unique, byId, together) ==
    [name |-> name, unique |-> unique, byId |-> byId, together |-> together]

UsersList == List("users", FALSE, FALSE, FALSE)
UnitsList == List("units", TRUE, FALSE, FALSE)
CategoriesList == List("categories", TRUE, FALSE, FALSE)
CustomersList == List("customers", FALSE, FALSE, FALSE)
SuppliersList == List("suppliers", FALSE, FALSE, FALSE)
WarehousesList == List("warehouses", FALSE, FALSE, FALSE)
LocationsList == List("locations", FALSE, FALSE, FALSE)
ProductsList == List("products", FALSE, FALSE, FALSE)
BalancesList == List("balances", FALSE, FALSE, FALSE)
MovementsList == List("movements", FALSE, FALSE, FALSE)
CountsList == List("counts", FALSE, FALSE, FALSE)
CountItemsList == List("items of a count", FALSE, FALSE, TRUE)
ReservationsList == List("reservations", FALSE, FALSE, FALSE)
SalesOrdersList == List("sales orders", FALSE, FALSE, FALSE)
PurchaseOrdersList == List("purchase orders", FALSE, FALSE, FALSE)
ReceiptsList == List("receipts", FALSE, FALSE, FALSE)

FinanceList == List("finance", FALSE, TRUE, FALSE)

SalesReport == List("sales report", FALSE, TRUE, TRUE)
PurchasesReport == List("purchases report", FALSE, TRUE, TRUE)

(* The rows are products at locations, and the id is that of the product.   *)
InventoryReport == List("inventory report", FALSE, FALSE, FALSE)

Lists ==
    {UsersList, UnitsList, CategoriesList, CustomersList, SuppliersList, WarehousesList,
     LocationsList, ProductsList, BalancesList, MovementsList, CountsList, CountItemsList,
     ReservationsList, SalesOrdersList, PurchaseOrdersList, ReceiptsList, FinanceList,
     SalesReport, PurchasesReport, InventoryReport}

VARIABLES
    list,     \* the list looked through
    table,    \* the key of each row, NoKey for one that does not match
    page,     \* the page asked for
    found,    \* the rows of the page once read, or NotYet
    total,    \* the total once read, or NotCounted
    seen,     \* how often the pages so far showed each row
    first,    \* the rows when the first page was asked for
    over,     \* whether the last page was shown
    written,  \* the kinds of writes since the first page was asked for
    writes    \* how many

queryVars == <<list, table, page, found, total, seen, first, over, written, writes>>

Rows == 1..MaxRow
NoKey == 0
NotYet == <<0>>
NotCounted == MaxRow + 1
Present(t) == {r \in Rows : t[r] # NoKey}

(* Types: a page holds at most Limit rows, and no row more than once.       *)
TypeOK ==
    /\ list \in Lists
    /\ table \in [Rows -> 0..MaxKey]
    /\ page \in 1..(MaxRow + 1)
    /\ found # NotYet =>
         /\ found \in Seq(Rows) /\ Len(found) <= Limit
         /\ IsInjective(found)
    /\ total \in 0..NotCounted
    /\ seen \in [Rows -> Nat]
    /\ first \subseteq Rows /\ over \in BOOLEAN
    /\ written \subseteq {"come", "go", "change"} /\ writes \in 0..MaxWrites

(* A table that the unique index of the list allows.                        *)
Allowed(l, t) ==
    l.unique => \A r, s \in Present(t) : r # s => t[r] # t[s]

Init ==
    /\ list \in Lists
    /\ table \in [Rows -> 0..MaxKey] /\ Allowed(list, table)
    /\ page = 1 /\ found = NotYet /\ total = NotCounted
    /\ seen = [r \in Rows |-> 0]
    /\ first = Present(table)
    /\ over = FALSE
    /\ written = {} /\ writes = 0

-----------------------------------------------------------------------------

Precedes(r, s) ==
    table[r] < table[s] \/ (list.byId /\ table[r] = table[s] /\ r < s)

(* Every order of the rows that the ORDER BY allows.                        *)
Orders ==
    {o \in SetToSeqs(Present(table)) :
        \A i, j \in DOMAIN o : i < j => ~Precedes(o[j], o[i])}

(* The rows that the pages before this one show.                            *)
Skip == (page - 1) * Limit

ReadRows ==
    /\ ~over /\ found = NotYet
    /\ \E o \in Orders : found' = SubSeq(o, Skip + 1, Min({Skip + Limit, Len(o)}))
    /\ UNCHANGED <<list, table, page, total, seen, first, over, written, writes>>

(* Fault: the total is asked for first.                                     *)
FaultMayCount == TRUE

(* The statements of a transaction follow each other.                       *)
MayCount == list.together \/ found # NotYet

ReadTotal ==
    /\ ~over /\ total = NotCounted /\ MayCount
    /\ total' = Cardinality(Present(table))
    /\ UNCHANGED <<list, table, page, found, seen, first, over, written, writes>>

(* The page is shown; the reader asks for the next unless this is the last. *)
Answer ==
    /\ found # NotYet /\ total # NotCounted
    /\ seen' = [r \in Rows |-> seen[r] + Cardinality({i \in DOMAIN found : found[i] = r})]
    /\ found' = NotYet /\ total' = NotCounted
    /\ IF page * Limit < total
         THEN page' = page + 1 /\ over' = over
         ELSE page' = page /\ over' = TRUE
    /\ UNCHANGED <<list, table, first, written, writes>>

(* Another user's write: a row comes, goes or changes its place.            *)
Write(r, key) ==
    /\ ~over /\ writes < MaxWrites
    /\ key # table[r]
    /\ table' = [table EXCEPT ![r] = key]
    /\ Allowed(list, table')
    /\ writes' = writes + 1
    /\ written' = written \cup
         {IF table[r] = NoKey THEN "come" ELSE IF key = NoKey THEN "go" ELSE "change"}
    /\ UNCHANGED <<list, page, found, total, seen, first, over>>

Next ==
    \/ ReadRows \/ ReadTotal \/ Answer
    \/ \E r \in Rows, key \in 0..MaxKey : Write(r, key)

Spec == Init /\ [][Next]_queryVars

-----------------------------------------------------------------------------
(* The lists whose default order leaves nothing to chance.                  *)
InOrder == list.name \in {"units", "categories", "finance", "sales report", "purchases report"}

(* Whoever turns the pages of such a list while nothing is written sees     *)
(* every row once and nothing else.                                         *)
WalkIsComplete ==
    over /\ written = {} /\ InOrder =>
        \A r \in Rows : seen[r] = IF r \in Present(table) THEN 1 ELSE 0

(* Rows that come in between push others to later pages, where they may be  *)
(* seen again; none is skipped, because the total is counted after the rows *)
(* of its page.                                                             *)
NothingIsSkipped ==
    over /\ written \subseteq {"come"} /\ InOrder /\ ~list.together =>
        \A r \in first : seen[r] > 0
=============================================================================
