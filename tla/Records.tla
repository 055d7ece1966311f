-------------------------------- MODULE Records --------------------------------
(***************************************************************************)
(* Accounts, Warehouses, Partners, Products, and what reads and edits      *)
(* records: ListQueries, StockReads and Editing.  No handler of one reads  *)
(* a row of another here, so each behaviour examines one of them, its      *)
(* focus, while the others rest.                                           *)
(*   accounts:   administrative requests, one after the other.             *)
(*   overlap:    administrative requests of several clients.               *)
(*   warehouses: requests one after the other.                             *)
(*   partners:   requests one after the other.                             *)
(*   addresses:  requests of several clients.                              *)
(*   products:   requests one after the other; references change status    *)
(*               only while no product is being written.                   *)
(*   lists:      a list of any service.                                    *)
(*   stock:      reads of what is available.                               *)
(*   forms:      a form of any shape.                                      *)
(***************************************************************************)
EXTENDS Accounts

CONSTANTS
    clerk,                             \* who sends requests one after the other
    Warehouse, Location, HomeOf,       \* of Warehouses
    Customers, Suppliers, Documents, TypeOf, Addresses, Absent,  \* of Partners
    SharedCustomers, SharedDocuments, SharedAddresses,  \* those of the focus "addresses"
    Product, Categories, Units, Null,  \* of Products
    MaxRow, MaxKey, Limit, MaxWrites,  \* of ListQueries
    Products, Locations, Warehouses, WarehouseOf, Capacity,      \* of StockReads
    Values, MaxMoves, MaxChanges, MaxFetches                     \* of Editing

VARIABLES
    focus,
    warehouse, location, moving,               \* of Warehouses
    type, document, primary, updating, answer, \* of Partners
    isActive, product, linking,                \* of Products
    list, table, page, found, total, seen, first, over, written, writes,    \* of ListQueries
    balance, reserved, underInventory, reading, shownStock, truth, touched, risen,  \* of StockReads
    form, row, shown, failed, fetch, open, held, save, reverted, moves, changes, refetches  \* of Editing

warehouseVars == <<warehouse, location, moving>>
partnerVars == <<type, document, primary, updating, answer>>
productVars == <<isActive, product, linking>>
listVars == <<list, table, page, found, total, seen, first, over, written, writes>>
stockVars ==
    <<balance, reserved, underInventory, reading, shownStock, truth, touched, risen>>
formVars ==
    <<form, row, shown, failed, fetch, open, held, save, reverted, moves, changes, refetches>>
tableVars == <<vars, warehouseVars, partnerVars, productVars>>
readerVars == <<listVars, stockVars, formVars>>
recordVars == <<focus, tableVars, readerVars>>

W == INSTANCE Warehouses WITH Clients <- {clerk}, request <- moving

One == INSTANCE Partners WITH Clients <- {clerk}, request <- updating
SharedTypes == [d \in SharedDocuments |-> TypeOf[d]]
Two == INSTANCE Partners WITH
    Customers <- SharedCustomers, Documents <- SharedDocuments, TypeOf <- SharedTypes,
    Addresses <- SharedAddresses, request <- updating

P == INSTANCE Products WITH Clients <- {clerk}, request <- linking

Q == INSTANCE ListQueries

S == INSTANCE StockReads WITH NoLocation <- Null, answer <- shownStock

E == INSTANCE Editing

ASSUME RecordsAssumption ==
    /\ W!HomeOfAssumption
    /\ One!PartnerAssumption /\ One!TypeOfAssumption /\ One!AbsentAssumption
    /\ Two!PartnerAssumption /\ Two!TypeOfAssumption /\ Two!AbsentAssumption
    /\ P!ChoicesAssumption
    /\ Q!ListQueriesAssumption /\ E!EditingAssumption
    /\ S!WarehouseOfAssumption /\ S!NoLocationAssumption /\ S!CapacityAssumption

RecordsInit ==
    /\ focus \in {"accounts", "overlap", "warehouses", "partners", "addresses", "products",
                  "lists", "stock", "forms"}
    /\ Init /\ W!Init /\ P!Init
    /\ Q!Init /\ S!ReadsInit /\ E!Init
    /\ focus # "lists" => list = Q!UsersList /\ table = [r \in Q!Rows |-> Q!NoKey]
    /\ focus # "stock" => balance = S!NoAmount
    /\ focus # "forms" =>
         /\ form = E!RoleForm /\ ~open
         /\ shown = row /\ row.text = row.choice /\ ~row.mark
    /\ IF focus = "addresses" THEN Two!Init ELSE One!Init

(* One request at a time; or two at once, and authVersion up to 1.         *)
Alone == Cardinality({t \in Clients : request'[t] # NoRequest}) <= 1
OneSigning == Cardinality(signing') <= 1
FewVersions == \A u \in Users : authVersion'[u] <= 1

RecordsNext ==
    /\ focus' = focus
    /\ \/ /\ focus = "accounts" /\ Next /\ Alone /\ OneSigning
          /\ UNCHANGED <<warehouseVars, partnerVars, productVars, readerVars>>
       \/ /\ focus = "overlap" /\ Next /\ FewVersions /\ OneSigning
          /\ UNCHANGED <<warehouseVars, partnerVars, productVars, readerVars>>
       \/ /\ focus = "warehouses" /\ W!Next
          /\ UNCHANGED <<vars, partnerVars, productVars, readerVars>>
       \/ /\ focus = "partners" /\ One!Next
          /\ UNCHANGED <<vars, warehouseVars, productVars, readerVars>>
       \/ /\ focus = "addresses" /\ Two!Next
          /\ UNCHANGED <<vars, warehouseVars, productVars, readerVars>>
       \/ /\ focus = "products" /\ P!QuietNext
          /\ UNCHANGED <<vars, warehouseVars, partnerVars, readerVars>>
       \/ /\ focus = "lists" /\ Q!Next
          /\ UNCHANGED <<tableVars, stockVars, formVars>>
       \/ /\ focus = "stock" /\ S!ReadsNext
          /\ UNCHANGED <<tableVars, listVars, formVars>>
       \/ /\ focus = "forms" /\ E!Next
          /\ UNCHANGED <<tableVars, listVars, stockVars>>

RecordsSpec == RecordsInit /\ [][RecordsNext]_recordVars

-----------------------------------------------------------------------------
(* The types of the module in focus; the others rest in an initial state.  *)
TypesOK ==
    CASE focus \in {"accounts", "overlap"} -> TypeOK
      [] focus = "warehouses" -> W!TypeOK
      [] focus = "partners" -> One!TypeOK
      [] focus = "addresses" -> Two!TypeOK
      [] focus = "products" -> P!TypeOK
      [] focus = "lists" -> Q!TypeOK
      [] focus = "stock" -> S!ReadsTypeOK
      [] focus = "forms" -> E!TypeOK

(* Requests that follow each other leave an administrator, and an inactive *)
(* user without a token that an activation could bring back to life.       *)
AloneAdministratorRemains == focus = "accounts" => AdministratorRemains
AloneInactiveHasNoToken == focus = "accounts" => InactiveHasNoToken

AccountsAreSound == AloneAdministratorRemains /\ AloneInactiveHasNoToken

(* Requests that follow each other keep active locations in active         *)
(* warehouses.                                                             *)
LocationsAreInActiveWarehouses == focus = "warehouses" => W!LocationsAreInActiveWarehouses

(* However updates interleave, a partner has at most one main address; one *)
(* after the other they keep documents and types together.                 *)
OneMainAddress == focus = "addresses" => Two!OneMainAddress
DocumentFitsType == focus = "partners" => One!DocumentFitsType

(* What relates the rows of several records survives every sequence of     *)
(* requests, and the types of the module in focus with it.                 *)
RecordsAreSound ==
    TypesOK /\ LocationsAreInActiveWarehouses /\ OneMainAddress /\ DocumentFitsType

(* A user whose grants change must log in again; a 409 for a document that *)
(* is taken is true; and references that rest while a product is written   *)
(* are active when the product is linked to them.                          *)
DuplicateIsReal == focus = "partners" /\ updating[clerk] # NoRequest => One!AnswerIsTrue(clerk)
WritesAreSound ==
    [][NewGrantsVoidTokens /\ DuplicateIsReal /\ P!LinksToActive]_recordVars

(* Pages of a list in order show every row once while nothing is written,  *)
(* and skip none because rows come.                                        *)
WalkIsComplete == focus = "lists" => Q!WalkIsComplete
NothingIsSkipped == focus = "lists" => Q!NothingIsSkipped
ListsAreComplete == WalkIsComplete /\ NothingIsSkipped

(* What is shown as available is so where no stock moved during the read,  *)
(* and a negative quantity means that stock entered meanwhile.             *)
AvailableIsCurrent == focus = "stock" => S!AvailableIsCurrent
NegativeNeedsEntry == focus = "stock" => S!NegativeNeedsEntry
ShownStockIsReal == AvailableIsCurrent /\ NegativeNeedsEntry

(* A form holds what was typed or what its page shows; its save takes back *)
(* no change the page had shown; and what is typed stays.                  *)
FormsKeep ==
    [][focus = "forms" => E!TypedOrShown' /\ E!SaveSparesOthers /\ E!TypedStays]_recordVars
=============================================================================
