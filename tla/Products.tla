------------------------------ MODULE Products ------------------------------
(***************************************************************************)
(* ProductsService and the records a product refers to: categories, units  *)
(* of measure and, optionally, a primary supplier.                         *)
(*                                                                         *)
(* create and update read each reference in a statement of its own, one    *)
(* after the other, and write in a transaction that reads none of them:    *)
(* Begin is getScoped, each Check one of ensureCategory, ensureUnit and    *)
(* ensureSupplier, and Commit the transaction.  The status of a reference  *)
(* changes in one step and asks nothing of the products.                   *)
(*                                                                         *)
(* Names, prices, SKU and barcode, and the product's own status, which no  *)
(* rule of these services relates to the references, are left out.         *)
(***************************************************************************)
EXTENDS Naturals

CONSTANTS
    Product,      \* ids
    Categories, Units, Suppliers,  \* ids
    Clients,      \* requests that may overlap
    Null,         \* no supplier, no row
    Absent,       \* a field the request does not carry
    NoRequest     \* the client has no request open

Field == {"category", "unit", "supplier"}
Reference == Categories \cup Units \cup Suppliers
Links == [category : Categories, unit : Units, supplier : Suppliers \cup {Null}]
Fields == [category : Categories \cup {Absent}, unit : Units \cup {Absent},
           supplier : Suppliers \cup {Null, Absent}]

ChoicesAssumption ==
    /\ Categories \cap Units = {} /\ Categories \cap Suppliers = {} /\ Units \cap Suppliers = {}
    /\ Null \notin Reference /\ Absent \notin Reference \cup {Null}

VARIABLES
    isActive,     \* status of each category, unit and supplier
    product,      \* the references of each product; Null before it exists
    request       \* the product, the fields asked for, the references still to check

vars == <<isActive, product, request>>

Requests ==
    [product : Product, current : Links \cup {Null}, fields : Fields, unchecked : SUBSET Field]

(* Types; create carries every required field.                             *)
TypeOK ==
    /\ isActive \in [Reference -> BOOLEAN]
    /\ product \in [Product -> Links \cup {Null}]
    /\ request \in [Clients -> Requests \cup {NoRequest}]
    /\ \A c \in Clients : (request[c] # NoRequest /\ request[c].current = Null) =>
          request[c].fields \in Links

Init ==
    /\ isActive = [r \in Reference |-> TRUE]
    /\ product = [p \in Product |-> Null]
    /\ request = [c \in Clients |-> NoRequest]

-----------------------------------------------------------------------------
(* updateStatus of categories, units and suppliers.                        *)
updateStatus(r) ==
    /\ isActive' = [isActive EXCEPT ![r] = ~@]
    /\ UNCHANGED <<product, request>>

(* create checks all it is given, update what differs from the row it read.*)
ToCheck(current, fields) ==
    {f \in Field : /\ fields[f] \notin {Null, Absent}
                   /\ current = Null \/ fields[f] # current[f]}

Open(c, p, fields) ==
    request' = [request EXCEPT ![c] =
      [product |-> p, current |-> product[p], fields |-> fields,
       unchecked |-> ToCheck(product[p], fields)]]

BeginCreate(c, p, fields) ==
    /\ request[c] = NoRequest
    /\ product[p] = Null
    /\ fields \in Links
    /\ Open(c, p, fields)
    /\ UNCHANGED <<isActive, product>>

BeginUpdate(c, p, fields) ==
    /\ request[c] = NoRequest
    /\ product[p] # Null
    /\ Open(c, p, fields)
    /\ UNCHANGED <<isActive, product>>

Order == [category |-> 1, unit |-> 2, supplier |-> 3]

(* The next reference is read; an inactive one ends the request (422).     *)
Check(c, f) ==
    LET q == request[c] IN
    /\ q # NoRequest
    /\ f \in q.unchecked
    /\ \A g \in q.unchecked : Order[f] <= Order[g]
    /\ request' = [request EXCEPT ![c] =
         IF isActive[q.fields[f]] THEN [q EXCEPT !.unchecked = @ \ {f}] ELSE NoRequest]
    /\ UNCHANGED <<isActive, product>>

(* Only the fields carried are written.  A product created meanwhile has   *)
(* the SKU: the second create answers 409.                                 *)
Commit(c) ==
    /\ request[c] # NoRequest
    /\ request[c].unchecked = {}
    /\ LET q == request[c]
       IN  product' = [product EXCEPT ![q.product] =
             CASE q.current # Null ->
                    [f \in Field |-> IF q.fields[f] = Absent THEN @[f] ELSE q.fields[f]]
               [] q.current = Null /\ @ = Null -> q.fields
               [] OTHER -> @]
    /\ request' = [request EXCEPT ![c] = NoRequest]
    /\ UNCHANGED isActive

(* The handler is lost before it writes.                                   *)
Crash(c) ==
    /\ request[c] # NoRequest
    /\ request' = [request EXCEPT ![c] = NoRequest]
    /\ UNCHANGED <<isActive, product>>

Next ==
    \/ \E r \in Reference : updateStatus(r)
    \/ \E c \in Clients :
         \/ \E p \in Product, fields \in Fields : BeginCreate(c, p, fields) \/ BeginUpdate(c, p, fields)
         \/ \E f \in Field : Check(c, f)
         \/ Commit(c) \/ Crash(c)

Spec == Init /\ [][Next]_vars

(* Status changes wait until no product is being written.                  *)
Quiet == \A c \in Clients : request[c] = NoRequest
QuietNext == Next /\ (isActive' # isActive => Quiet)

-----------------------------------------------------------------------------
(* docs/02-requisitos.md, line 95: categories, units and suppliers must be *)
(* active for a new association; an existing one may stay.                 *)
LinksToActive ==
    \A p \in Product, f \in Field :
        (product'[p] # Null /\ product'[p][f] # Null
           /\ (product[p] = Null \/ product[p][f] # product'[p][f]))
        => isActive[product'[p][f]]
NewLinksAreActive == [][LinksToActive]_vars
=============================================================================
