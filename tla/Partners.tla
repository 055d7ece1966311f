------------------------------ MODULE Partners ------------------------------
(***************************************************************************)
(* CustomersService and SuppliersService: type, document and main address. *)
(*                                                                         *)
(* update reads the row, validates the pair (type, document) it would get  *)
(* from that reading, and then writes only the fields of the request in a  *)
(* READ COMMITTED transaction.  A customer's transaction deletes the main  *)
(* address first and locks the customer afterwards; a supplier's locks the *)
(* supplier first.  So a request is Begin, for customers with an address   *)
(* DeleteAddress, and Commit.                                              *)
(*                                                                         *)
(* Names, contacts and credit limits, which no rule relates, and the       *)
(* status, which updateStatus sets unconditionally, are left out.          *)
(***************************************************************************)
EXTENDS Naturals, FiniteSets

CONSTANTS
    Customers,    \* ids
    Suppliers,    \* ids
    Documents,    \* document numbers with valid check digits
    TypeOf,       \* INDIVIDUAL for a CPF, COMPANY for a CNPJ
    Addresses,    \* main addresses a request may carry
    Clients,      \* requests that may overlap
    Absent,       \* a field the request does not carry, a row not there
    NoRequest     \* the client has no request open

Partner == Customers \cup Suppliers
Type == {"INDIVIDUAL", "COMPANY"}

PartnerAssumption == Customers \cap Suppliers = {}
TypeOfAssumption == TypeOf \in [Documents -> Type]
AbsentAssumption == Absent \notin Documents \cup Addresses \cup Type

VARIABLES
    type,         \* Customer.type, Supplier.type
    document,     \* Customer.document, Supplier.document; Absent: no row
    primary,      \* address rows with isPrimary
    request,      \* what each client's handler has read and asks for
    answer        \* last answer to each client

vars == <<type, document, primary, request, answer>>

Requests ==
    [partner : Partner, type : Type \cup {Absent}, document : Documents \cup {Absent},
     address : Addresses \cup {Absent}, write : Documents \cup {Absent},
     deleting : SUBSET Addresses, step : {"read", "deleted"}]

(* Types; the handler writes a document whenever it was given one.         *)
TypeOK ==
    /\ type \in [Partner -> Type \cup {Absent}]
    /\ document \in [Partner -> Documents \cup {Absent}]
    /\ primary \in [Partner -> SUBSET Addresses]
    /\ request \in [Clients -> Requests \cup {NoRequest}]
    /\ answer \in [Clients -> {"NONE", "OK", "DOCUMENT_EXISTS"}]
    /\ \A p \in Partner : (type[p] = Absent) = (document[p] = Absent)

Init ==
    /\ type = [p \in Partner |-> Absent]
    /\ document = [p \in Partner |-> Absent]
    /\ primary = [p \in Partner |-> {}]
    /\ request = [c \in Clients |-> NoRequest]
    /\ answer = [c \in Clients |-> "NONE"]

Or(value, current) == IF value = Absent THEN current ELSE value

(* Unique index (companyId, document), one per table.                      *)
Peers(p) == (IF p \in Customers THEN Customers ELSE Suppliers) \ {p}
Taken(p, d) == d # Absent /\ \E q \in Peers(p) : document[q] = d

Answer(c, a) ==
    /\ answer' = [answer EXCEPT ![c] = a]
    /\ request' = [request EXCEPT ![c] = NoRequest]

Refuse(c) == Answer(c, "DOCUMENT_EXISTS") /\ UNCHANGED <<type, document, primary>>

-----------------------------------------------------------------------------
(* create validates what it writes: one step.                              *)
create(c, p, d, address) ==
    /\ request[c] = NoRequest
    /\ document[p] = Absent
    /\ \/ Taken(p, d) /\ Refuse(c)
       \/ /\ ~Taken(p, d)
          /\ type' = [type EXCEPT ![p] = TypeOf[d]]
          /\ document' = [document EXCEPT ![p] = d]
          /\ primary' = [primary EXCEPT ![p] = {address} \ {Absent}]
          /\ Answer(c, "OK")

(* The pair the row would have, if nobody else writes it.                  *)
Valid(p, t, d) ==
    (t # Absent \/ d # Absent) => TypeOf[Or(d, document[p])] = Or(t, type[p])

(* getScoped and validateDocument; a type alone rewrites the document too. *)
BeginUpdate(c, p, t, d, address) ==
    /\ request[c] = NoRequest
    /\ document[p] # Absent
    /\ Valid(p, t, d)
    /\ request' = [request EXCEPT ![c] =
         [partner |-> p, type |-> t, document |-> d, address |-> address,
          write |-> IF t = Absent /\ d = Absent THEN Absent ELSE Or(d, document[p]),
          deleting |-> {}, step |-> "read"]]
    /\ answer' = [answer EXCEPT ![c] = "NONE"]
    /\ UNCHANGED <<type, document, primary>>

(* Customers: the first statement sees the addresses committed by now; a   *)
(* transaction that deleted one of them makes it wait, and it then finds   *)
(* that row gone and no other.                                             *)
DeleteAddress(c) ==
    /\ request[c] # NoRequest
    /\ request[c].partner \in Customers
    /\ request[c].address # Absent
    /\ request[c].step = "read"
    /\ request' = [request EXCEPT ![c].step = "deleted",
                                  ![c].deleting = primary[request[c].partner]]
    /\ UNCHANGED <<type, document, primary, answer>>

(* Main addresses that stay beside the one the request brings: none for a  *)
(* supplier, whose row is locked before its addresses are deleted.         *)
Kept(q) ==
    IF q.partner \in Customers THEN primary[q.partner] \ q.deleting ELSE {}

Write(q) ==
    /\ type' = [type EXCEPT ![q.partner] = Or(q.type, @)]
    /\ document' = [document EXCEPT ![q.partner] = Or(q.write, @)]
    /\ primary' = IF q.address = Absent THEN primary
                  ELSE [primary EXCEPT ![q.partner] =
                          (IF q.partner \in Customers THEN @ \ q.deleting ELSE {})
                             \cup {q.address}]

(* rethrowDuplicate takes any unique violation for the document's.         *)
CommitUpdate(c) ==
    /\ request[c] # NoRequest
    /\ request[c].partner \in Suppliers \/ request[c].address = Absent
         \/ request[c].step = "deleted"
    /\ LET q == request[c]
           conflict == \/ Taken(q.partner, q.write)
                       \/ q.address # Absent /\ Kept(q) # {}
       IN  \/ conflict /\ Refuse(c)
           \/ ~conflict /\ Write(q) /\ Answer(c, "OK")

(* The handler is lost, its transaction rolled back.                       *)
Crash(c) ==
    /\ request[c] # NoRequest
    /\ request' = [request EXCEPT ![c] = NoRequest]
    /\ UNCHANGED <<type, document, primary, answer>>

Next ==
    \E c \in Clients :
        \/ \E p \in Partner, d \in Documents, a \in Addresses \cup {Absent} : create(c, p, d, a)
        \/ \E p \in Partner, t \in Type \cup {Absent}, d \in Documents \cup {Absent},
              a \in Addresses \cup {Absent} : BeginUpdate(c, p, t, d, a)
        \/ DeleteAddress(c) \/ CommitUpdate(c) \/ Crash(c)

Spec == Init /\ [][Next]_vars

-----------------------------------------------------------------------------
(* Properties.                                                             *)

(* However updates interleave, a partner has at most one main address: the *)
(* interface shows and edits the first it finds.                           *)
OneMainAddress == \A p \in Partner : Cardinality(primary[p]) <= 1

(* docs/05-api.md: the document is validated, that is, an individual has a *)
(* CPF and a company a CNPJ, though updates may carry one of the two.      *)
DocumentFitsType == \A p \in Partner : document[p] # Absent => TypeOf[document[p]] = type[p]

(* docs/05-api.md: DOCUMENT_EXISTS answers a document that another partner *)
(* of the company has.                                                     *)
AnswerIsTrue(c) ==
    answer'[c] = "DOCUMENT_EXISTS" => Taken(request[c].partner, request[c].write)

DuplicateIsReal ==
    [][\A c \in Clients : request[c] # NoRequest => AnswerIsTrue(c)]_<<request, answer>>
=============================================================================
