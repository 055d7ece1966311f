----------------------------- MODULE Warehouses -----------------------------
(***************************************************************************)
(* WarehousesService and StockLocationsService: the life of warehouses and *)
(* of the stock locations inside them.                                     *)
(*                                                                         *)
(* Each handler makes its checks in statements of their own and then       *)
(* writes in a transaction that checks nothing again, so a request is two  *)
(* steps: Begin (getScoped and the checks, which pass: a refused call is   *)
(* no step) and Commit (the transaction).  createWarehouse and update      *)
(* check nothing of other rows; update changes names and codes, which are  *)
(* left out.                                                               *)
(***************************************************************************)
EXTENDS Naturals

CONSTANTS
    Warehouse,    \* ids
    Location,     \* ids
    HomeOf,       \* the warehouse of each location: StockLocation.warehouseId
    Clients,      \* requests that may overlap
    NoRequest     \* the client has no request open

HomeOfAssumption == HomeOf \in [Location -> Warehouse]

VARIABLES
    warehouse,    \* Warehouse.isActive; NONE before the row exists
    location,     \* StockLocation.isActive; NONE before the row exists
    request       \* what each client's handler has checked and will write

vars == <<warehouse, location, request>>

Status == {"NONE", "ACTIVE", "INACTIVE"}
Of(isActive) == IF isActive THEN "ACTIVE" ELSE "INACTIVE"

Requests ==
    [op : {"warehouseStatus"}, id : Warehouse, isActive : BOOLEAN]
        \cup [op : {"locationStatus", "createLocation"}, id : Location, isActive : BOOLEAN]

(* Types; a handler that goes on has found the rows it needs.              *)
TypeOK ==
    /\ warehouse \in [Warehouse -> Status]
    /\ location \in [Location -> Status]
    /\ request \in [Clients -> Requests \cup {NoRequest}]
    /\ \A l \in Location : location[l] # "NONE" => warehouse[HomeOf[l]] # "NONE"
    /\ \A c \in Clients : request[c] # NoRequest =>
         CASE request[c].op = "warehouseStatus" -> warehouse[request[c].id] # "NONE"
           [] request[c].op = "locationStatus" -> location[request[c].id] # "NONE"
           [] OTHER -> warehouse[HomeOf[request[c].id]] # "NONE"

Init ==
    /\ warehouse = [w \in Warehouse |-> "NONE"]
    /\ location = [l \in Location |-> "NONE"]
    /\ request = [c \in Clients |-> NoRequest]

-----------------------------------------------------------------------------
(* Checks, outside any transaction.                                        *)

Begin(c, q) ==
    /\ request[c] = NoRequest
    /\ request' = [request EXCEPT ![c] = q]
    /\ UNCHANGED <<warehouse, location>>

ActiveLocations(w) == {l \in Location : HomeOf[l] = w /\ location[l] = "ACTIVE"}

(* Fault: the active locations are not counted.                            *)
FaultMayDeactivate(w) == warehouse[w] = "ACTIVE"

MayDeactivate(w) == ActiveLocations(w) = {}

BeginWarehouseStatus(c, w, isActive) ==
    /\ warehouse[w] # "NONE"
    /\ ~isActive => MayDeactivate(w)
    /\ Begin(c, [op |-> "warehouseStatus", id |-> w, isActive |-> isActive])

BeginLocationStatus(c, l, isActive) ==
    /\ location[l] # "NONE"
    /\ isActive => warehouse[HomeOf[l]] = "ACTIVE"
    /\ Begin(c, [op |-> "locationStatus", id |-> l, isActive |-> isActive])

BeginCreateLocation(c, l) ==
    /\ warehouse[HomeOf[l]] = "ACTIVE"
    /\ Begin(c, [op |-> "createLocation", id |-> l, isActive |-> TRUE])

-----------------------------------------------------------------------------
(* Writes.                                                                 *)

createWarehouse(w) ==
    /\ warehouse[w] = "NONE"
    /\ warehouse' = [warehouse EXCEPT ![w] = "ACTIVE"]
    /\ UNCHANGED <<location, request>>

Done(c) == request' = [request EXCEPT ![c] = NoRequest]

CommitWarehouseStatus(c) ==
    /\ request[c] # NoRequest
    /\ request[c].op = "warehouseStatus"
    /\ warehouse' = [warehouse EXCEPT ![request[c].id] = Of(request[c].isActive)]
    /\ Done(c)
    /\ UNCHANGED location

CommitLocationStatus(c) ==
    /\ request[c] # NoRequest
    /\ request[c].op = "locationStatus"
    /\ location' = [location EXCEPT ![request[c].id] = Of(request[c].isActive)]
    /\ Done(c)
    /\ UNCHANGED warehouse

(* The code may have been taken since: P2002, answered with a 409.         *)
CommitCreateLocation(c) ==
    /\ request[c] # NoRequest
    /\ request[c].op = "createLocation"
    /\ location' = [location EXCEPT ![request[c].id] = IF @ = "NONE" THEN "ACTIVE" ELSE @]
    /\ Done(c)
    /\ UNCHANGED warehouse

(* The handler is lost before it writes.                                   *)
Crash(c) ==
    /\ request[c] # NoRequest
    /\ Done(c)
    /\ UNCHANGED <<warehouse, location>>

Next ==
    \/ \E w \in Warehouse : createWarehouse(w)
    \/ \E c \in Clients :
         \/ \E w \in Warehouse, isActive \in BOOLEAN : BeginWarehouseStatus(c, w, isActive)
         \/ \E l \in Location, isActive \in BOOLEAN : BeginLocationStatus(c, l, isActive)
         \/ \E l \in Location : BeginCreateLocation(c, l)
         \/ CommitWarehouseStatus(c) \/ CommitLocationStatus(c) \/ CommitCreateLocation(c)
         \/ Crash(c)

Spec == Init /\ [][Next]_vars

-----------------------------------------------------------------------------
(* docs/02-requisitos.md, lines 98 and 99: a warehouse is deactivated only *)
(* after its active locations, and a location is created or reactivated    *)
(* only in an active warehouse; so no active location is in an inactive    *)
(* warehouse.  Three handlers keep it together, and only while no two of   *)
(* them overlap.                                                           *)
LocationsAreInActiveWarehouses ==
    \A l \in Location : location[l] = "ACTIVE" => warehouse[HomeOf[l]] = "ACTIVE"
=============================================================================
