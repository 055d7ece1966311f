---------------------------- MODULE DocumentSteps ----------------------------
(***************************************************************************)
(* The documents a user works on in a page of their own (sales orders,     *)
(* purchase orders, inventory counts, financial titles): the steps the API *)
(* takes, and the buttons the page draws.  The two are written apart in    *)
(* the code, one in the services and controllers, the other in the pages.  *)
(*                                                                         *)
(* Two statuses of a count are told apart here by its items.               *)
(* READY_MATCHED is READY_FOR_APPROVAL without a divergence; RECOUNTED is  *)
(* RECOUNT_REQUIRED with no recount pending, where two last recounts leave *)
(* a count when neither sees the other.                                    *)
(***************************************************************************)

KindsOfDocument == {"sales", "purchase", "count", "finance"}

(* A step of the API: what it is called, the permission its controller asks *)
(* for, and the statuses the service accepts and leaves.                    *)
Step(op, permission, from, to) ==
    [op |-> op, permission |-> permission, from |-> from, to |-> to]

SalesSteps ==
    {Step("update", "sales_orders.update", {"DRAFT"}, {"DRAFT"}),
     Step("confirm", "sales_orders.confirm", {"DRAFT"}, {"CONFIRMED"}),
     Step("reserve", "inventory.reserve", {"CONFIRMED"}, {"RESERVED"}),
     Step("release", "inventory.release", {"RESERVED"}, {"CONFIRMED"}),
     Step("ship", "inventory.ship", {"RESERVED"}, {"SHIPPED"}),
     Step("cancel", "sales_orders.cancel", {"DRAFT", "CONFIRMED", "RESERVED"}, {"CANCELLED"})}

PurchaseSteps ==
    {Step("update", "purchase_orders.update", {"DRAFT"}, {"DRAFT"}),
     Step("submit", "purchase_orders.submit", {"DRAFT"}, {"PENDING_APPROVAL"}),
     Step("approve", "purchase_orders.approve", {"PENDING_APPROVAL"}, {"APPROVED"}),
     Step("receive", "purchase_receipts.create", {"APPROVED", "PARTIALLY_RECEIVED"},
          {"PARTIALLY_RECEIVED", "RECEIVED"}),
     Step("cancel", "purchase_orders.cancel", {"DRAFT", "PENDING_APPROVAL", "APPROVED"},
          {"CANCELLED"})}

(* A step has a row for each status its outcome depends on.  recountAgain   *)
(* is recountItem of an item recounted before, while others are pending.    *)
CountSteps ==
    {Step("start", "inventory_counts.create", {"DRAFT"}, {"IN_PROGRESS"}),
     Step("addItem", "inventory_counts.count", {"IN_PROGRESS"}, {"IN_PROGRESS"}),
     Step("countItem", "inventory_counts.count", {"IN_PROGRESS"}, {"IN_PROGRESS"}),
     Step("requestRecount", "inventory_counts.recount", {"IN_PROGRESS"},
          {"RECOUNT_REQUIRED", "READY_MATCHED"}),
     Step("requestRecount", "inventory_counts.recount", {"READY_FOR_APPROVAL"},
          {"RECOUNT_REQUIRED"}),
     Step("requestRecount", "inventory_counts.recount", {"READY_MATCHED"}, {"READY_MATCHED"}),
     Step("recountItem", "inventory_counts.recount", {"RECOUNT_REQUIRED"},
          {"RECOUNT_REQUIRED", "RECOUNTED", "READY_FOR_APPROVAL"}),
     Step("recountItem", "inventory_counts.recount", {"RECOUNTED"}, {"READY_FOR_APPROVAL"}),
     Step("recountAgain", "inventory_counts.recount", {"RECOUNT_REQUIRED"}, {"RECOUNT_REQUIRED"}),
     Step("approve", "inventory_counts.approve", {"READY_FOR_APPROVAL", "READY_MATCHED"},
          {"APPROVED"}),
     Step("cancel", "inventory_counts.cancel",
          {"DRAFT", "IN_PROGRESS", "RECOUNT_REQUIRED", "RECOUNTED", "READY_FOR_APPROVAL",
           "READY_MATCHED"},
          {"CANCELLED"})}

FinanceSteps ==
    {Step("update", "finance.update", {"OPEN"}, {"OPEN"}),
     Step("settle", "finance.settle", {"OPEN", "PARTIALLY_SETTLED"},
          {"PARTIALLY_SETTLED", "SETTLED"}),
     Step("cancel", "finance.cancel", {"OPEN"}, {"CANCELLED"})}

Steps(kind) ==
    CASE kind = "sales" -> SalesSteps
      [] kind = "purchase" -> PurchaseSteps
      [] kind = "count" -> CountSteps
      [] kind = "finance" -> FinanceSteps

Statuses(kind) == UNION {s.from \cup s.to : s \in Steps(kind)}
Permissions(kind) == {s.permission : s \in Steps(kind)}

-----------------------------------------------------------------------------
(* A button of a page: the step it sends, and when it is drawn.             *)
Button(op, shown, permission) == [op |-> op, shown |-> shown, permission |-> permission]

(* Fault: cancel is hidden for cancelled orders only.                       *)
FaultSalesButtons(status) ==
    {Button("update", status = "DRAFT", "sales_orders.update"),
     Button("confirm", status = "DRAFT", "sales_orders.confirm"),
     Button("reserve", status = "CONFIRMED", "inventory.reserve"),
     Button("release", status = "RESERVED", "inventory.release"),
     Button("ship", status = "RESERVED", "inventory.ship"),
     Button("cancel", status # "CANCELLED", "sales_orders.cancel")}

SalesButtons(status) ==
    {Button("update", status = "DRAFT", "sales_orders.update"),
     Button("confirm", status = "DRAFT", "sales_orders.confirm"),
     Button("reserve", status = "CONFIRMED", "inventory.reserve"),
     Button("release", status = "RESERVED", "inventory.release"),
     Button("ship", status = "RESERVED", "inventory.ship"),
     Button("cancel", status \notin {"CANCELLED", "SHIPPED"}, "sales_orders.cancel")}

PurchaseButtons(status) ==
    {Button("update", status = "DRAFT", "purchase_orders.update"),
     Button("submit", status = "DRAFT", "purchase_orders.submit"),
     Button("approve", status = "PENDING_APPROVAL", "purchase_orders.approve"),
     Button("receive", status \in {"APPROVED", "PARTIALLY_RECEIVED"}, "purchase_receipts.create"),
     Button("cancel", status \in {"DRAFT", "PENDING_APPROVAL", "APPROVED"},
            "purchase_orders.cancel")}

(* requestRecount is two buttons, to conclude the first count and to reopen *)
(* the recount of a divergent one; recountItem is drawn beside each item    *)
(* whose recount is pending.                                                *)
CountButtons(status) ==
    {Button("start", status = "DRAFT", "inventory_counts.create"),
     Button("addItem", status = "IN_PROGRESS", "inventory_counts.count"),
     Button("countItem", status = "IN_PROGRESS", "inventory_counts.count"),
     Button("requestRecount", status \in {"IN_PROGRESS", "READY_FOR_APPROVAL"},
            "inventory_counts.recount"),
     Button("recountItem", status = "RECOUNT_REQUIRED", "inventory_counts.recount"),
     Button("approve", status \in {"READY_FOR_APPROVAL", "READY_MATCHED"},
            "inventory_counts.approve"),
     Button("cancel", status \notin {"APPROVED", "CANCELLED"}, "inventory_counts.cancel")}

FinanceButtons(status) ==
    {Button("update", status = "OPEN", "finance.update"),
     Button("settle", status \in {"OPEN", "PARTIALLY_SETTLED"}, "finance.settle"),
     Button("cancel", status = "OPEN", "finance.cancel")}

Buttons(kind, status) ==
    CASE kind = "sales" -> SalesButtons(status)
      [] kind = "purchase" -> PurchaseButtons(status)
      [] kind = "count" -> CountButtons(status)
      [] kind = "finance" -> FinanceButtons(status)

(* What the API takes and no page offers: to reopen a count without a       *)
(* divergence, and to recount what was recounted.                           *)
Unoffered ==
    {[op |-> "requestRecount", status |-> "READY_MATCHED"],
     [op |-> "recountAgain", status |-> "RECOUNT_REQUIRED"],
     [op |-> "recountItem", status |-> "RECOUNTED"]}

(* The buttons that are not disabled while their own request is pending.    *)
StaysEnabled(kind, op) == kind = "purchase" /\ op \in {"submit", "approve"}
==============================================================================
