----------------------------- MODULE DetailPages -----------------------------
(***************************************************************************)
(* One document open in the detail pages of several browser tabs.  A page  *)
(* draws its buttons from the row in its query cache and the permissions   *)
(* of its user; the row is refetched when the page is entered again and    *)
(* after a success of the tab's own, never because of another tab.         *)
(*                                                                         *)
(* The step itself is atomic here: its inside is the subject of SalesFlow, *)
(* Purchasing, InventoryCounts and Finance.  What makes it fail there, from *)
(* missing stock to a conflict of transactions, declines the request here. *)
(***************************************************************************)
EXTENDS DocumentSteps, Naturals, FiniteSets

CONSTANTS
    Kinds,       \* kinds of document
    Tabs,        \* open detail pages
    Grants,      \* permission sets a user may hold
    MaxCalls,    \* requests a tab may have under way (bound)
    MaxChanges   \* steps taken on the document (bound)

DetailPagesAssumption ==
    /\ Kinds # {} /\ Kinds \subseteq KindsOfDocument
    /\ Grants # {} /\ Grants \subseteq SUBSET UNION {Permissions(k) : k \in KindsOfDocument}
    /\ MaxCalls \in Nat \ {0} /\ MaxChanges \in Nat

VARIABLES
    kind,     \* the document's kind
    row,      \* its row in the database: status, and how often it was changed
    granted,  \* the permissions in the token of the tab's user
    view,     \* the row the page shows, or Loading or Failed
    fetch,    \* the fetch of the detail query that is under way
    dialog,   \* the open dialog that outlives its button, and the change it was opened on
    calls,    \* the tab's requests under way
    told      \* the change the last success message spoke of, 0 if none

vars == <<kind, row, granted, view, fetch, dialog, calls, told>>

Rows == [status : UNION {Statuses(k) : k \in Kinds}, version : 0..MaxChanges]
Ops == {s.op : s \in UNION {Steps(k) : k \in KindsOfDocument}}
Sign(word) == [status |-> word, version |-> 0]   \* in the place of a row
Loading == Sign("LOADING")
Failed == Sign("ERROR")
NoFetch == Sign("NONE")
Asked == Sign("ASKED")   \* the request is on its way; afterwards its answer is
NoCall == [op |-> "none", seen |-> 0, stage |-> "free", made |-> 0]
Calls == [op : Ops, seen : 0..MaxChanges, made : 0..MaxChanges,
          stage : {"sent", "abandoned", "ok", "refused", "declined", "refetching"}] \cup {NoCall}
NoDialog == [op |-> "none", seen |-> 0]

(* Types: and a page that shows the skeleton is waiting for a fetch.        *)
TypeOK ==
    /\ kind \in Kinds
    /\ row \in Rows
    /\ row.status \in Statuses(kind)
    /\ granted \in [Tabs -> Grants]
    /\ view \in [Tabs -> Rows \cup {Loading, Failed}]
    /\ fetch \in [Tabs -> Rows \cup {NoFetch, Asked}]
    /\ \A t \in Tabs : view[t] = Loading => fetch[t] # NoFetch
    /\ dialog \in [Tabs -> [op : Ops, seen : 0..MaxChanges] \cup {NoDialog}]
    /\ calls \in [Tabs -> [1..MaxCalls -> Calls]]
    /\ told \in [Tabs -> 0..MaxChanges]

Init ==
    /\ kind \in Kinds
    /\ row \in [status : Statuses(kind), version : {0}]
    /\ granted \in [Tabs -> Grants]
    /\ view = [t \in Tabs |-> Loading]
    /\ fetch = [t \in Tabs |-> Asked]
    /\ dialog = [t \in Tabs |-> NoDialog]
    /\ calls = [t \in Tabs |-> [i \in 1..MaxCalls |-> NoCall]]
    /\ told = [t \in Tabs |-> 0]

Shows(t) == view[t] \notin {Loading, Failed}
Answered(t) == fetch[t] \notin {NoFetch, Asked}

-----------------------------------------------------------------------------
(* The page: query cache and buttons.                                       *)

(* Drawn(v, g): the steps the page draws a button for, when it shows v to a *)
(* user who holds g.                                                        *)
Drawn(v, g) ==
    {b.op : b \in {c \in Buttons(kind, v.status) : c.shown /\ c.permission \in g}}

PendingOps(t) ==
    {calls[t][i].op : i \in {j \in 1..MaxCalls : calls[t][j].stage \notin {"free", "abandoned"}}}

Enabled(t, op) == op \notin PendingOps(t) \/ StaysEnabled(kind, op)

(* The dialogs whose open flag is state of the page and not of the button;  *)
(* they are modal.                                                          *)
OutlivesButton(op) ==
    \/ kind = "sales" /\ op # "update"
    \/ kind = "purchase" /\ op = "cancel"

Serve(t) ==
    /\ fetch[t] = Asked
    /\ fetch' = [fetch EXCEPT ![t] = row]
    /\ UNCHANGED <<kind, row, granted, view, dialog, calls, told>>

Arrive(t) ==
    /\ Answered(t)
    /\ view' = [view EXCEPT ![t] = fetch[t]]
    /\ fetch' = [fetch EXCEPT ![t] = NoFetch]
    /\ UNCHANGED <<kind, row, granted, dialog, calls, told>>

(* An error takes the place of the whole page; an open dialog stays in its  *)
(* state and comes back with the row.                                       *)
FetchFails(t) ==
    /\ fetch[t] # NoFetch
    /\ view' = [view EXCEPT ![t] = Failed]
    /\ fetch' = [fetch EXCEPT ![t] = NoFetch]
    /\ UNCHANGED <<kind, row, granted, dialog, calls, told>>

Retry(t) ==
    /\ view[t] = Failed /\ fetch[t] = NoFetch
    /\ fetch' = [fetch EXCEPT ![t] = Asked]
    /\ UNCHANGED <<kind, row, granted, view, dialog, calls, told>>

(* The page is left and entered again: the cached row is shown at once and  *)
(* fetched anew, unless a fetch is under way already.                       *)
Revisit(t) ==
    /\ Shows(t)
    /\ fetch' = [fetch EXCEPT ![t] = IF @ = NoFetch THEN Asked ELSE @]
    /\ dialog' = [dialog EXCEPT ![t] = NoDialog]
    /\ UNCHANGED <<kind, row, granted, view, calls, told>>

OpenDialog(t, op) ==
    /\ Shows(t)
    /\ OutlivesButton(op)
    /\ op \in Drawn(view[t], granted[t])
    /\ dialog[t] = NoDialog
    /\ dialog' = [dialog EXCEPT ![t] = [op |-> op, seen |-> view[t].version]]
    /\ UNCHANGED <<kind, row, granted, view, fetch, calls, told>>

CloseDialog(t) ==
    /\ Shows(t)
    /\ dialog[t] # NoDialog
    /\ dialog' = [dialog EXCEPT ![t] = NoDialog]
    /\ UNCHANGED <<kind, row, granted, view, fetch, calls, told>>

Outstanding == Cardinality({ti \in Tabs \X (1..MaxCalls) : calls[ti[1]][ti[2]].stage \in {"sent", "abandoned"}})

Send(t, i, op) ==
    /\ Shows(t)
    /\ calls[t][i] = NoCall
    /\ Enabled(t, op)
    /\ row.version + Outstanding < MaxChanges
    /\ IF OutlivesButton(op)
         THEN dialog[t].op = op
         ELSE dialog[t] = NoDialog /\ op \in Drawn(view[t], granted[t])
    /\ calls' = [calls EXCEPT ![t][i] =
         [op |-> op, stage |-> "sent", made |-> 0,
          seen |-> IF OutlivesButton(op) THEN dialog[t].seen ELSE view[t].version]]
    /\ UNCHANGED <<kind, row, granted, view, fetch, dialog, told>>

(* Fault: the refetch joins the fetch under way.                            *)
FaultSucceedJoin(t, i) ==
    /\ calls[t][i].stage = "ok"
    /\ fetch' = [fetch EXCEPT ![t] = IF @ = NoFetch THEN Asked ELSE @]
    /\ calls' = [calls EXCEPT ![t][i] =
         IF kind = "count" THEN [@ EXCEPT !.stage = "refetching"] ELSE NoCall]
    /\ told' = [told EXCEPT ![t] = IF kind = "count" THEN @ ELSE calls[t][i].made]
    /\ dialog' = [dialog EXCEPT ![t] = IF @.op = calls[t][i].op THEN NoDialog ELSE @]
    /\ UNCHANGED <<kind, row, granted, view>>

(* Fault: nothing is invalidated.                                           *)
FaultSucceedQuiet(t, i) ==
    /\ calls[t][i].stage = "ok"
    /\ calls' = [calls EXCEPT ![t][i] = NoCall]
    /\ told' = [told EXCEPT ![t] = calls[t][i].made]
    /\ dialog' = [dialog EXCEPT ![t] = IF @.op = calls[t][i].op THEN NoDialog ELSE @]
    /\ UNCHANGED <<kind, row, granted, view, fetch>>

(* onSuccess.  The caches are invalidated: the fetch under way is dropped   *)
(* and one that starts now takes its place.  The command hooks of counts    *)
(* return the promise of the refetch, so their request stays pending.       *)
Succeed(t, i) ==
    /\ calls[t][i].stage = "ok"
    /\ fetch' = [fetch EXCEPT ![t] = Asked]
    /\ IF kind = "count"
         THEN /\ calls' = [calls EXCEPT ![t][i].stage = "refetching"]
              /\ UNCHANGED told
         ELSE /\ calls' = [calls EXCEPT ![t][i] = NoCall]
              /\ told' = [told EXCEPT ![t] = calls[t][i].made]
    /\ dialog' = [dialog EXCEPT ![t] = IF @.op = calls[t][i].op THEN NoDialog ELSE @]
    /\ UNCHANGED <<kind, row, granted, view>>

Refetched(t, i) ==
    /\ calls[t][i].stage = "refetching"
    /\ fetch[t] = NoFetch
    /\ calls' = [calls EXCEPT ![t][i] = NoCall]
    /\ told' = [told EXCEPT ![t] = calls[t][i].made]
    /\ UNCHANGED <<kind, row, granted, view, fetch, dialog>>

(* An error leaves the cache and an open dialog as they are.                *)
Complain(t, i) ==
    /\ calls[t][i].stage \in {"refused", "declined"}
    /\ calls' = [calls EXCEPT ![t][i] = NoCall]
    /\ UNCHANGED <<kind, row, granted, view, fetch, dialog, told>>

-----------------------------------------------------------------------------
(* The API and the network.                                                 *)

(* Guard of the controller, then the status check of the service.           *)
Accepted(s, g) == row.status \in s.from /\ s.permission \in g

StepsFor(op, g) == {s \in Steps(kind) : s.op = op /\ Accepted(s, g)}

Take(op, g) ==
    \E s \in StepsFor(op, g), status \in Statuses(kind) :
        status \in s.to /\ row' = [status |-> status, version |-> row.version + 1]

(* The step is refused for the status or the permission; else it is taken,  *)
(* or declined for another reason: stock, items not yet counted, a          *)
(* quantity, a warehouse being counted, an inactive customer or product, a  *)
(* conflict, an error.                                                      *)
Process(t, i) ==
    LET c == calls[t][i]
        unfit == StepsFor(c.op, granted[t]) = {}
    IN  /\ c.stage = "sent"
        /\ \/ /\ Take(c.op, granted[t])
              /\ calls' = [calls EXCEPT ![t][i] =
                             [c EXCEPT !.stage = "ok", !.made = row.version + 1]]
           \/ /\ calls' = [calls EXCEPT ![t][i] =
                             [c EXCEPT !.stage = IF unfit THEN "refused" ELSE "declined"]]
              /\ UNCHANGED row
        /\ UNCHANGED <<kind, granted, view, fetch, dialog, told>>

(* The connection breaks: the tab reports an error; the request may still   *)
(* be taken, or never arrive.                                               *)
Break(t, i) ==
    /\ calls[t][i].stage \in {"sent", "ok", "refused", "declined"}
    /\ calls' = [calls EXCEPT ![t][i] =
         IF @.stage = "sent" THEN [@ EXCEPT !.stage = "abandoned"] ELSE NoCall]
    /\ UNCHANGED <<kind, row, granted, view, fetch, dialog, told>>

ProcessAbandoned(t, i) ==
    /\ calls[t][i].stage = "abandoned"
    /\ Take(calls[t][i].op, granted[t]) \/ UNCHANGED row
    /\ calls' = [calls EXCEPT ![t][i] = NoCall]
    /\ UNCHANGED <<kind, granted, view, fetch, dialog, told>>

Next ==
    \E t \in Tabs :
        \/ Serve(t) \/ Arrive(t) \/ FetchFails(t) \/ Retry(t) \/ Revisit(t)
        \/ CloseDialog(t)
        \/ \E op \in Ops : OpenDialog(t, op)
        \/ \E i \in 1..MaxCalls :
             \/ \E op \in Ops : Send(t, i, op)
             \/ Succeed(t, i) \/ Refetched(t, i) \/ Complain(t, i)
             \/ Process(t, i) \/ Break(t, i) \/ ProcessAbandoned(t, i)

Spec == Init /\ [][Next]_vars

(* A fetch is answered or fails; the browser runs its callbacks.            *)
Fairness(tabs) ==
    \A t \in tabs :
        /\ WF_vars(Serve(t) \/ Arrive(t))
        /\ WF_vars(\E i \in 1..MaxCalls : Refetched(t, i))

FairSpec == Spec /\ Fairness(Tabs)

-----------------------------------------------------------------------------
(* What a user may rely on.                                                 *)

(* Refusals are news: a step the API refuses for the status of the row or a *)
(* permission was offered on a row that has changed since, never on the     *)
(* current one; the pages' conditions and permissions are those of the      *)
(* services and controllers.  (A step declined for its data or a failure    *)
(* says nothing of the row: pages offer it whatever the stock is.)          *)
RefusedIsStale ==
    [][\A t \in Tabs, i \in 1..MaxCalls :
         calls[t][i].stage = "sent" /\ calls'[t][i].stage = "refused"
           => calls[t][i].seen < row.version]_vars

(* What is allowed can be done: a page that shows the current row draws a   *)
(* button for every step the API would take from this user, but for the     *)
(* three steps of counts that no page offers.                               *)
AllowedIsDrawn ==
    \A t \in Tabs :
        Shows(t) /\ view[t] = row =>
            \A s \in Steps(kind) :
                \/ ~Accepted(s, granted[t])
                \/ s.op \in Drawn(view[t], granted[t])
                \/ [op |-> s.op, status |-> row.status] \in Unoffered

(* A count's page says done when it shows it: when the success message of a *)
(* count appears the page shows the change it speaks of, or an error.       *)
CountToldIsShown ==
    kind = "count" =>
        \A t \in Tabs : Shows(t) => view[t].version >= told[t]

(* The page shows the change its last success message speaks of, or says    *)
(* that the fetch failed.                                                   *)
ShowsOwnWork(t) == view[t] = Failed \/ (Shows(t) /\ view[t].version >= told[t])

(* Every page comes to show what it said was done.                          *)
OwnWorkIsShown(t) == []<>ShowsOwnWork(t)
=============================================================================
