------------------------------ MODULE Editing ------------------------------
(***************************************************************************)
(* One form of the web application that edits a record: what it holds, the *)
(* row its page has cached, the fetches that renew that row, and the save  *)
(* with the refetch it waits for, while other users change the record.     *)
(* The forms are written apart and differ in what a new row does to what   *)
(* is typed, in what closing forgets and in how they are filled.           *)
(*                                                                         *)
(* A record has a text, a choice from a list and a mark: a column that the *)
(* form does not edit.  For a document the mark says that it is a draft no *)
(* more.  Of the sets of a role or user, the two fields are two members.   *)
(***************************************************************************)
EXTENDS Naturals

CONSTANTS
    Values,      \* values of a field
    MaxMoves,    \* what the user does (bound)
    MaxChanges,  \* changes by other users (bound)
    MaxFetches   \* fetches beyond the first (bound)

EditingAssumption == MaxMoves \in Nat /\ MaxChanges \in Nat /\ MaxFetches \in Nat

Fields == {"text", "choice"}

(* A form: a dialog or a page; what a changed row does to it (everything is *)
(* filled anew, or only if a field of the form changed, or the untouched    *)
(* fields are, or nothing is); whether opening fills it; whether closing    *)
(* does; whether it outlives an error of its page; whether it edits drafts. *)
Form(dialog, follows, fills, forgets, stays, drafts) ==
    [dialog |-> dialog, follows |-> follows, fills |-> fills, forgets |-> forgets,
     stays |-> stays, drafts |-> drafts]

CustomerForm == Form(TRUE, "all", FALSE, TRUE, FALSE, FALSE)
SupplierForm == Form(TRUE, "all", FALSE, TRUE, FALSE, FALSE)
WarehouseForm == Form(TRUE, "all", FALSE, TRUE, FALSE, FALSE)
StockLocationForm == Form(TRUE, "all", FALSE, TRUE, FALSE, FALSE)
RoleForm == Form(TRUE, "all", FALSE, TRUE, FALSE, FALSE)
EditUserForm == Form(TRUE, "edited", FALSE, FALSE, FALSE, FALSE)
UserRolesForm == Form(TRUE, "none", TRUE, FALSE, FALSE, FALSE)
RolePermissionsForm == Form(TRUE, "none", TRUE, FALSE, FALSE, FALSE)

ProductForm == Form(FALSE, "untouched", FALSE, FALSE, TRUE, FALSE)

PurchaseOrderForm == Form(FALSE, "all", FALSE, FALSE, TRUE, TRUE)
SalesOrderForm == Form(FALSE, "none", FALSE, FALSE, FALSE, TRUE)
FinancialEntryForm == Form(FALSE, "none", FALSE, FALSE, FALSE, TRUE)

EditForms ==
    {CustomerForm, SupplierForm, WarehouseForm, StockLocationForm, RoleForm, EditUserForm,
     UserRolesForm, RolePermissionsForm, ProductForm, PurchaseOrderForm, SalesOrderForm,
     FinancialEntryForm}

VARIABLES
    form,      \* the form looked at
    row,       \* the record in the database
    shown,     \* the row the page has, or NoRow
    failed,    \* whether the last fetch failed
    fetch,     \* Idle, Sent, or the row on its way back
    open,      \* whether the dialog is open, or the page is still there
    held,      \* what the form holds
    save,      \* the save under way
    reverted,  \* whether a save that ended put back an older row
    moves, changes, refetches

vars == <<form, row, shown, failed, fetch, open, held, save, reverted,
          moves, changes, refetches>>

Records == [text : Values, choice : Values, mark : BOOLEAN]
NoRow == [text |-> "none"]
Idle == [at |-> "idle"]
Sent == [at |-> "sent"]
Back(r) == [at |-> "back", row |-> r]
NoSave == [at |-> "none"]
Content(r) == [f \in Fields |-> r[f]]

(* A form holds the values of its fields; typed are those the user made     *)
(* differ from the row that filled it, its base.                            *)
Contents == [fields : [Fields -> Values], typed : SUBSET Fields, base : Records]
Empty == [fields |-> <<>>, typed |-> {}, base |-> NoRow]
Filled(r) == [fields |-> Content(r), typed |-> {}, base |-> r]

(* A save, with the row its page had; alive while its form is on the page.  *)
Saves ==
    [at : {"sent", "saved", "refused", "waits"}, held : Contents, shown : Records,
     alive : BOOLEAN]

(* Types: a form that is drawn has been filled.                             *)
TypeOK ==
    /\ form \in EditForms
    /\ row \in Records /\ shown \in Records \cup {NoRow}
    /\ failed \in BOOLEAN /\ open \in BOOLEAN /\ reverted \in BOOLEAN
    /\ fetch \in {Idle, Sent} \cup {Back(r) : r \in Records}
    /\ held = Empty \/ held \in Contents
    /\ shown # NoRow => held # Empty
    /\ save = NoSave \/ save \in Saves
    /\ moves \in 0..MaxMoves /\ changes \in 0..MaxChanges /\ refetches \in 0..MaxFetches

(* A page of a record is opened, or a list with its dialogs, one of them    *)
(* open perhaps; either may have rows from an earlier visit and fetches     *)
(* them again.                                                              *)
Init ==
    /\ form \in EditForms
    /\ row \in Records /\ (form.drafts => ~row.mark)
    /\ shown \in {row, NoRow}
    /\ failed = FALSE /\ fetch = Sent
    /\ open \in (IF ~form.dialog THEN {TRUE} ELSE IF shown = NoRow THEN {FALSE} ELSE BOOLEAN)
    /\ held = IF shown = NoRow THEN Empty ELSE Filled(shown)
    /\ save = NoSave /\ reverted = FALSE
    /\ moves = 0 /\ changes = 0 /\ refetches = 0

-----------------------------------------------------------------------------
(* The user.                                                                *)

Drawn == shown # NoRow /\ ~failed /\ (form.drafts => ~shown.mark)

Move == moves < MaxMoves /\ moves' = moves + 1

Open ==
    /\ form.dialog /\ ~open /\ Drawn
    /\ Move
    /\ open' = TRUE
    /\ held' = IF form.fills THEN Filled(shown) ELSE held
    /\ UNCHANGED <<form, row, shown, failed, fetch, save, reverted, changes, refetches>>

Type(f, v) ==
    /\ open /\ Drawn
    /\ held.fields[f] # v
    /\ Move
    /\ held' = [held EXCEPT !.fields[f] = v,
                            !.typed = IF v = held.base[f] THEN @ \ {f} ELSE @ \cup {f}]
    /\ UNCHANGED <<form, row, shown, failed, fetch, open, save, reverted, changes, refetches>>

Close ==
    /\ form.dialog /\ open
    /\ Move
    /\ open' = FALSE
    /\ held' = IF form.forgets THEN Filled(shown) ELSE held
    /\ UNCHANGED <<form, row, shown, failed, fetch, save, reverted, changes, refetches>>

(* Every field is sent, typed or not.  A form drawn anew while the save of  *)
(* its predecessor is under way does not save here.                         *)
Submit ==
    /\ open /\ Drawn
    /\ save = NoSave
    /\ Move
    /\ save' = [at |-> "sent", held |-> held, shown |-> shown, alive |-> TRUE]
    /\ UNCHANGED <<form, row, shown, failed, fetch, open, held, reverted, changes, refetches>>

(* An error is retried; other writes of the page, or a connection that      *)
(* comes back, fetch again.                                                 *)
Refetch ==
    /\ fetch = Idle
    /\ refetches < MaxFetches
    /\ refetches' = refetches + 1
    /\ fetch' = Sent
    /\ UNCHANGED <<form, row, shown, failed, open, held, save, reverted, moves, changes>>

-----------------------------------------------------------------------------
(* The API, and the other users.                                            *)

(* All fields are written; a document must still be a draft.                *)
Process ==
    /\ save.at = "sent"
    /\ IF form.drafts /\ row.mark
         THEN row' = row /\ save' = [save EXCEPT !.at = "refused"]
         ELSE /\ row' = [row EXCEPT !.text = save.held.fields["text"],
                                    !.choice = save.held.fields["choice"]]
              /\ save' = [save EXCEPT !.at = "saved"]
    /\ UNCHANGED <<form, shown, failed, fetch, open, held, reverted, moves, changes, refetches>>

(* The request, or its answer, is lost.                                     *)
Break ==
    /\ save.at \in {"sent", "saved"}
    /\ save' = [save EXCEPT !.at = "refused"]
    /\ UNCHANGED <<form, row, shown, failed, fetch, open, held, reverted, moves, changes, refetches>>

OtherSaves(f, v) ==
    /\ changes < MaxChanges
    /\ ~(form.drafts /\ row.mark)
    /\ row[f] # v
    /\ row' = [row EXCEPT ![f] = v]
    /\ changes' = changes + 1
    /\ UNCHANGED <<form, shown, failed, fetch, open, held, save, reverted, moves, refetches>>

(* Another user's change of a column outside the form; a draft that moved   *)
(* on never comes back.                                                     *)
OtherMarks ==
    /\ changes < MaxChanges
    /\ ~(form.drafts /\ row.mark)
    /\ row' = [row EXCEPT !.mark = ~@]
    /\ changes' = changes + 1
    /\ UNCHANGED <<form, shown, failed, fetch, open, held, save, reverted, moves, refetches>>

Serve ==
    /\ fetch = Sent
    /\ fetch' = Back(row)
    /\ UNCHANGED <<form, row, shown, failed, open, held, save, reverted, moves, changes, refetches>>

-----------------------------------------------------------------------------
(* What answers do to the form.                                             *)

(* Fault: the effect of the user dialog does not depend on every field.     *)
FaultFollow(h, new) ==
    CASE form.follows = "all" -> IF new # shown THEN Filled(new) ELSE h
      [] form.follows = "edited" -> IF new.text # shown.text THEN Filled(new) ELSE h
      [] form.follows = "untouched" ->
           IF new = shown THEN h
             ELSE [fields |-> [Content(new) EXCEPT !["text"] =
                                  IF "text" \in h.typed THEN h.fields["text"] ELSE @],
                   typed |-> h.typed \ {"choice"}, base |-> new]
      [] form.follows = "none" -> h

(* The form after a row arrives in a page that had another; the choices of  *)
(* the product page are set to those of every changed row.                  *)
Follow(h, new) ==
    CASE form.follows = "all" -> IF new # shown THEN Filled(new) ELSE h
      [] form.follows = "edited" -> IF Content(new) # Content(shown) THEN Filled(new) ELSE h
      [] form.follows = "untouched" ->
           IF new = shown THEN h
             ELSE [fields |-> [Content(new) EXCEPT !["text"] =
                                  IF "text" \in h.typed THEN h.fields["text"] ELSE @],
                   typed |-> h.typed \ {"choice"}, base |-> new]
      [] form.follows = "none" -> h

Redrawn == shown = NoRow \/ (failed /\ ~form.stays)

(* The save has succeeded: the dialog closes itself with the row it was     *)
(* submitted on.                                                            *)
Ended == IF save.alive /\ form.forgets THEN Filled(save.shown) ELSE held

Waits == form.dialog \/ form.follows = "untouched"

(* The answer of the save renews the row, dropping a fetch under way, and   *)
(* the form waits for that; the pages of documents are left at once.        *)
Succeed ==
    /\ save.at = "saved"
    /\ fetch' = Sent
    /\ IF Waits
         THEN save' = [save EXCEPT !.at = "waits"] /\ open' = open
         ELSE save' = NoSave /\ open' = FALSE
    /\ UNCHANGED <<form, row, shown, failed, held, reverted, moves, changes, refetches>>

(* The user is told, and the form stays as it is.                           *)
Complain ==
    /\ save.at = "refused"
    /\ save' = NoSave
    /\ UNCHANGED <<form, row, shown, failed, fetch, open, held, reverted, moves, changes, refetches>>

(* A row arrives: the save that waited for it ends before it is drawn.      *)
Arrive ==
    /\ fetch.at = "back"
    /\ fetch' = Idle /\ shown' = fetch.row /\ failed' = FALSE
    /\ held' = IF Redrawn THEN Filled(fetch.row)
                 ELSE Follow(IF save.at = "waits" THEN Ended ELSE held, fetch.row)
    /\ IF save.at = "waits"
         THEN /\ save' = NoSave /\ open' = FALSE
              /\ reverted' = (reverted \/ (~Redrawn /\ Ended # held /\ fetch.row = shown
                                           /\ save.shown # shown))
         ELSE UNCHANGED <<save, open, reverted>>
    /\ UNCHANGED <<form, row, moves, changes, refetches>>

(* The page draws an error instead of its rows, and the dialogs are gone.   *)
Fail ==
    /\ fetch # Idle
    /\ fetch' = Idle /\ failed' = TRUE
    /\ save' = IF save.at = "waits" THEN NoSave
                 ELSE IF save # NoSave /\ ~form.stays THEN [save EXCEPT !.alive = FALSE]
                 ELSE save
    /\ open' = (open /\ ~form.dialog /\ save.at # "waits")
    /\ UNCHANGED <<form, row, shown, held, reverted, moves, changes, refetches>>

Next ==
    \/ Open \/ Close \/ Submit \/ Refetch
    \/ \E f \in Fields, v \in Values : Type(f, v) \/ OtherSaves(f, v)
    \/ OtherMarks
    \/ Process \/ Break \/ Succeed \/ Complain
    \/ Serve \/ Arrive \/ Fail

Spec == Init /\ [][Next]_vars

-----------------------------------------------------------------------------
(* What the user of a form may rely on.                                     *)

(* A field holds what the user typed or what the page shows now, in the     *)
(* forms that follow their page, unless a closing dialog put an older row   *)
(* back.                                                                    *)
TypedOrShown ==
    open /\ Drawn /\ form.follows # "none" /\ ~reverted =>
        \A f \in Fields \ held.typed : held.fields[f] = shown[f]

(* A save takes back no change of another user that its page had shown when *)
(* it was submitted; the forms that follow nothing, none made before they   *)
(* were filled.                                                             *)
KnownTo(s) == IF form.follows = "none" THEN s.held.base ELSE s.shown
SaveSparesOthers ==
    \A f \in Fields :
        save.at = "sent" /\ f \notin save.held.typed /\ row'[f] # row[f] /\ changes' = changes
            => KnownTo(save)[f] # row[f] \/ reverted
SaveKeepsOthers == [][SaveSparesOthers]_vars

(* What is typed in a form that follows nothing, or as text in the page of  *)
(* a product, survives every answer while the form is on the screen.        *)
Survives(f) == form.follows = "none" \/ (~form.dialog /\ ~form.drafts /\ f = "text")
TypedStays ==
    \A f \in Fields :
        (/\ open /\ open' /\ Drawn /\ Drawn' /\ moves' = moves
         /\ f \in held.typed /\ Survives(f)) => held'.fields[f] = held.fields[f]
TypedSurvives == [][TypedStays]_vars
=============================================================================
