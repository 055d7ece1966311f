---------------------------------- MODULE Web ----------------------------------
(***************************************************************************)
(* DetailPages, Forms and Listings.  They are different pages of the       *)
(* application, so each behaviour examines one of them, its focus, while   *)
(* the others rest.                                                        *)
(*   steps: a document of any kind open in two tabs, one change; the       *)
(*          second tab is another user's, of whom only the steps matter.   *)
(*   work:  one tab with several requests under way at once.               *)
(*   forms: movements and receipts, submitted again before the button is   *)
(*          redrawn (two movements suffice), or settlements, submitted     *)
(*          once at a time.                                                *)
(*   list:  a list page of any shape.                                      *)
(***************************************************************************)
EXTENDS DocumentSteps, Naturals, Sequences

CONSTANTS
    mine, theirs,                         \* the two tabs of DetailPages
    Grants, MaxCalls, MaxSteps,           \* of DetailPages
    Intents, Contents, NoIntent, MaxClicks, MaxRequests, MaxMounts,   \* of Forms
    Filters, unfiltered, MaxRows, MaxMoves, MaxChanges     \* of Listings; what it starts with

VARIABLES
    focus,
    document, saved, granted, view, fetch, dialog, calls, spoken,               \* of DetailPages
    form, mount, key, keys, typed, clicks, disabled, requests, recorded, done,  \* of Forms
    shape, rows, filter, asked, page, cache, failed, fetches, held, moves,      \* of Listings
    changes, shrunk

documentVars == <<document, saved, granted, view, fetch, dialog, calls, spoken>>
formVars == <<form, mount, key, keys, typed, clicks, disabled, requests, recorded, done>>
listVars == <<shape, rows, filter, asked, page, cache, failed, fetches, held, moves, changes,
              shrunk>>
webVars == <<focus, documentVars, formVars, listVars>>

D == INSTANCE DetailPages WITH
    Kinds <- KindsOfDocument, Tabs <- {mine, theirs}, MaxChanges <- MaxSteps,
    kind <- document, row <- saved, told <- spoken
F == INSTANCE Forms WITH
    Kinds <- {"movement", "settlement", "receipt"}, kind <- form, page <- mount, rows <- recorded
L == INSTANCE Listings WITH typed <- filter

ASSUME WebAssumption ==
    /\ mine # theirs /\ unfiltered \in Filters
    /\ D!DetailPagesAssumption /\ F!FormsAssumption /\ L!ListingsAssumption

EveryPermission == UNION {Permissions(k) : k \in KindsOfDocument}

WebInit ==
    /\ focus \in {"steps", "work", "forms", "list"}
    /\ D!Init /\ F!Init /\ L!Init
    /\ focus \notin {"steps", "work"} => document = "sales" /\ saved.status = "DRAFT"
    /\ focus # "steps" => \A t \in {mine, theirs} : granted[t] = EveryPermission
    /\ focus # "forms" => form = "receipt"
    /\ filter = unfiltered
    /\ focus # "list" => shape = L!UsersPage /\ rows = [f \in Filters |-> 0]

(* The other user of the steps has at most one request, which is answered.  *)
(* (One that is declined changes nothing for the tab looked at.)            *)
OtherUser ==
    \/ D!Serve(theirs) \/ D!Arrive(theirs)
    \/ \E op \in D!Ops : D!OpenDialog(theirs, op) \/ D!Send(theirs, 1, op)
    \/ D!Process(theirs, 1) /\ calls'[theirs][1].stage # "declined"
    \/ D!Succeed(theirs, 1)
    \/ D!Refetched(theirs, 1) \/ D!Complain(theirs, 1)

OwnTab(i) ==
    \/ D!Serve(mine) \/ D!Arrive(mine) \/ D!FetchFails(mine) \/ D!Retry(mine)
    \/ D!Revisit(mine) \/ D!CloseDialog(mine)
    \/ \E op \in D!Ops : D!OpenDialog(mine, op) \/ D!Send(mine, i, op)
    \/ D!Succeed(mine, i) \/ D!Refetched(mine, i) \/ D!Complain(mine, i)
    \/ D!Process(mine, i) \/ D!Break(mine, i) \/ D!ProcessAbandoned(mine, i)

WebNext ==
    /\ focus' = focus
    /\ \/ /\ focus = "steps"
          /\ saved.version + D!Outstanding <= 1
          /\ OwnTab(1) \/ OtherUser
          /\ UNCHANGED <<formVars, listVars>>
       \/ /\ focus = "work"
          /\ \E i \in 1..MaxCalls : OwnTab(i)
          /\ UNCHANGED <<formVars, listVars>>
       \/ /\ focus = "forms" /\ F!Next
          /\ form' = "settlement" => clicks' <= 1
          /\ form' = "movement" => Len(requests') <= 2
          /\ UNCHANGED <<documentVars, listVars>>
       \/ /\ focus = "list" /\ L!Next
          /\ UNCHANGED <<documentVars, formVars>>

WebSpec == WebInit /\ [][WebNext]_webVars

(* Fetches of the tab looked at are answered or fail, the browser runs its  *)
(* callbacks, and the timer of a list page fires.                           *)
WebFairness ==
    /\ WF_documentVars(focus \in {"steps", "work"} /\ (D!Serve(mine) \/ D!Arrive(mine)))
    /\ WF_documentVars(/\ focus \in {"steps", "work"}
                       /\ \E i \in 1..MaxCalls : D!Refetched(mine, i))
    /\ WF_listVars(focus = "list" /\ L!Pause)
    /\ WF_listVars(focus = "list" /\ L!Answered)

FairWebSpec == WebSpec /\ WebFairness

-----------------------------------------------------------------------------
(* The types of the three modules.                                         *)
TypesOK == D!TypeOK /\ F!TypeOK /\ L!TypeOK

(* A page that is up to date draws the steps its user may take, but those  *)
(* no page offers, and what a page says of a count is what it shows,       *)
(* whichever answers overtake others.                                      *)
PagesAreTrue == TypesOK /\ D!AllowedIsDrawn /\ D!CountToldIsShown

(* No event is recorded twice from one mount of the receipt and settlement *)
(* pages, and each event the forms say is done has a row of its own.       *)
FormsRecordOnce == F!RecordedOnce /\ F!DoneIsRecorded

(* What the lists draw answers what is typed, and every list comes to an    *)
(* answer to what is typed.                                                 *)
ListsAnswer == L!TableAnswersFilter /\ L!NothingFoundIsTrue
TypedIsAnswered == []<>(focus = "list" => L!AnswersTyped)

(* What the API refuses for the status of the row or a permission was       *)
(* offered on a row that has changed since.                                 *)
RefusedIsStale == D!RefusedIsStale

(* What a tab says it did, it comes to show.                                *)
OwnWorkIsSeen == []<>(focus \in {"steps", "work"} => D!ShowsOwnWork(mine))
==============================================================================
