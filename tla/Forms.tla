-------------------------------- MODULE Forms --------------------------------
(***************************************************************************)
(* The three forms whose requests carry an idempotency key, from the       *)
(* keyboard to the row: movements of stock (MovementFormDialog), settlement *)
(* of a title (FinancialEntryDetailPage) and receipt of a purchase order   *)
(* (PurchaseReceiptFormPage).  They differ in where the key lives:         *)
(*   movement    made anew at every submit                                 *)
(*   settlement  state of the page, renewed after every success            *)
(*   receipt     a ref of the page, which a success leaves                 *)
(* A page that is left and entered again, or loaded again, is mounted anew *)
(* and draws a new key; its requests go on.  The user has real events to   *)
(* record (intents); two of them may look the same (equal content).  The   *)
(* handler is one step here; its inside is the subject of Inventory,       *)
(* Finance and Purchasing.                                                 *)
(***************************************************************************)
EXTENDS Naturals, Sequences, FiniteSets

CONSTANTS
    Kinds,        \* forms looked at
    Intents,      \* the events a user has to record
    Contents,     \* what may be typed for one
    NoIntent,     \* an empty form
    MaxClicks,    \* submits before the button is drawn disabled (bound)
    MaxRequests,  \* requests sent (bound)
    MaxMounts     \* mounts after which no page is left (bound)

FormsAssumption ==
    /\ Kinds \subseteq {"movement", "settlement", "receipt"}
    /\ MaxClicks \in Nat \ {0} /\ MaxRequests \in Nat /\ MaxMounts \in Nat
    /\ Contents # {} /\ NoIntent \notin Intents

VARIABLES
    kind,      \* the form
    page,      \* how often the page was mounted
    key,       \* the key the page holds
    keys,      \* keys drawn so far; random UUIDs are fresh numbers here
    typed,     \* the event and the content in the form
    clicks,    \* submits since the button was last drawn
    disabled,  \* whether the button is drawn disabled
    requests,  \* the requests sent, in order
    rows,      \* the rows of the API, each under its key; page is history
    done       \* the events a success message was given for

vars == <<kind, page, key, keys, typed, clicks, disabled, requests, rows, done>>

Form == [intent : Intents \cup {NoIntent}, content : Contents]
Empty == [intent |-> NoIntent, content |-> CHOOSE c \in Contents : TRUE]
Stages == {"sent", "abandoned", "ok", "error", "heard"}
Request == [key : Nat, intent : Intents, content : Contents, page : Nat, stage : Stages]
Row == [key : Nat, intent : Intents, content : Contents, page : Nat]

(* Types: and no two rows under one key.                                    *)
TypeOK ==
    /\ kind \in Kinds
    /\ page \in Nat /\ key \in Nat /\ keys \in Nat
    /\ typed \in Form
    /\ clicks \in 0..MaxClicks /\ disabled \in BOOLEAN
    /\ requests \in Seq(Request)
    /\ rows \subseteq Row
    /\ \A a, b \in rows : a.key = b.key => a = b
    /\ done \subseteq Intents

Init ==
    /\ kind \in Kinds
    /\ page = 1 /\ key = 1 /\ keys = 1
    /\ typed = Empty
    /\ clicks = 0 /\ disabled = FALSE
    /\ requests = <<>>
    /\ rows = {}
    /\ done = {}

-----------------------------------------------------------------------------
(* The user.                                                                *)

Unanswered(r) == requests[r].stage \in {"sent", "ok", "error"}

(* An event not yet confirmed is typed, and not one this page waits for.   *)
(* (A user who left the page may type what the page before it sent.)        *)
Type(i, c) ==
    /\ typed.intent = NoIntent
    /\ i \notin done
    /\ \A r \in DOMAIN requests :
         Unanswered(r) /\ requests[r].page = page => requests[r].intent # i
    /\ typed' = [intent |-> i, content |-> c]
    /\ UNCHANGED <<kind, page, key, keys, clicks, disabled, requests, rows, done>>

(* After an error the user corrects what was typed.                         *)
Correct(c) ==
    /\ typed.intent # NoIntent /\ ~disabled
    /\ typed' = [typed EXCEPT !.content = c]
    /\ UNCHANGED <<kind, page, key, keys, clicks, disabled, requests, rows, done>>

(* The key a submit sends.                                                  *)
FaultKeyOf == keys + Len(requests)   \* fault: every submit has a key of its own

KeyOf == IF kind = "movement" THEN keys + 1 ELSE key

Submit ==
    /\ typed.intent # NoIntent
    /\ ~disabled
    /\ clicks < MaxClicks
    /\ Len(requests) < MaxRequests
    /\ requests' = Append(requests, [key |-> KeyOf, intent |-> typed.intent,
                                     content |-> typed.content, page |-> page, stage |-> "sent"])
    /\ keys' = IF kind = "movement" THEN keys + 1 ELSE keys
    /\ clicks' = clicks + 1
    /\ UNCHANGED <<kind, page, key, typed, disabled, rows, done>>

(* isPending is that of the request this mount sent last.                   *)
IsPending ==
    requests # <<>> /\ Unanswered(Len(requests)) /\ requests[Len(requests)].page = page

Redraw ==
    /\ clicks > 0 \/ disabled
    /\ disabled # IsPending \/ clicks > 0
    /\ disabled' = IsPending
    /\ clicks' = 0
    /\ UNCHANGED <<kind, page, key, keys, typed, requests, rows, done>>

Mount ==
    /\ page' = page + 1
    /\ key' = keys + 1 /\ keys' = keys + 1
    /\ typed' = Empty /\ clicks' = 0 /\ disabled' = FALSE

(* The page is left and entered again; the dialog of a movement, which is   *)
(* part of the page around it, is closed and opened.                        *)
Leave ==
    /\ page < MaxMounts
    /\ IF kind = "movement"
         THEN typed' = Empty /\ UNCHANGED <<page, key, keys, clicks, disabled>>
         ELSE Mount
    /\ UNCHANGED <<kind, requests, rows, done>>

-----------------------------------------------------------------------------
(* The API and the network.                                                 *)

Under(k) == {w \in rows : w.key = k}
SameContent(r, w) == w.content = requests[r].content

(* The row under the key answers an equal request; a new one is inserted    *)
(* or refused for reasons of its own.                                       *)
Handle(r, ok) ==
    IF Under(requests[r].key) # {}
      THEN ok = (\A w \in Under(requests[r].key) : SameContent(r, w)) /\ UNCHANGED rows
      ELSE rows' = IF ok THEN rows \cup {[key |-> requests[r].key, intent |-> requests[r].intent,
                                          content |-> requests[r].content,
                                          page |-> requests[r].page]}
                         ELSE rows

Process(r) ==
    /\ requests[r].stage = "sent"
    /\ \E ok \in BOOLEAN :
         /\ Handle(r, ok)
         /\ requests' = [requests EXCEPT ![r].stage = IF ok THEN "ok" ELSE "error"]
    /\ UNCHANGED <<kind, page, key, keys, typed, clicks, disabled, done>>

(* The connection breaks; the form stays as it is, under an error message.  *)
Break(r) ==
    /\ Unanswered(r)
    /\ requests' = [requests EXCEPT ![r].stage = IF @ = "sent" THEN "abandoned" ELSE "heard"]
    /\ UNCHANGED <<kind, page, key, keys, typed, clicks, disabled, rows, done>>

ProcessAbandoned(r) ==
    /\ requests[r].stage = "abandoned"
    /\ (\E ok \in BOOLEAN : Handle(r, ok)) \/ UNCHANGED rows
    /\ requests' = [requests EXCEPT ![r].stage = "heard"]
    /\ UNCHANGED <<kind, page, key, keys, typed, clicks, disabled, done>>

HearError(r) ==
    /\ requests[r].stage = "error"
    /\ requests' = [requests EXCEPT ![r].stage = "heard"]
    /\ UNCHANGED <<kind, page, key, keys, typed, clicks, disabled, rows, done>>

(* What the success handler does to the form.  That of a settlement page    *)
(* that was left changes nothing; that of a receipt leaves whatever receipt *)
(* page is open.                                                            *)
AfterSuccess(r) ==
    CASE kind = "movement" ->
           typed' = Empty /\ UNCHANGED <<page, key, keys, clicks, disabled>>
      [] kind = "settlement" ->
           /\ IF requests[r].page = page
                THEN typed' = Empty /\ key' = keys + 1 /\ keys' = keys + 1
                ELSE UNCHANGED <<typed, key, keys>>
           /\ UNCHANGED <<page, clicks, disabled>>
      [] kind = "receipt" -> Mount

HearSuccess(r) ==
    /\ requests[r].stage = "ok"
    /\ AfterSuccess(r)
    /\ requests' = [requests EXCEPT ![r].stage = "heard"]
    /\ done' = done \cup {requests[r].intent}
    /\ UNCHANGED <<kind, rows>>

Next ==
    \/ \E i \in Intents, c \in Contents : Type(i, c)
    \/ \E c \in Contents : Correct(c)
    \/ Submit
    \/ Redraw
    \/ Leave
    \/ \E r \in DOMAIN requests :
         Process(r) \/ Break(r) \/ ProcessAbandoned(r) \/ HearError(r) \/ HearSuccess(r)

Spec == Init /\ [][Next]_vars

-----------------------------------------------------------------------------
(* What a user may rely on.                                                 *)

(* From one mount of a receipt or settlement page no event is recorded      *)
(* twice, however often it is submitted until the form says it is done.     *)
(* (From two mounts it may be, after an answer that was lost: the key that  *)
(* would tell is gone.  And a movement has a key for every submit.)         *)
RecordedOnce ==
    kind # "movement" =>
        \A a, b \in rows : a.intent = b.intent /\ a.page = b.page => a = b

(* Each event the form says is done has a row of its own, also when it      *)
(* looks exactly like another.                                              *)
DoneIsRecorded ==
    \A i \in done : \E w \in rows : w.intent = i
==============================================================================
