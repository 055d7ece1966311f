------------------------------ MODULE Web_proofs ------------------------------
(***************************************************************************)
(* What the web application guarantees for every number of requests,       *)
(* forms, filters and rows (Web), and for every number of tabs, tasks,     *)
(* calls and tokens (Sessions).                                            *)
(*   Forms        FormsInv: requests under one key are of one event and    *)
(*       one mount of the page, and those of one event and one mount share *)
(*       their key, unless each submit draws its own.                      *)
(*   Listings     ListingInv: what is cached or under way has the rows its *)
(*       page needs, and the page asks at once for what it lacks.          *)
(*   DetailPages  DocumentInv: what a page shows was the document, what a  *)
(*       tab sends is accepted unless the row has changed since, and the   *)
(*       fetch under way brings the change the next message speaks of.     *)
(* WebInv joins the three.  Of Sessions, SessionInvariant shows that at    *)
(* most one token of a login can be used and that none serves a user who   *)
(* was deactivated, unless an activation came between the read and the     *)
(* commit of the deactivation, whatever refreshes, logins, logouts, status *)
(* changes and reloads overlap.                                            *)
(***************************************************************************)
EXTENDS Sessions, Web, FiniteSetTheorems, SequenceTheorems, TLAPS

-----------------------------------------------------------------------------
(* Forms: no event is recorded twice from one mount of its page.           *)

(* A movement draws a key at every submit; the other forms send the page's. *)
Keyed == form # "movement"

(* What is typed under the key of the page is the event of its requests;   *)
(* those this mount sent under another key were told they are done.        *)
KeysFit ==
    \A r \in 1..Len(requests) :
        /\ requests[r].key <= keys /\ requests[r].page <= mount
        /\ requests[r].stage = "ok" => \E w \in recorded : w.key = requests[r].key
        /\ Keyed /\ requests[r].key = key =>
             requests[r].page = mount /\ requests[r].intent = typed.intent
        /\ Keyed /\ requests[r].page = mount /\ requests[r].key # key =>
             /\ form = "settlement"
             /\ requests[r].intent \in done /\ requests[r].intent # typed.intent

(* Requests under one key are of one event and one mount; unless each has  *)
(* its own key, those of one event and one mount share theirs.             *)
KeysAreEvents ==
    \A r, s \in 1..Len(requests) :
        /\ requests[r].key = requests[s].key =>
             requests[r].intent = requests[s].intent /\ requests[r].page = requests[s].page
        /\ Keyed /\ requests[r].intent = requests[s].intent
                 /\ requests[r].page = requests[s].page =>
             requests[r].key = requests[s].key

RowsWereSent ==
    \A w \in recorded : \E r \in 1..Len(requests) :
        requests[r].key = w.key /\ requests[r].intent = w.intent /\ requests[r].page = w.page

(* A settlement page waits for the answer of its last request only.        *)
Waiting(where) == where \in {"sent", "ok", "error"}
Waits(r) == Waiting(requests[r].stage) /\ requests[r].page = mount
OneAtATime ==
    form = "settlement" =>
        /\ \A r \in 1..Len(requests) : Waits(r) => r = Len(requests) /\ requests[r].key = key
        /\ ~disabled /\ clicks = 0 => \A r \in 1..Len(requests) : ~Waits(r)

FormsInv ==
    /\ F!TypeOK
    /\ key <= keys /\ (Keyed => keys = key)
    /\ KeysFit /\ KeysAreEvents /\ RowsWereSent /\ OneAtATime
    /\ F!DoneIsRecorded

(* What the constants of Forms are.                                        *)
LEMMA FormConstants ==
    /\ MaxClicks \in Nat \ {0} /\ MaxRequests \in Nat /\ MaxMounts \in Nat
    /\ NoIntent \notin Intents /\ Contents # {}
  BY WebAssumption DEF F!FormsAssumption

LEMMA EmptyForm == F!Empty \in F!Form /\ F!Empty.intent = NoIntent
  <1>1. (CHOOSE c \in Contents : TRUE) \in Contents
    BY FormConstants
  <1>2. QED
    BY <1>1 DEF F!Empty, F!Form

LEMMA FormsInit == F!Init => FormsInv
  <1> SUFFICES ASSUME F!Init PROVE FormsInv
    OBVIOUS
  <1>1. requests = <<>> /\ requests \in Seq(F!Request) /\ Len(requests) = 0
    BY DEF F!Init
  <1>2. keys = 1 /\ key = 1 /\ mount = 1 /\ done = {} /\ recorded = {}
    BY DEF F!Init
  <1>3. F!TypeOK
    <2>1. form \in {"movement", "settlement", "receipt"} /\ typed \in F!Form
      BY EmptyForm DEF F!Init
    <2>2. clicks \in 0..MaxClicks
      BY FormConstants DEF F!Init
    <2>3. disabled \in BOOLEAN
      BY DEF F!Init
    <2>4. QED
      BY <1>1, <1>2, <2>1, <2>2, <2>3 DEF F!TypeOK
  <1>4. 1..Len(requests) = {}
    BY <1>1
  <1>5. KeysFit /\ KeysAreEvents /\ RowsWereSent /\ OneAtATime /\ F!DoneIsRecorded
    BY <1>2, <1>4 DEF KeysFit, KeysAreEvents, RowsWereSent, OneAtATime, F!DoneIsRecorded
  <1>6. QED
    BY <1>2, <1>3, <1>5 DEF FormsInv

(* The parts of the state, and of a request.                               *)
LEMMA FormShape ==
    ASSUME F!TypeOK
    PROVE  /\ form \in {"movement", "settlement", "receipt"} /\ typed \in F!Form
           /\ mount \in Nat /\ key \in Nat /\ keys \in Nat
           /\ disabled \in BOOLEAN /\ clicks \in 0..MaxClicks /\ done \subseteq Intents
           /\ requests \in Seq(F!Request) /\ DOMAIN requests = 1..Len(requests)
           /\ Len(requests) \in Nat
           /\ recorded \subseteq F!Row /\ \A a, b \in recorded : a.key = b.key => a = b
  BY DEF F!TypeOK

LEMMA RequestShape ==
    ASSUME F!TypeOK, NEW r \in 1..Len(requests)
    PROVE  /\ requests[r] \in F!Request
           /\ requests[r].key \in Nat /\ requests[r].intent \in Intents
           /\ requests[r].content \in Contents /\ requests[r].page \in Nat
           /\ requests[r].stage \in F!Stages /\ r \in DOMAIN requests
  <1>1. requests \in Seq(F!Request) /\ requests[r] \in F!Request /\ r \in DOMAIN requests
    BY DEF F!TypeOK
  <1>2. QED
    BY <1>1 DEF F!Request

(* Typing and drawing touch no request.                                    *)
LEMMA TypingKeeps ==
    ASSUME FormsInv, typed' \in F!Form, clicks' \in 0..MaxClicks, disabled' \in BOOLEAN,
           UNCHANGED <<form, mount, key, keys, requests, recorded, done>>,
           \/ typed'.intent = typed.intent
           \/ typed.intent = NoIntent /\ typed'.intent \notin done
           \/ ~Keyed,
           \/ disabled' = disabled /\ clicks' = clicks
           \/ disabled' = F!IsPending
    PROVE  FormsInv'
  <1>1. F!TypeOK'
    BY DEF FormsInv, F!TypeOK
  <1>2. KeysFit'
    <2>1. SUFFICES ASSUME NEW r \in 1..Len(requests), Keyed
                   PROVE  /\ requests[r].key = key => requests[r].intent = typed'.intent
                          /\ requests[r].page = mount /\ requests[r].key # key =>
                               requests[r].intent # typed'.intent
      BY DEF FormsInv, KeysFit, Keyed
    <2>2. requests[r].intent # NoIntent
      BY RequestShape, FormConstants DEF FormsInv
    <2>3. QED
      BY <2>1, <2>2 DEF FormsInv, KeysFit
  <1>3. KeysAreEvents' /\ RowsWereSent' /\ F!DoneIsRecorded'
    BY DEF FormsInv, KeysAreEvents, RowsWereSent, F!DoneIsRecorded, Keyed
  <1>4. OneAtATime'
    <2> SUFFICES ASSUME form = "settlement" PROVE OneAtATime'
      BY DEF OneAtATime
    <2>1. \A r \in 1..Len(requests) : Waits(r) => r = Len(requests)
      BY DEF FormsInv, OneAtATime
    <2>2. ASSUME ~F!IsPending, NEW r \in 1..Len(requests) PROVE ~Waits(r)
      BY <2>1, <2>2, RequestShape DEF F!IsPending, F!Unanswered, FormsInv, Waits, Waiting
    <2>3. QED
      BY <2>2 DEF FormsInv, OneAtATime, Waits, Waiting
  <1>5. QED
    BY <1>1, <1>2, <1>3, <1>4 DEF FormsInv, Keyed

(* A submit sends the event that was typed, under the key of the page or,  *)
(* for a movement, under a new one.                                        *)
LEMMA SubmitKeeps ==
    ASSUME FormsInv, F!Submit, form = "settlement" => clicks' <= 1
    PROVE  FormsInv'
  <1> DEFINE n == Len(requests)
             q == [key |-> F!KeyOf, intent |-> typed.intent, content |-> typed.content,
                   page |-> mount, stage |-> "sent"]
  <1>1. /\ typed.intent # NoIntent /\ ~disabled /\ clicks < MaxClicks
        /\ clicks' = clicks + 1
        /\ UNCHANGED <<form, mount, key, typed, disabled, recorded, done>>
        /\ requests' = Append(requests, q)
        /\ keys' = IF form = "movement" THEN keys + 1 ELSE keys
    BY DEF F!Submit
  <1>2. /\ mount \in Nat /\ key \in Nat /\ keys \in Nat /\ n \in Nat
        /\ requests \in Seq(F!Request) /\ typed \in F!Form /\ clicks \in 0..MaxClicks
    BY FormShape DEF FormsInv
  <1>3. /\ F!KeyOf \in Nat /\ keys' \in Nat /\ F!KeyOf <= keys' /\ keys <= keys'
        /\ key <= keys' /\ (Keyed => keys' = key /\ F!KeyOf = key)
        /\ (~Keyed => F!KeyOf = keys + 1)
    BY <1>1, <1>2 DEF F!KeyOf, FormsInv, Keyed
  <1>4. q \in F!Request
    <2>1. typed.intent \in Intents /\ typed.content \in Contents
      BY <1>1, <1>2 DEF F!Form
    <2>2. QED
      BY <1>2, <1>3, <2>1 DEF F!Request, F!Stages
  <1>5. /\ requests' \in Seq(F!Request) /\ Len(requests') = n + 1
        /\ requests'[n + 1] = q
        /\ \A r \in 1..n : requests'[r] = requests[r]
    BY <1>1, <1>2, <1>4
  <1>6. q.key = F!KeyOf /\ q.intent = typed.intent /\ q.page = mount /\ q.stage = "sent"
    OBVIOUS
  <1> HIDE DEF q, n
  <1>7. F!TypeOK'
    <2>1. clicks' \in 0..MaxClicks
      BY <1>1, <1>2, FormConstants
    <2>2. form' \in {"movement", "settlement", "receipt"} /\ typed' \in F!Form
            /\ disabled' \in BOOLEAN /\ done' \subseteq Intents
      BY <1>1, FormShape DEF FormsInv
    <2>3. recorded' \subseteq F!Row /\ \A a, b \in recorded' : a.key = b.key => a = b
      BY <1>1, FormShape DEF FormsInv
    <2>4. QED
      BY <1>1, <1>2, <1>3, <1>5, <2>1, <2>2, <2>3 DEF F!TypeOK
  <1>8. \A r \in 1..(n + 1) : r \in 1..n \/ r = n + 1
    BY <1>2
  <1>9. ASSUME NEW r \in 1..n
        PROVE  /\ requests[r].key \in Nat /\ requests[r].key <= keys /\ requests[r].page <= mount
               /\ requests[r].stage = "ok" => \E w \in recorded : w.key = requests[r].key
               /\ Keyed /\ requests[r].key = key =>
                    requests[r].page = mount /\ requests[r].intent = typed.intent
               /\ Keyed /\ requests[r].page = mount /\ requests[r].key # key =>
                    /\ form = "settlement"
                    /\ requests[r].intent \in done /\ requests[r].intent # typed.intent
    BY RequestShape DEF FormsInv, KeysFit, n
  <1>10. KeysFit'
    <2>1. SUFFICES ASSUME NEW r \in 1..(n + 1)
                   PROVE  /\ requests'[r].key <= keys' /\ requests'[r].page <= mount
                          /\ requests'[r].stage = "ok" =>
                               \E w \in recorded : w.key = requests'[r].key
                          /\ Keyed /\ requests'[r].key = key =>
                               requests'[r].page = mount /\ requests'[r].intent = typed.intent
                          /\ Keyed /\ requests'[r].page = mount /\ requests'[r].key # key =>
                               /\ form = "settlement"
                               /\ requests'[r].intent \in done
                               /\ requests'[r].intent # typed.intent
      BY <1>1, <1>5 DEF KeysFit, Keyed
    <2>2. CASE r \in 1..n
      <3>1. requests'[r] = requests[r]
        BY <1>5, <2>2
      <3>2. requests[r].key <= keys'
        BY <1>2, <1>3, <1>9, <2>2
      <3>3. QED
        BY <1>9, <2>2, <3>1, <3>2
    <2>3. CASE r = n + 1
      <3>1. requests'[r] = q
        BY <1>5, <2>3
      <3>2. QED
        BY <1>2, <1>3, <1>6, <3>1
    <2>4. QED
      BY <1>8, <2>2, <2>3
  <1>11. KeysAreEvents'
    <2>1. ASSUME NEW r \in 1..n
          PROVE  /\ requests[r].key = q.key =>
                      requests[r].intent = q.intent /\ requests[r].page = q.page
                 /\ Keyed /\ requests[r].intent = q.intent /\ requests[r].page = q.page =>
                      requests[r].key = q.key
      BY <1>2, <1>3, <1>6, <1>9
    <2>2. \A r, s \in 1..n :
            /\ requests[r].key = requests[s].key =>
                 requests[r].intent = requests[s].intent /\ requests[r].page = requests[s].page
            /\ Keyed /\ requests[r].intent = requests[s].intent
                     /\ requests[r].page = requests[s].page =>
                 requests[r].key = requests[s].key
      BY DEF FormsInv, KeysAreEvents, n
    <2>3. SUFFICES ASSUME NEW r \in 1..(n + 1), NEW s \in 1..(n + 1)
                   PROVE  /\ requests'[r].key = requests'[s].key =>
                               /\ requests'[r].intent = requests'[s].intent
                               /\ requests'[r].page = requests'[s].page
                          /\ Keyed /\ requests'[r].intent = requests'[s].intent
                                   /\ requests'[r].page = requests'[s].page =>
                               requests'[r].key = requests'[s].key
      BY <1>1, <1>5 DEF KeysAreEvents, Keyed
    <2>4. CASE r \in 1..n /\ s \in 1..n
      BY <1>5, <2>2, <2>4
    <2>5. CASE r \in 1..n /\ s = n + 1
      BY <1>5, <2>1, <2>5
    <2>6. CASE r = n + 1 /\ s \in 1..n
      BY <1>5, <2>1, <2>6
    <2>7. QED
      BY <1>8, <2>4, <2>5, <2>6
  <1>12. RowsWereSent' /\ F!DoneIsRecorded'
    <2>1. \A w \in recorded : \E r \in 1..n :
            requests'[r].key = w.key /\ requests'[r].intent = w.intent
              /\ requests'[r].page = w.page
      BY <1>5 DEF FormsInv, RowsWereSent, n
    <2>2. 1..n \subseteq 1..Len(requests')
      BY <1>2, <1>5
    <2>3. QED
      BY <1>1, <2>1, <2>2 DEF FormsInv, RowsWereSent, F!DoneIsRecorded
  <1>13. OneAtATime'
    <2> SUFFICES ASSUME form = "settlement" PROVE OneAtATime'
      BY <1>1 DEF OneAtATime
    <2>1. clicks = 0 /\ clicks' = 1
      BY <1>1, <1>2
    <2>2. \A r \in 1..n : ~(Waiting(requests[r].stage) /\ requests[r].page = mount)
      BY <1>1, <2>1 DEF FormsInv, OneAtATime, n, Waits
    <2>3. \A r \in 1..n : ~(Waiting(requests'[r].stage) /\ requests'[r].page = mount)
      BY <1>5, <2>2
    <2>4. requests'[n + 1].key = key
      BY <1>3, <1>5, <1>6 DEF Keyed
    <2>5. QED
      BY <1>1, <1>5, <1>8, <2>1, <2>3, <2>4 DEF OneAtATime, Waits
  <1>14. QED
    BY <1>1, <1>3, <1>7, <1>10, <1>11, <1>12, <1>13 DEF FormsInv, Keyed

(* Only the stage of one request changes.                                  *)
Restaged(r, x) ==
    /\ r \in 1..Len(requests) /\ x \in F!Stages
    /\ requests' = [requests EXCEPT ![r].stage = x]

LEMMA RestagedShape ==
    ASSUME F!TypeOK, NEW r, NEW x, Restaged(r, x)
    PROVE  /\ requests' \in Seq(F!Request) /\ Len(requests') = Len(requests)
           /\ \A s \in 1..Len(requests) :
                /\ requests'[s].key = requests[s].key
                /\ requests'[s].intent = requests[s].intent
                /\ requests'[s].page = requests[s].page
                /\ requests'[s].stage = IF s = r THEN x ELSE requests[s].stage
  <1>1. requests \in Seq(F!Request) /\ r \in DOMAIN requests /\ requests[r] \in F!Request
    BY DEF F!TypeOK, Restaged
  <1>2. requests' = [requests EXCEPT ![r] = [requests[r] EXCEPT !.stage = x]]
    BY DEF Restaged
  <1>3. [requests[r] EXCEPT !.stage = x] \in F!Request
    BY <1>1 DEF Restaged, F!Request
  <1>4. requests' \in Seq(F!Request) /\ Len(requests') = Len(requests)
    BY <1>1, <1>2, <1>3, ExceptSeq
  <1>5. ASSUME NEW s \in 1..Len(requests)
        PROVE  /\ requests'[s].key = requests[s].key
               /\ requests'[s].intent = requests[s].intent
               /\ requests'[s].page = requests[s].page
               /\ requests'[s].stage = IF s = r THEN x ELSE requests[s].stage
    <2>1. s # r => requests'[s] = requests[s]
      BY <1>1, <1>2
    <2>2. requests'[r] = [requests[r] EXCEPT !.stage = x]
      BY <1>1, <1>2
    <2>3. requests[r] = [key |-> requests[r].key, intent |-> requests[r].intent,
                         content |-> requests[r].content, page |-> requests[r].page,
                         stage |-> requests[r].stage]
      BY <1>1 DEF F!Request
    <2>4. QED
      BY <2>1, <2>2, <2>3
  <1>6. QED
    BY <1>4, <1>5

(* The row a request is recorded in.                                       *)
RowOf(r) == [key |-> requests[r].key, intent |-> requests[r].intent,
             content |-> requests[r].content, page |-> requests[r].page]

(* A request that is handled, lost or refused: its row, if it gets one, is *)
(* the only one under its key.                                             *)
LEMMA RestagedKeeps ==
    ASSUME FormsInv, NEW r, NEW x, Restaged(r, x),
           UNCHANGED <<form, mount, key, keys, typed, clicks, disabled, done>>,
           Waiting(x) => F!Unanswered(r),
           \/ recorded' = recorded
           \/ F!Under(requests[r].key) = {} /\ recorded' = recorded \cup {RowOf(r)},
           x = "ok" => \E w \in recorded' : w.key = requests[r].key
    PROVE  FormsInv'
  <1> DEFINE n == Len(requests)
  <1>1. /\ requests' \in Seq(F!Request) /\ Len(requests') = n
        /\ \A s \in 1..n :
             /\ requests'[s].key = requests[s].key
             /\ requests'[s].intent = requests[s].intent
             /\ requests'[s].page = requests[s].page
             /\ requests'[s].stage = IF s = r THEN x ELSE requests[s].stage
    BY RestagedShape DEF FormsInv
  <1>2. r \in 1..n /\ x \in F!Stages
    BY DEF Restaged
  <1>3. recorded \subseteq recorded'
    OBVIOUS
  <1>4. \A w \in recorded' \ recorded :
          /\ w.key = requests[r].key /\ w.intent = requests[r].intent
          /\ w.page = requests[r].page
    BY DEF RowOf
  <1>5. F!TypeOK'
    <2>1. recorded' \subseteq F!Row
      BY <1>2, RequestShape, FormShape DEF FormsInv, F!Row, RowOf
    <2>2. \A a, b \in recorded' : a.key = b.key => a = b
      <3>1. \A a, b \in recorded : a.key = b.key => a = b
        BY FormShape DEF FormsInv
      <3>2. CASE recorded' = recorded
        BY <3>1, <3>2
      <3>3. CASE F!Under(requests[r].key) = {} /\ recorded' = recorded \cup {RowOf(r)}
        <4>1. \A w \in recorded : w.key # requests[r].key
          BY <3>3 DEF F!Under
        <4>2. \A a, b \in recorded' \ recorded : a = b
          BY <3>3
        <4>3. QED
          BY <3>1, <4>1, <4>2, <1>4
      <3>4. QED
        BY <3>2, <3>3
    <2>3. form \in {"movement", "settlement", "receipt"} /\ mount \in Nat /\ key \in Nat
            /\ keys \in Nat /\ typed \in F!Form
      BY FormShape DEF FormsInv
    <2>4. disabled \in BOOLEAN /\ clicks \in 0..MaxClicks /\ done \subseteq Intents
      BY FormShape DEF FormsInv
    <2>5. QED
      BY <1>1, <2>1, <2>2, <2>3, <2>4 DEF F!TypeOK
  <1> HIDE DEF n
  <1>6. KeysFit'
    <2>1. SUFFICES ASSUME NEW s \in 1..n
                   PROVE  /\ requests[s].key <= keys /\ requests[s].page <= mount
                          /\ requests'[s].stage = "ok" =>
                               \E w \in recorded' : w.key = requests[s].key
                          /\ Keyed /\ requests[s].key = key =>
                               requests[s].page = mount /\ requests[s].intent = typed.intent
                          /\ Keyed /\ requests[s].page = mount /\ requests[s].key # key =>
                               /\ form = "settlement"
                               /\ requests[s].intent \in done
                               /\ requests[s].intent # typed.intent
      BY <1>1 DEF KeysFit, Keyed
    <2>2. s \in 1..Len(requests)
      BY DEF n
    <2>3. requests'[s].stage = "ok" => \E w \in recorded' : w.key = requests[s].key
      BY <1>1, <1>3, <2>2 DEF FormsInv, KeysFit
    <2>4. QED
      BY <2>2, <2>3 DEF FormsInv, KeysFit
  <1>7. KeysAreEvents'
    BY <1>1 DEF FormsInv, KeysAreEvents, Keyed, n
  <1>8. RowsWereSent'
    <2>1. \A w \in recorded : \E s \in 1..n :
            requests[s].key = w.key /\ requests[s].intent = w.intent /\ requests[s].page = w.page
      BY DEF FormsInv, RowsWereSent, n
    <2>2. QED
      BY <1>1, <1>2, <1>4, <2>1 DEF RowsWereSent
  <1>9. F!DoneIsRecorded'
    BY <1>3 DEF FormsInv, F!DoneIsRecorded
  <1>10. OneAtATime'
    <2> SUFFICES ASSUME form = "settlement" PROVE OneAtATime'
      BY DEF OneAtATime
    <2>1. ASSUME NEW s \in 1..n, Waiting(requests'[s].stage)
          PROVE  Waiting(requests[s].stage)
      BY <1>1, <2>1 DEF F!Unanswered, Waiting
    <2>2. /\ \A s \in 1..n :
               Waiting(requests[s].stage) /\ requests[s].page = mount =>
                 s = n /\ requests[s].key = key
          /\ ~disabled /\ clicks = 0 =>
               \A s \in 1..n : ~(Waiting(requests[s].stage) /\ requests[s].page = mount)
      BY DEF FormsInv, OneAtATime, n, Waits
    <2>3. QED
      BY <1>1, <2>1, <2>2 DEF OneAtATime, Waits
  <1>11. QED
    BY <1>5, <1>6, <1>7, <1>8, <1>9, <1>10 DEF FormsInv, Keyed

(* The API inserts the row of a request, or nothing.                       *)
LEMMA HandleInserts ==
    ASSUME NEW r, NEW ok \in BOOLEAN, F!Handle(r, ok)
    PROVE  /\ \/ recorded' = recorded
              \/ F!Under(requests[r].key) = {} /\ recorded' = recorded \cup {RowOf(r)}
           /\ ok => \E w \in recorded' : w.key = requests[r].key
  <1>1. CASE F!Under(requests[r].key) # {}
    <2>1. \E w \in recorded : w.key = requests[r].key
      BY <1>1 DEF F!Under
    <2>2. recorded' = recorded
      BY <1>1 DEF F!Handle
    <2>3. QED
      BY <2>1, <2>2
  <1>2. CASE F!Under(requests[r].key) = {}
    <2>1. recorded' = IF ok THEN recorded \cup {RowOf(r)} ELSE recorded
      BY <1>2 DEF F!Handle, RowOf
    <2>2. RowOf(r).key = requests[r].key
      BY DEF RowOf
    <2>3. QED
      BY <1>2, <2>1, <2>2
  <1>3. QED
    BY <1>1, <1>2

LEMMA ProcessKeeps ==
    ASSUME FormsInv, NEW r \in DOMAIN requests, F!Process(r)
    PROVE  FormsInv'
  <1>1. PICK ok \in BOOLEAN :
          /\ F!Handle(r, ok)
          /\ requests' = [requests EXCEPT ![r].stage = IF ok THEN "ok" ELSE "error"]
    BY DEF F!Process
  <1>2. PICK x : x = IF ok THEN "ok" ELSE "error"
    OBVIOUS
  <1>3. r \in 1..Len(requests) /\ requests[r].stage = "sent"
    BY DEF F!Process, FormsInv, F!TypeOK
  <1>4. Restaged(r, x)
    BY <1>1, <1>2, <1>3 DEF Restaged, F!Stages
  <1>5. F!Unanswered(r)
    BY <1>3 DEF F!Unanswered
  <1>6. UNCHANGED <<form, mount, key, keys, typed, clicks, disabled, done>>
    BY DEF F!Process
  <1>7. x = "ok" => ok
    BY <1>2
  <1>8. QED
    BY <1>1, <1>4, <1>5, <1>6, <1>7, HandleInserts, RestagedKeeps

LEMMA LossKeeps ==
    ASSUME FormsInv, NEW r \in DOMAIN requests,
           F!Break(r) \/ F!ProcessAbandoned(r) \/ F!HearError(r)
    PROVE  FormsInv'
  <1>1. r \in 1..Len(requests)
    BY DEF FormsInv, F!TypeOK
  <1>2. \E x \in {"abandoned", "heard"} : Restaged(r, x)
    <2>1. CASE F!Break(r)
      BY <1>1, <2>1 DEF F!Break, Restaged, F!Stages
    <2>2. CASE F!ProcessAbandoned(r)
      BY <1>1, <2>2 DEF F!ProcessAbandoned, Restaged, F!Stages
    <2>3. CASE F!HearError(r)
      BY <1>1, <2>3 DEF F!HearError, Restaged, F!Stages
    <2>4. QED
      BY <2>1, <2>2, <2>3
  <1>3. PICK x \in {"abandoned", "heard"} : Restaged(r, x)
    BY <1>2
  <1>4. \/ recorded' = recorded
        \/ F!Under(requests[r].key) = {} /\ recorded' = recorded \cup {RowOf(r)}
    BY HandleInserts DEF F!Break, F!ProcessAbandoned, F!HearError
  <1>5. UNCHANGED <<form, mount, key, keys, typed, clicks, disabled, done>>
    BY DEF F!Break, F!ProcessAbandoned, F!HearError
  <1>6. ~Waiting(x) /\ x # "ok"
    BY <1>3 DEF Waiting
  <1>7. QED
    BY <1>3, <1>4, <1>5, <1>6, RestagedKeeps

(* A page that is mounted waits for nothing: all requests are of mounts    *)
(* before it, and its key is new.                                          *)
LEMMA MountKeeps ==
    ASSUME FormsInv, F!Mount, Keyed,
           UNCHANGED <<form, recorded>>, done \subseteq done', done' \subseteq Intents,
           F!DoneIsRecorded',
           requests' \in Seq(F!Request), Len(requests') = Len(requests),
           \A s \in 1..Len(requests) :
             /\ requests'[s].key = requests[s].key
             /\ requests'[s].intent = requests[s].intent
             /\ requests'[s].page = requests[s].page
             /\ requests'[s].stage \in {requests[s].stage, "heard"}
    PROVE  FormsInv'
  <1> DEFINE n == Len(requests)
  <1>1. /\ mount' = mount + 1 /\ key' = keys + 1 /\ keys' = keys + 1
        /\ typed' = F!Empty /\ clicks' = 0 /\ disabled' = FALSE
    BY DEF F!Mount
  <1>2. mount \in Nat /\ keys \in Nat
    BY FormShape DEF FormsInv
  <1>3. \A s \in 1..n :
          /\ requests[s].key \in Nat /\ requests[s].page \in Nat
          /\ requests[s].key <= keys /\ requests[s].page <= mount
          /\ requests[s].stage = "ok" => \E w \in recorded : w.key = requests[s].key
    BY RequestShape DEF FormsInv, KeysFit
  <1>4. \A s \in 1..n :
          /\ requests[s].key <= keys' /\ requests[s].key # key'
          /\ requests[s].page <= mount' /\ requests[s].page # mount'
    BY <1>1, <1>2, <1>3
  <1>5. F!TypeOK'
    <2>1. clicks' \in 0..MaxClicks
      BY <1>1, FormConstants
    <2>2. disabled' \in BOOLEAN /\ typed' \in F!Form
      BY <1>1, EmptyForm
    <2>3. mount' \in Nat /\ key' \in Nat /\ keys' \in Nat
      BY <1>1, <1>2
    <2>4. form' \in {"movement", "settlement", "receipt"}
            /\ recorded' \subseteq F!Row /\ \A a, b \in recorded' : a.key = b.key => a = b
      BY FormShape DEF FormsInv
    <2>5. QED
      BY <2>1, <2>2, <2>3, <2>4 DEF F!TypeOK
  <1>6. KeysFit'
    BY <1>3, <1>4 DEF KeysFit, Keyed
  <1>7. KeysAreEvents' /\ RowsWereSent'
    BY DEF FormsInv, KeysAreEvents, RowsWereSent, Keyed
  <1>8. OneAtATime'
    BY <1>4 DEF OneAtATime, Waits
  <1>9. QED
    BY <1>1, <1>2, <1>5, <1>6, <1>7, <1>8 DEF FormsInv

LEMMA LeaveKeeps ==
    ASSUME FormsInv, F!Leave
    PROVE  FormsInv'
  <1>1. UNCHANGED <<form, requests, recorded, done>>
    BY DEF F!Leave
  <1>2. CASE form = "movement"
    <2>1. typed' = F!Empty /\ UNCHANGED <<mount, key, keys, clicks, disabled>>
      BY <1>2 DEF F!Leave
    <2>2. clicks' \in 0..MaxClicks /\ disabled' \in BOOLEAN
      BY <2>1, FormShape DEF FormsInv
    <2>3. QED
      BY <1>1, <1>2, <2>1, <2>2, EmptyForm, TypingKeeps DEF Keyed
  <1>3. CASE form # "movement"
    <2>1. F!Mount
      BY <1>3 DEF F!Leave
    <2>2. /\ requests \in Seq(F!Request) /\ done \subseteq Intents
          /\ F!DoneIsRecorded'
      BY <1>1, FormShape DEF FormsInv, F!DoneIsRecorded
    <2>3. QED
      BY <1>1, <1>3, <2>1, <2>2, MountKeeps DEF Keyed
  <1>4. QED
    BY <1>2, <1>3

(* What is heard of a success is recorded.                                 *)
LEMMA HeardIsRecorded ==
    ASSUME FormsInv, NEW r \in DOMAIN requests, F!HearSuccess(r)
    PROVE  F!DoneIsRecorded'
  <1>1. /\ r \in 1..Len(requests) /\ requests[r].stage = "ok"
        /\ done' = done \cup {requests[r].intent} /\ recorded' = recorded
    BY DEF FormsInv, F!TypeOK, F!HearSuccess
  <1>2. PICK w \in recorded : w.key = requests[r].key
    BY <1>1 DEF FormsInv, KeysFit
  <1>3. PICK s \in 1..Len(requests) : requests[s].key = w.key /\ requests[s].intent = w.intent
    BY DEF FormsInv, RowsWereSent
  <1>4. w.intent = requests[r].intent
    BY <1>1, <1>2, <1>3 DEF FormsInv, KeysAreEvents
  <1>5. \A i \in done : \E v \in recorded : v.intent = i
    BY DEF FormsInv, F!DoneIsRecorded
  <1>6. QED
    BY <1>1, <1>4, <1>5 DEF F!DoneIsRecorded

(* A success empties a movement's dialog, and leaves the page of a receipt. *)
(* It empties the settlement page that sent it, and renews its key; the    *)
(* success of a page that was left changes nothing on the page now open.   *)
LEMMA SuccessKeeps ==
    ASSUME FormsInv, NEW r \in DOMAIN requests, F!HearSuccess(r)
    PROVE  FormsInv'
  <1> DEFINE n == Len(requests)
  <1>1. r \in 1..n /\ requests[r].stage = "ok"
    BY DEF FormsInv, F!TypeOK, F!HearSuccess
  <1>2. /\ requests' = [requests EXCEPT ![r].stage = "heard"]
        /\ done' = done \cup {requests[r].intent}
        /\ UNCHANGED <<form, recorded>>
        /\ F!AfterSuccess(r)
    BY DEF F!HearSuccess
  <1>3. Restaged(r, "heard")
    BY <1>1, <1>2 DEF Restaged, F!Stages
  <1>4. /\ requests' \in Seq(F!Request) /\ Len(requests') = n
        /\ \A s \in 1..n :
             /\ requests'[s].key = requests[s].key
             /\ requests'[s].intent = requests[s].intent
             /\ requests'[s].page = requests[s].page
             /\ requests'[s].stage = IF s = r THEN "heard" ELSE requests[s].stage
    BY <1>3, RestagedShape DEF FormsInv
  <1>5. /\ form \in {"movement", "settlement", "receipt"} /\ typed \in F!Form
        /\ mount \in Nat /\ key \in Nat /\ keys \in Nat
        /\ disabled \in BOOLEAN /\ clicks \in 0..MaxClicks /\ n \in Nat
        /\ recorded \subseteq F!Row /\ \A a, b \in recorded : a.key = b.key => a = b
        /\ key <= keys /\ (Keyed => keys = key)
    BY FormShape DEF FormsInv
  <1>6. done \subseteq done' /\ done' \subseteq Intents /\ requests[r].intent \in done'
    BY <1>1, <1>2, FormShape, RequestShape DEF FormsInv
  <1>7. ASSUME NEW s \in 1..n
        PROVE  /\ requests[s].key \in Nat /\ requests[s].page \in Nat
               /\ requests[s].intent \in Intents
               /\ requests[s].key <= keys /\ requests[s].page <= mount
               /\ requests[s].stage = "ok" => \E w \in recorded : w.key = requests[s].key
               /\ Keyed /\ requests[s].key = key =>
                    requests[s].page = mount /\ requests[s].intent = typed.intent
               /\ Keyed /\ requests[s].page = mount /\ requests[s].key # key =>
                    /\ form = "settlement"
                    /\ requests[s].intent \in done /\ requests[s].intent # typed.intent
    BY RequestShape DEF FormsInv, KeysFit
  <1>8. F!DoneIsRecorded'
    BY HeardIsRecorded
  <1>9. KeysAreEvents' /\ RowsWereSent'
    BY <1>2, <1>4 DEF FormsInv, KeysAreEvents, RowsWereSent, Keyed
  <1>10. CASE form = "receipt"
    <2>1. F!Mount
      BY <1>2, <1>10 DEF F!AfterSuccess
    <2>2. QED
      BY <1>2, <1>4, <1>6, <1>8, <1>10, <2>1, MountKeeps DEF Keyed
  <1> HIDE DEF n
  <1>11. CASE form # "receipt"
    <2>1. /\ UNCHANGED <<mount, clicks, disabled>>
          /\ \/ form = "movement" /\ typed' = F!Empty /\ UNCHANGED <<key, keys>>
             \/ /\ form = "settlement" /\ requests[r].page = mount
                /\ typed' = F!Empty /\ key' = keys + 1 /\ keys' = keys + 1
             \/ /\ form = "settlement" /\ requests[r].page # mount
                /\ UNCHANGED <<typed, key, keys>>
      <3>1. CASE form = "movement"
        BY <1>2, <3>1 DEF F!AfterSuccess
      <3>2. CASE form = "settlement" /\ requests[r].page = mount
        BY <1>2, <3>2 DEF F!AfterSuccess
      <3>3. CASE form = "settlement" /\ requests[r].page # mount
        BY <1>2, <3>3 DEF F!AfterSuccess
      <3>4. QED
        BY <1>5, <1>11, <3>1, <3>2, <3>3
    <2>2. form = "settlement" =>
            /\ \A s \in 1..n :
                 Waiting(requests[s].stage) /\ requests[s].page = mount =>
                   s = n /\ requests[s].key = key
            /\ ~disabled /\ clicks = 0 =>
                 \A s \in 1..n : ~(Waiting(requests[s].stage) /\ requests[s].page = mount)
      BY DEF FormsInv, OneAtATime, Waits, n
    <2>3. /\ key' \in Nat /\ keys' \in Nat /\ keys <= keys' /\ key' <= keys'
          /\ (Keyed => keys' = key') /\ typed' \in F!Form
      BY <1>5, <2>1, EmptyForm DEF Keyed
    <2>4. F!TypeOK'
      BY <1>2, <1>4, <1>5, <1>6, <2>1, <2>3 DEF F!TypeOK
    <2>5. KeysFit'
      <3>1. SUFFICES ASSUME NEW s \in 1..n
                     PROVE  /\ requests[s].key <= keys' /\ requests[s].page <= mount
                            /\ requests'[s].stage = "ok" =>
                                 \E w \in recorded : w.key = requests[s].key
                            /\ Keyed /\ requests[s].key = key' =>
                                 requests[s].page = mount /\ requests[s].intent = typed'.intent
                            /\ Keyed /\ requests[s].page = mount /\ requests[s].key # key' =>
                                 /\ form = "settlement"
                                 /\ requests[s].intent \in done'
                                 /\ requests[s].intent # typed'.intent
        BY <1>2, <1>4, <2>1 DEF KeysFit, Keyed
      <3>2. requests'[s].stage = "ok" => \E w \in recorded : w.key = requests[s].key
        BY <1>4, <1>7
      <3>3. requests[s].key <= keys' /\ requests[s].page <= mount
        BY <1>5, <1>7, <2>3
      <3>4. CASE form = "settlement" /\ requests[r].page = mount
                 /\ typed' = F!Empty /\ key' = keys + 1
        <4>1. requests[s].key # key' /\ requests[s].intent # typed'.intent
          BY <1>5, <1>7, <3>4, EmptyForm, FormConstants
        <4>2. requests[r].key = key /\ requests[r].intent = typed.intent
          BY <1>1, <1>7, <2>2, <3>4 DEF Waiting, Keyed
        <4>3. requests[s].page = mount => requests[s].intent \in done'
          BY <1>6, <1>7, <3>4, <4>2 DEF Keyed
        <4>4. QED
          BY <3>2, <3>3, <3>4, <4>1, <4>3
      <3>5. CASE form = "movement"
        BY <3>2, <3>3, <3>5 DEF Keyed
      <3>6. CASE UNCHANGED <<typed, key, keys>>
        BY <1>6, <1>7, <3>2, <3>3, <3>6
      <3>7. QED
        BY <2>1, <3>4, <3>5, <3>6
    <2>6. OneAtATime'
      <3> SUFFICES ASSUME form = "settlement" PROVE OneAtATime'
        BY <1>2 DEF OneAtATime
      <3>1. \A s \in 1..n :
              /\ Waiting(requests'[s].stage) => Waiting(requests[s].stage) /\ s # r
              /\ requests'[s].key = requests[s].key /\ requests'[s].page = requests[s].page
        BY <1>4 DEF Waiting
      <3>2. CASE requests[r].page = mount
        <4>1. r = n
          BY <1>1, <2>2, <3>2 DEF Waiting
        <4>2. \A s \in 1..n : ~(Waiting(requests'[s].stage) /\ requests'[s].page = mount)
          BY <2>2, <3>1, <4>1
        <4>3. QED
          BY <1>4, <2>1, <4>2 DEF OneAtATime, Waits
      <3>3. CASE requests[r].page # mount
        <4>1. key' = key
          BY <2>1, <3>3
        <4>2. QED
          BY <1>4, <2>1, <2>2, <3>1, <4>1 DEF OneAtATime, Waits
      <3>4. QED
        BY <3>2, <3>3
    <2>7. QED
      BY <1>2, <1>8, <1>9, <2>3, <2>4, <2>5, <2>6 DEF FormsInv, Keyed
  <1>12. QED
    BY <1>10, <1>11

LEMMA FormsStep ==
    ASSUME FormsInv, F!Next, form' = "settlement" => clicks' <= 1
    PROVE  FormsInv'
  <1>1. CASE \E i \in Intents, c \in Contents : F!Type(i, c)
    BY <1>1, TypingKeeps DEF F!Type, F!Form, FormsInv, F!TypeOK
  <1>2. CASE \E c \in Contents : F!Correct(c)
    <2>1. PICK c \in Contents : F!Correct(c)
      BY <1>2
    <2>2. typed' \in F!Form /\ typed'.intent = typed.intent
      BY <2>1 DEF F!Correct, F!Form, FormsInv, F!TypeOK
    <2>3. QED
      BY <2>1, <2>2, TypingKeeps DEF F!Correct, FormsInv, F!TypeOK
  <1>3. CASE F!Submit
    BY <1>3, SubmitKeeps DEF F!Submit
  <1>4. CASE F!Redraw
    <2>1. F!IsPending \in BOOLEAN /\ 0 \in 0..MaxClicks
      BY FormConstants DEF F!IsPending, F!Unanswered
    <2>2. QED
      BY <1>4, <2>1, TypingKeeps DEF F!Redraw, FormsInv, F!TypeOK
  <1>5. CASE F!Leave
    BY <1>5, LeaveKeeps
  <1>6. CASE \E r \in DOMAIN requests :
                F!Process(r) \/ F!Break(r) \/ F!ProcessAbandoned(r) \/ F!HearError(r)
                  \/ F!HearSuccess(r)
    BY <1>6, ProcessKeeps, LossKeeps, SuccessKeeps
  <1>7. QED
    BY <1>1, <1>2, <1>3, <1>4, <1>5, <1>6 DEF F!Next

LEMMA FormsRest == FormsInv /\ UNCHANGED formVars => FormsInv'
  BY DEF FormsInv, formVars, F!TypeOK, Keyed, KeysFit, KeysAreEvents, RowsWereSent, OneAtATime,
         Waits, F!DoneIsRecorded

LEMMA EventsAreRecordedOnce == FormsInv => FormsRecordOnce
  <1> SUFFICES ASSUME FormsInv, Keyed, NEW a \in recorded, NEW b \in recorded,
                      a.intent = b.intent, a.page = b.page
               PROVE  a = b
    BY DEF FormsRecordOnce, F!RecordedOnce, FormsInv, Keyed
  <1>1. PICK r \in 1..Len(requests) :
          requests[r].key = a.key /\ requests[r].intent = a.intent /\ requests[r].page = a.page
    BY DEF FormsInv, RowsWereSent
  <1>2. PICK s \in 1..Len(requests) :
          requests[s].key = b.key /\ requests[s].intent = b.intent /\ requests[s].page = b.page
    BY DEF FormsInv, RowsWereSent
  <1>3. a.key = b.key
    BY <1>1, <1>2 DEF FormsInv, KeysAreEvents
  <1>4. QED
    BY <1>3 DEF FormsInv, F!TypeOK

-----------------------------------------------------------------------------
(* Listings: what is drawn answers what is typed.                          *)

(* A page that asks at once asks for what is on the screen.                *)
AsksAtOnce == ~shape.delays => asked = filter

(* Unless the old pager stays on the screen, a page beyond the first was   *)
(* asked for because there were rows on it; none were taken away since.    *)
Reached(q) == q[2] <= 1 \/ q[2] <= rows[q[1]]
Answer(q, n) == n <= rows[q[1]] /\ (q[2] <= 1 \/ q[2] <= n)
PagesHaveRows ==
    ~shape.delays /\ ~shape.keeps /\ ~shrunk =>
        /\ Reached(<<asked, page>>)
        /\ \A q \in L!Queries :
             /\ cache[q] # L!NoData => Answer(q, cache[q])
             /\ fetches[q] = L!Sent => Reached(q)
             /\ fetches[q] \in 0..MaxRows => Answer(q, fetches[q])

ListingInv == L!TypeOK /\ AsksAtOnce /\ PagesHaveRows

(* What the constants of Listings are, and the signs in place of a total.  *)
LEMMA ListConstants ==
    /\ MaxRows \in Nat /\ MaxMoves \in Nat /\ MaxChanges \in Nat
    /\ L!NoData \notin 0..MaxRows /\ L!Idle \notin 0..MaxRows /\ L!Sent \notin 0..MaxRows
    /\ L!Refused \notin 0..MaxRows /\ L!Sent # L!Idle /\ L!Refused # L!Idle
    /\ L!Refused # L!Sent /\ L!NoData = MaxRows + 1
  <1>1. MaxRows \in Nat /\ MaxMoves \in Nat /\ MaxChanges \in Nat
    BY WebAssumption DEF L!ListingsAssumption
  <1>2. QED
    BY <1>1 DEF L!NoData, L!Idle, L!Sent, L!Refused

(* A page whose rows do not stay is that of a list.                        *)
LEMMA ListShapes ==
    ASSUME NEW s \in L!ListPages
    PROVE  s.delays \in BOOLEAN /\ s.keeps \in BOOLEAN /\ s.reports \in BOOLEAN
           /\ (~s.keeps => ~s.reports)
  <1>1. s \in {L!Shape(TRUE, FALSE, FALSE), L!Shape(FALSE, FALSE, FALSE),
               L!Shape(FALSE, TRUE, FALSE), L!Shape(TRUE, TRUE, TRUE)}
    BY DEF L!ListPages, L!UsersPage, L!CustomersPage, L!SuppliersPage, L!ProductsPage,
           L!CatalogPage, L!WarehousesPage, L!StockLocationsPage, L!InventoryPage,
           L!InventoryCountsPage, L!InventoryMovementsPage, L!StockReservationsPage,
           L!SalesOrdersPage, L!PurchaseOrdersPage, L!PurchaseReceiptsPage,
           L!FinancialEntriesPage, L!ReportPage
  <1>2. \A d, k, r \in BOOLEAN :
          /\ L!Shape(d, k, r).delays = d /\ L!Shape(d, k, r).keeps = k
          /\ L!Shape(d, k, r).reports = r
    BY Zenon DEF L!Shape
  <1>3. CASE s = L!Shape(TRUE, FALSE, FALSE)
    BY <1>2, <1>3, Zenon
  <1>4. CASE s = L!Shape(FALSE, FALSE, FALSE)
    BY <1>2, <1>4, Zenon
  <1>5. CASE s = L!Shape(FALSE, TRUE, FALSE)
    BY <1>2, <1>5, Zenon
  <1>6. CASE s = L!Shape(TRUE, TRUE, TRUE)
    BY <1>2, <1>6, Zenon
  <1>7. QED
    BY <1>1, <1>3, <1>4, <1>5, <1>6

LEMMA QueryShape ==
    ASSUME NEW f \in Filters, NEW p \in L!Pages
    PROVE  /\ <<f, p>> \in L!Queries /\ <<f, p>>[1] = f /\ <<f, p>>[2] = p
           /\ <<f, p>> # L!NoQuery
  BY DEF L!Queries, L!NoQuery

LEMMA QueryParts ==
    ASSUME NEW q \in L!Queries
    PROVE  q[1] \in Filters /\ q[2] \in L!Pages /\ q = <<q[1], q[2]>> /\ q # L!NoQuery
  BY DEF L!Queries, L!NoQuery

LEMMA ListingsInit == L!Init => ListingInv
  <1> SUFFICES ASSUME L!Init PROVE ListingInv
    OBVIOUS
  <1>1. /\ shape \in L!ListPages /\ rows \in [Filters -> 0..MaxRows]
        /\ filter \in Filters /\ asked = filter /\ page = 1
        /\ cache = [q \in L!Queries |-> L!NoData] /\ failed = {}
        /\ fetches = [q \in L!Queries |-> IF q = <<asked, 1>> THEN L!Sent ELSE L!Idle]
        /\ held = L!NoQuery /\ moves = 0 /\ changes = 0 /\ shrunk = FALSE
    BY DEF L!Init
  <1>2. 1 \in L!Pages /\ L!NoData \in 0..L!NoData
    BY ListConstants DEF L!Pages
  <1>3. fetches \in [L!Queries -> (0..MaxRows) \cup {L!Idle, L!Sent, L!Refused}]
    BY <1>1
  <1>4. cache \in [L!Queries -> 0..L!NoData]
    BY <1>1, <1>2
  <1>5. 0 \in 0..MaxMoves /\ 0 \in 0..MaxChanges
    BY ListConstants
  <1>6. L!TypeOK
    BY <1>1, <1>2, <1>3, <1>4, <1>5 DEF L!TypeOK
  <1>7. PagesHaveRows
    <2>1. Reached(<<asked, page>>)
      BY <1>1 DEF Reached
    <2>2. ASSUME NEW q \in L!Queries
          PROVE  /\ cache[q] = L!NoData
                 /\ fetches[q] = L!Sent => Reached(q)
                 /\ fetches[q] \notin 0..MaxRows
      <3>1. cache[q] = L!NoData
        BY <1>1
      <3>2. fetches[q] = IF q = <<asked, 1>> THEN L!Sent ELSE L!Idle
        BY <1>1
      <3>3. q = <<asked, 1>> => Reached(q)
        BY DEF Reached
      <3>4. QED
        BY <3>1, <3>2, <3>3, ListConstants
    <2>3. QED
      BY <2>1, <2>2 DEF PagesHaveRows
  <1>8. QED
    BY <1>1, <1>6, <1>7 DEF ListingInv, AsksAtOnce

(* What a page says answers what is on the screen.                         *)
LEMMA ListsAreAnswered == ListingInv => ListsAnswer
  <1> SUFFICES ASSUME ListingInv PROVE ListsAnswer
    OBVIOUS
  <1>1. /\ asked \in Filters /\ page \in L!Pages /\ L!Query = <<asked, page>>
        /\ L!Query \in L!Queries /\ L!Query[1] = asked /\ L!Query[2] = page
    BY QueryShape DEF ListingInv, L!TypeOK, L!Query
  <1>2. L!TableAnswersFilter
    <2>1. SUFFICES ASSUME L!Source # L!NoQuery, ~(shape.delays /\ asked # filter),
                          ~(shape.keeps /\ L!Source # L!Query)
                   PROVE  L!Source[1] = filter
      BY DEF L!TableAnswersFilter, L!ShowsTable, L!ShowsAnswer
    <2>2. L!Source = L!Query
      BY <2>1 DEF L!Source
    <2>3. QED
      BY <1>1, <2>1, <2>2 DEF ListingInv, AsksAtOnce
  <1>3. L!NothingFoundIsTrue
    <2>1. SUFFICES ASSUME L!Source # L!NoQuery, ~L!HasRows(L!Source),
                          ~shape.delays, ~shape.keeps, ~shrunk
                   PROVE  cache[L!Source] = 0
      BY DEF L!NothingFoundIsTrue, L!ShowsEmpty, L!ShowsAnswer
    <2>2. L!Source = L!Query /\ cache[L!Query] # L!NoData
      BY <2>1 DEF L!Source
    <2>3. cache[L!Query] \in Nat /\ page \in Nat
      BY <1>1, ListConstants DEF ListingInv, L!TypeOK, L!Pages
    <2>4. page <= 1 \/ page <= cache[L!Query]
      BY <1>1, <2>1, <2>2 DEF ListingInv, PagesHaveRows, Answer
    <2>5. ~(page <= cache[L!Query])
      BY <1>1, <2>1, <2>2 DEF L!HasRows
    <2>6. QED
      BY <2>2, <2>3, <2>4, <2>5
  <1>4. QED
    BY <1>2, <1>3 DEF ListsAnswer

(* A query that is observed is fetched, or not.                            *)
LEMMA ObserveShape ==
    ASSUME L!TypeOK, NEW q \in L!Queries, L!Observe(q)
    PROVE  /\ fetches' \in [L!Queries -> (0..MaxRows) \cup {L!Idle, L!Sent, L!Refused}]
           /\ \A x \in L!Queries : fetches'[x] = fetches[x] \/ (x = q /\ fetches'[x] = L!Sent)
           /\ failed' \subseteq L!Queries
           /\ held' # L!NoQuery => held' \in L!Queries /\ cache[held'] # L!NoData
  <1>1. /\ fetches \in [L!Queries -> (0..MaxRows) \cup {L!Idle, L!Sent, L!Refused}]
        /\ failed \subseteq L!Queries
        /\ held # L!NoQuery => held \in L!Queries /\ cache[held] # L!NoData
    BY DEF L!TypeOK
  <1>2. /\ fetches' = [fetches EXCEPT ![q] = IF @ = L!Idle THEN L!Sent ELSE @]
           \/ fetches' = fetches
        /\ failed' = failed \/ failed' = failed \ {q}
        /\ (held' = q /\ cache[q] # L!NoData) \/ held' = held
    BY DEF L!Observe
  <1>3. QED
    BY <1>1, <1>2

(* The page turns to another query.                                        *)
LEMMA MovingKeeps ==
    ASSUME ListingInv, filter' \in Filters, asked' \in Filters, page' \in L!Pages,
           moves' \in 0..MaxMoves, L!Observe(<<asked', page'>>),
           UNCHANGED <<shape, rows, cache, changes, shrunk>>,
           ~shape.delays => asked' = filter',
           ~shape.delays /\ ~shape.keeps /\ ~shrunk => Reached(<<asked', page'>>)
    PROVE  ListingInv'
  <1>1. <<asked', page'>> \in L!Queries
    BY QueryShape
  <1>2. /\ fetches' \in [L!Queries -> (0..MaxRows) \cup {L!Idle, L!Sent, L!Refused}]
        /\ \A x \in L!Queries :
             fetches'[x] = fetches[x] \/ (x = <<asked', page'>> /\ fetches'[x] = L!Sent)
        /\ failed' \subseteq L!Queries
        /\ held' # L!NoQuery => held' \in L!Queries /\ cache[held'] # L!NoData
    BY <1>1, ObserveShape DEF ListingInv
  <1>3. L!TypeOK'
    BY <1>2 DEF ListingInv, L!TypeOK
  <1>4. AsksAtOnce'
    BY DEF AsksAtOnce
  <1>5. PagesHaveRows'
    <2> SUFFICES ASSUME ~shape.delays, ~shape.keeps, ~shrunk PROVE PagesHaveRows'
      BY DEF PagesHaveRows
    <2>1. Reached(<<asked, page>>)'
      BY DEF Reached
    <2>2. ASSUME NEW q \in L!Queries
          PROVE  /\ cache[q] # L!NoData => Answer(q, cache[q])
                 /\ fetches'[q] = L!Sent => Reached(q)
                 /\ fetches'[q] \in 0..MaxRows => Answer(q, fetches'[q])
      <3>1. /\ cache[q] # L!NoData => Answer(q, cache[q])
            /\ fetches[q] = L!Sent => Reached(q)
            /\ fetches[q] \in 0..MaxRows => Answer(q, fetches[q])
        BY DEF ListingInv, PagesHaveRows
      <3>2. CASE fetches'[q] = fetches[q]
        BY <3>1, <3>2
      <3>3. CASE q = <<asked', page'>> /\ fetches'[q] = L!Sent
        BY <3>1, <3>3, ListConstants
      <3>4. QED
        BY <1>2, <3>2, <3>3
    <2>3. QED
      BY <2>1, <2>2 DEF PagesHaveRows, Answer, Reached
  <1>6. QED
    BY <1>3, <1>4, <1>5 DEF ListingInv

LEMMA TypingAsks ==
    ASSUME ListingInv, NEW f \in Filters, L!Type(f) \/ L!Pause
    PROVE  ListingInv'
  <1>1. shape \in L!ListPages /\ shape.delays \in BOOLEAN
    BY ListShapes DEF ListingInv, L!TypeOK
  <1>2. CASE L!Type(f)
    <2>1. 1 \in L!Pages /\ moves' \in 0..MaxMoves
      BY <1>2, ListConstants DEF L!Type, L!Move, L!Pages, ListingInv, L!TypeOK
    <2>2. /\ filter' = f /\ page' = 1 /\ asked' = IF shape.delays THEN asked ELSE f
          /\ L!Observe(<<asked', page'>>) /\ UNCHANGED <<shape, rows, cache, changes, shrunk>>
      BY <1>2 DEF L!Type
    <2>3. asked' \in Filters
      BY <2>2 DEF ListingInv, L!TypeOK
    <2>4. Reached(<<asked', page'>>)
      BY <2>2 DEF Reached
    <2>5. QED
      BY <1>1, <2>1, <2>2, <2>3, <2>4, MovingKeeps
  <1>3. CASE L!Pause
    <2>1. /\ asked # filter /\ asked' = filter /\ page' = page /\ filter' = filter
          /\ moves' = moves /\ L!Observe(<<filter, page>>)
          /\ UNCHANGED <<shape, rows, cache, changes, shrunk>>
      BY <1>3 DEF L!Pause
    <2>2. filter \in Filters /\ page \in L!Pages /\ moves \in 0..MaxMoves
      BY DEF ListingInv, L!TypeOK
    <2>3. shape.delays
      BY <2>1 DEF ListingInv, AsksAtOnce
    <2>4. L!Observe(<<asked', page'>>)
      BY <2>1
    <2>5. QED
      BY <2>1, <2>2, <2>3, <2>4, MovingKeeps
  <1>4. QED
    BY <1>2, <1>3

(* A pager that counts from the answer goes on only where rows are.        *)
LEMMA TurningReaches ==
    ASSUME ListingInv, L!NextPage \/ L!PreviousPage
    PROVE  ListingInv'
  <1>1. PICK to : /\ L!Turn(to) /\ L!ShowsPager
                  /\ \/ L!Source[2] < cache[L!Source] /\ to = L!Counted + 1
                     \/ L!Source[2] > 1 /\ L!Counted > 0 /\ to = L!Counted - 1
    BY DEF L!NextPage, L!PreviousPage
  <1>2. /\ to \in L!Pages /\ page' = to /\ asked' = asked /\ filter' = filter
        /\ L!Observe(<<asked, to>>) /\ L!Move
        /\ UNCHANGED <<shape, rows, cache, changes, shrunk>>
    BY <1>1 DEF L!Turn
  <1>3. moves' \in 0..MaxMoves
    BY <1>2, ListConstants DEF L!Move, ListingInv, L!TypeOK
  <1>4. L!Observe(<<asked', page'>>)
    BY <1>2
  <1>5. ASSUME ~shape.delays, ~shape.keeps, ~shrunk
        PROVE  Reached(<<asked', page'>>)
    <2>1. ~shape.reports
      BY <1>5, ListShapes DEF ListingInv, L!TypeOK
    <2>2. L!Source # L!NoQuery
      BY <1>1 DEF L!ShowsPager, L!ShowsAnswer
    <2>3. L!Source = L!Query /\ cache[L!Query] # L!NoData
      BY <1>5, <2>2 DEF L!Source
    <2>4. /\ asked \in Filters /\ page \in L!Pages /\ L!Query = <<asked, page>>
          /\ L!Query \in L!Queries /\ L!Query[1] = asked /\ L!Query[2] = page
      BY QueryShape DEF ListingInv, L!TypeOK, L!Query
    <2>5. L!Counted = page
      BY <2>1, <2>3, <2>4 DEF L!Counted
    <2>6. Answer(L!Query, cache[L!Query]) /\ Reached(L!Query)
      BY <1>5, <2>3, <2>4 DEF ListingInv, PagesHaveRows
    <2>7. cache[L!Query] \in Nat /\ page \in Nat /\ rows[asked] \in Nat
      BY <2>4, ListConstants DEF ListingInv, L!TypeOK, L!Pages
    <2>8. cache[L!Query] <= rows[asked] /\ (page <= 1 \/ page <= rows[asked])
      BY <2>4, <2>6 DEF Answer, Reached
    <2>9. to <= 1 \/ to <= rows[asked]
      BY <1>1, <2>3, <2>4, <2>5, <2>7, <2>8
    <2>10. QED
      BY <1>2, <2>9 DEF Reached
  <1>6. ~shape.delays => asked' = filter'
    BY <1>2 DEF ListingInv, AsksAtOnce
  <1>7. asked' \in Filters /\ filter' \in Filters /\ page' \in L!Pages
    BY <1>2 DEF ListingInv, L!TypeOK
  <1>8. QED
    BY <1>2, <1>3, <1>4, <1>5, <1>6, <1>7, MovingKeeps

(* An error is tried again: the query of the page.                         *)
LEMMA RetryAsks == ListingInv /\ L!Retry => ListingInv'
  <1> SUFFICES ASSUME ListingInv, L!Retry PROVE ListingInv'
    OBVIOUS
  <1>1. /\ fetches' = [fetches EXCEPT ![L!Query] = L!Sent]
        /\ failed' = failed \/ failed' = failed \ {L!Query}
        /\ UNCHANGED <<shape, rows, filter, asked, page, cache, held, moves, changes, shrunk>>
    BY DEF L!Retry
  <1>2. L!Query \in L!Queries /\ L!Query = <<asked, page>>
    BY QueryShape DEF ListingInv, L!TypeOK, L!Query
  <1>3. /\ fetches' \in [L!Queries -> (0..MaxRows) \cup {L!Idle, L!Sent, L!Refused}]
        /\ \A q \in L!Queries :
             fetches'[q] = IF q = <<asked, page>> THEN L!Sent ELSE fetches[q]
    BY <1>1, <1>2 DEF ListingInv, L!TypeOK
  <1>4. L!TypeOK'
    BY <1>1, <1>3 DEF ListingInv, L!TypeOK
  <1>5. PagesHaveRows'
    BY <1>1, <1>3, ListConstants DEF ListingInv, PagesHaveRows, Answer, Reached
  <1>6. QED
    BY <1>1, <1>4, <1>5 DEF ListingInv, AsksAtOnce

(* The API answers with the rows there are.                                *)
LEMMA ServeAnswers ==
    ASSUME ListingInv, NEW q \in L!Queries, L!Serve(q)
    PROVE  ListingInv'
  <1>1. /\ fetches[q] = L!Sent
        /\ fetches' = [fetches EXCEPT ![q] = IF q[2] = 0 THEN L!Refused ELSE rows[q[1]]]
        /\ UNCHANGED <<shape, rows, filter, asked, page, cache, failed, held, moves, changes,
                       shrunk>>
    BY DEF L!Serve
  <1>2. rows[q[1]] \in 0..MaxRows
    BY QueryParts DEF ListingInv, L!TypeOK
  <1>3. /\ fetches' \in [L!Queries -> (0..MaxRows) \cup {L!Idle, L!Sent, L!Refused}]
        /\ \A x \in L!Queries :
             fetches'[x] = IF x = q THEN (IF q[2] = 0 THEN L!Refused ELSE rows[q[1]])
                             ELSE fetches[x]
    BY <1>1, <1>2 DEF ListingInv, L!TypeOK
  <1>4. L!TypeOK'
    BY <1>1, <1>3 DEF ListingInv, L!TypeOK
  <1>5. PagesHaveRows'
    <2> SUFFICES ASSUME ~shape.delays, ~shape.keeps, ~shrunk PROVE PagesHaveRows'
      BY <1>1 DEF PagesHaveRows
    <2>1. ASSUME NEW x \in L!Queries
          PROVE  /\ cache[x] # L!NoData => Answer(x, cache[x])
                 /\ fetches[x] = L!Sent => Reached(x)
                 /\ fetches[x] \in 0..MaxRows => Answer(x, fetches[x])
      BY DEF ListingInv, PagesHaveRows
    <2>2. Answer(q, rows[q[1]])
      BY <1>1, <1>2, <2>1, ListConstants DEF Answer, Reached
    <2>3. ASSUME NEW x \in L!Queries
          PROVE  /\ fetches'[x] = L!Sent => Reached(x)
                 /\ fetches'[x] \in 0..MaxRows => Answer(x, fetches'[x])
      <3>1. CASE x = q
        BY <1>2, <1>3, <2>2, <3>1, ListConstants
      <3>2. CASE x # q
        BY <1>3, <2>1, <3>2
      <3>3. QED
        BY <3>1, <3>2
    <2>4. Reached(<<asked, page>>)
      BY DEF ListingInv, PagesHaveRows
    <2>5. QED
      BY <1>1, <2>1, <2>3, <2>4 DEF PagesHaveRows, Answer, Reached
  <1>6. QED
    BY <1>1, <1>4, <1>5 DEF ListingInv, AsksAtOnce

(* An answer is remembered.                                                *)
LEMMA ArriveAnswers ==
    ASSUME ListingInv, NEW q \in L!Queries, L!Arrive(q)
    PROVE  ListingInv'
  <1>1. /\ fetches[q] \in 0..MaxRows
        /\ fetches' = [fetches EXCEPT ![q] = L!Idle] /\ cache' = [cache EXCEPT ![q] = fetches[q]]
        /\ failed' = failed \ {q} /\ held' = (IF q = L!Query THEN q ELSE held)
        /\ UNCHANGED <<shape, rows, filter, asked, page, moves, changes, shrunk>>
    BY DEF L!Arrive
  <1>2. /\ fetches' \in [L!Queries -> (0..MaxRows) \cup {L!Idle, L!Sent, L!Refused}]
        /\ \A x \in L!Queries : fetches'[x] = IF x = q THEN L!Idle ELSE fetches[x]
    BY <1>1 DEF ListingInv, L!TypeOK
  <1>3. /\ cache' \in [L!Queries -> 0..L!NoData]
        /\ \A x \in L!Queries : cache'[x] = IF x = q THEN fetches[q] ELSE cache[x]
    <2>1. fetches[q] \in 0..L!NoData
      BY <1>1, ListConstants
    <2>2. QED
      BY <1>1, <2>1 DEF ListingInv, L!TypeOK
  <1>4. held' # L!NoQuery => held' \in L!Queries /\ cache'[held'] # L!NoData
    <2>1. held # L!NoQuery => held \in L!Queries /\ cache[held] # L!NoData
      BY DEF ListingInv, L!TypeOK
    <2>2. fetches[q] # L!NoData
      BY <1>1, ListConstants
    <2>3. held' = q \/ held' = held
      BY <1>1
    <2>4. QED
      BY <1>3, <2>1, <2>2, <2>3
  <1>5. failed' \subseteq L!Queries
    BY <1>1 DEF ListingInv, L!TypeOK
  <1>6. L!TypeOK'
    BY <1>1, <1>2, <1>3, <1>4, <1>5 DEF ListingInv, L!TypeOK
  <1>7. PagesHaveRows'
    <2> SUFFICES ASSUME ~shape.delays, ~shape.keeps, ~shrunk PROVE PagesHaveRows'
      BY <1>1 DEF PagesHaveRows
    <2>1. ASSUME NEW x \in L!Queries
          PROVE  /\ cache[x] # L!NoData => Answer(x, cache[x])
                 /\ fetches[x] = L!Sent => Reached(x)
                 /\ fetches[x] \in 0..MaxRows => Answer(x, fetches[x])
      BY DEF ListingInv, PagesHaveRows
    <2>2. ASSUME NEW x \in L!Queries
          PROVE  /\ cache'[x] # L!NoData => Answer(x, cache'[x])
                 /\ fetches'[x] = L!Sent => Reached(x)
                 /\ fetches'[x] \in 0..MaxRows => Answer(x, fetches'[x])
      <3>1. CASE x = q
        BY <1>1, <1>2, <1>3, <2>1, <3>1, ListConstants
      <3>2. CASE x # q
        BY <1>2, <1>3, <2>1, <3>2
      <3>3. QED
        BY <3>1, <3>2
    <2>3. Reached(<<asked, page>>)
      BY DEF ListingInv, PagesHaveRows
    <2>4. QED
      BY <1>1, <2>2, <2>3 DEF PagesHaveRows, Answer, Reached
  <1>8. QED
    BY <1>1, <1>6, <1>7 DEF ListingInv, AsksAtOnce

LEMMA FailAnswers ==
    ASSUME ListingInv, NEW q \in L!Queries, L!Fail(q)
    PROVE  ListingInv'
  <1>1. /\ fetches' = [fetches EXCEPT ![q] = L!Idle] /\ failed' = failed \cup {q}
        /\ UNCHANGED <<shape, rows, filter, asked, page, cache, held, moves, changes, shrunk>>
    BY DEF L!Fail
  <1>2. /\ fetches' \in [L!Queries -> (0..MaxRows) \cup {L!Idle, L!Sent, L!Refused}]
        /\ \A x \in L!Queries : fetches'[x] = IF x = q THEN L!Idle ELSE fetches[x]
    BY <1>1 DEF ListingInv, L!TypeOK
  <1>3. L!TypeOK'
    BY <1>1, <1>2 DEF ListingInv, L!TypeOK
  <1>4. PagesHaveRows'
    BY <1>1, <1>2, ListConstants DEF ListingInv, PagesHaveRows, Answer, Reached
  <1>5. QED
    BY <1>1, <1>3, <1>4 DEF ListingInv, AsksAtOnce

(* Others may only add rows, if shrunk stays FALSE.                        *)
LEMMA ChangeAnswers ==
    ASSUME ListingInv, NEW f \in Filters, NEW n \in 0..MaxRows, L!Change(f, n)
    PROVE  ListingInv'
  <1>1. /\ changes < MaxChanges /\ rows' = [rows EXCEPT ![f] = n] /\ changes' = changes + 1
        /\ shrunk' = (shrunk \/ n < rows[f])
        /\ UNCHANGED <<shape, filter, asked, page, cache, failed, fetches, held, moves>>
    BY DEF L!Change
  <1>2. rows' \in [Filters -> 0..MaxRows] /\ rows \in [Filters -> 0..MaxRows]
    BY <1>1 DEF ListingInv, L!TypeOK
  <1>3. changes' \in 0..MaxChanges
    BY <1>1, ListConstants DEF ListingInv, L!TypeOK
  <1>4. shrunk' \in BOOLEAN
    BY <1>1, Zenon
  <1>5. L!TypeOK'
    BY <1>1, <1>2, <1>3, <1>4 DEF ListingInv, L!TypeOK
  <1>6. PagesHaveRows'
    <2> SUFFICES ASSUME ~shape.delays, ~shape.keeps, ~shrunk' PROVE PagesHaveRows'
      BY <1>1 DEF PagesHaveRows
    <2>1. ~shrunk /\ ~(n < rows[f])
      BY <1>1, Zenon
    <2>2. \A g \in Filters : rows[g] \in Nat /\ rows'[g] \in Nat /\ rows[g] <= rows'[g]
      BY <1>1, <1>2, <2>1, ListConstants
    <2>3. /\ Reached(<<asked, page>>)
          /\ \A x \in L!Queries :
               /\ cache[x] # L!NoData => Answer(x, cache[x])
               /\ fetches[x] = L!Sent => Reached(x)
               /\ fetches[x] \in 0..MaxRows => Answer(x, fetches[x])
      BY <2>1 DEF ListingInv, PagesHaveRows
    <2>4. /\ asked \in Filters /\ page \in Nat
          /\ \A x \in L!Queries :
               x[1] \in Filters /\ x[2] \in Nat /\ cache[x] \in Nat
      BY QueryParts, ListConstants DEF ListingInv, L!TypeOK, L!Pages
    <2>5. page <= 1 \/ page <= rows'[asked]
      BY <2>2, <2>3, <2>4 DEF Reached
    <2>6. ASSUME NEW x \in L!Queries
          PROVE  /\ cache[x] # L!NoData =>
                      cache[x] <= rows'[x[1]] /\ (x[2] <= 1 \/ x[2] <= cache[x])
                 /\ fetches[x] = L!Sent => x[2] <= 1 \/ x[2] <= rows'[x[1]]
                 /\ fetches[x] \in 0..MaxRows =>
                      fetches[x] <= rows'[x[1]] /\ (x[2] <= 1 \/ x[2] <= fetches[x])
      <3>1. x[1] \in Filters /\ x[2] \in Nat /\ cache[x] \in Nat
        BY <2>4
      <3>2. rows[x[1]] \in Nat /\ rows'[x[1]] \in Nat /\ rows[x[1]] <= rows'[x[1]]
        BY <2>2, <3>1
      <3>3. /\ cache[x] # L!NoData =>
                 cache[x] <= rows[x[1]] /\ (x[2] <= 1 \/ x[2] <= cache[x])
            /\ fetches[x] = L!Sent => x[2] <= 1 \/ x[2] <= rows[x[1]]
            /\ fetches[x] \in 0..MaxRows =>
                 fetches[x] <= rows[x[1]] /\ (x[2] <= 1 \/ x[2] <= fetches[x])
        BY <2>3 DEF Answer, Reached
      <3>4. fetches[x] \in 0..MaxRows => fetches[x] \in Nat
        BY ListConstants
      <3>5. QED
        BY <3>1, <3>2, <3>3, <3>4
    <2>7. Reached(<<asked, page>>)'
      BY <1>1, <2>5 DEF Reached
    <2>8. QED
      BY <1>1, <2>6, <2>7 DEF PagesHaveRows, Answer, Reached
  <1>7. QED
    BY <1>1, <1>5, <1>6 DEF ListingInv, AsksAtOnce

LEMMA ListingsStep == ListingInv /\ L!Next => ListingInv'
  <1> SUFFICES ASSUME ListingInv, L!Next PROVE ListingInv'
    OBVIOUS
  <1>1. CASE \E f \in Filters : L!Type(f)
    BY <1>1, TypingAsks
  <1>2. CASE L!Pause
    <2>1. filter \in Filters
      BY DEF ListingInv, L!TypeOK
    <2>2. QED
      BY <1>2, <2>1, TypingAsks
  <1>3. CASE L!NextPage \/ L!PreviousPage
    BY <1>3, TurningReaches
  <1>4. CASE L!Retry
    BY <1>4, RetryAsks
  <1>5. CASE L!Answered
    BY <1>5, ServeAnswers, ArriveAnswers, FailAnswers DEF L!Answered
  <1>6. CASE \E f \in Filters, n \in 0..MaxRows : L!Change(f, n)
    BY <1>6, ChangeAnswers
  <1>7. QED
    BY <1>1, <1>2, <1>3, <1>4, <1>5, <1>6 DEF L!Next

LEMMA ListingsRest == ListingInv /\ UNCHANGED listVars => ListingInv'
  BY DEF ListingInv, listVars, L!TypeOK, AsksAtOnce, PagesHaveRows, Answer, Reached

-----------------------------------------------------------------------------
(* DetailPages: what is drawn is what the API takes.                       *)

LEMMA StepFields ==
    ASSUME NEW op, NEW permission, NEW from, NEW to
    PROVE  /\ D!Step(op, permission, from, to).op = op
           /\ D!Step(op, permission, from, to).permission = permission
           /\ D!Step(op, permission, from, to).from = from
           /\ D!Step(op, permission, from, to).to = to
  BY DEF D!Step

(* The button b is that of a step which the API takes in this status.      *)
Fits(b, status, steps) ==
    \E s \in steps : s.op = b.op /\ s.permission = b.permission /\ status \in s.from

LEMMA Fitting ==
    ASSUME NEW op, NEW permission, NEW from, NEW to, NEW steps, NEW status \in from, NEW shown,
           D!Step(op, permission, from, to) \in steps
    PROVE  Fits(D!Button(op, shown, permission), status, steps)
  BY DEF Fits, D!Step, D!Button

(* A button for the step s is shown.                                       *)
IsDrawn(s, buttons) ==
    \E b \in buttons : b.op = s.op /\ b.permission = s.permission /\ b.shown

LEMMA Drawing ==
    ASSUME NEW op, NEW permission, NEW from, NEW to, NEW buttons, NEW shown, shown,
           D!Button(op, shown, permission) \in buttons
    PROVE  IsDrawn(D!Step(op, permission, from, to), buttons)
  BY DEF IsDrawn, D!Step, D!Button

(* The statuses of each kind, its steps and its buttons.                   *)
SalesNames ==
    {"DRAFT", "CONFIRMED", "RESERVED", "SHIPPED",
     "CANCELLED"}

LEMMA SalesStepsShape ==
    \A s \in D!SalesSteps : s.from \cup s.to \subseteq SalesNames /\ s.op # "none"
  BY DEF D!SalesSteps, D!Step, SalesNames

LEMMA SalesButtonsFit ==
    ASSUME NEW status \in SalesNames, NEW b \in D!SalesButtons(status), b.shown
    PROVE  Fits(b, status, D!SalesSteps)
  <1>1. CASE b = D!Button("update", status = "DRAFT", "sales_orders.update")
    <2>1. status \in {"DRAFT"}
      BY <1>1 DEF D!Button, SalesNames
    <2>2. D!Step("update", "sales_orders.update", {"DRAFT"}, {"DRAFT"}) \in D!SalesSteps
      BY Zenon DEF D!SalesSteps
    <2>3. QED
      BY <1>1, <2>1, <2>2, Fitting
  <1>2. CASE b = D!Button("confirm", status = "DRAFT", "sales_orders.confirm")
    <2>1. status \in {"DRAFT"}
      BY <1>2 DEF D!Button, SalesNames
    <2>2. D!Step("confirm", "sales_orders.confirm", {"DRAFT"}, {"CONFIRMED"}) \in D!SalesSteps
      BY Zenon DEF D!SalesSteps
    <2>3. QED
      BY <1>2, <2>1, <2>2, Fitting
  <1>3. CASE b = D!Button("reserve", status = "CONFIRMED", "inventory.reserve")
    <2>1. status \in {"CONFIRMED"}
      BY <1>3 DEF D!Button, SalesNames
    <2>2. D!Step("reserve", "inventory.reserve", {"CONFIRMED"}, {"RESERVED"}) \in D!SalesSteps
      BY Zenon DEF D!SalesSteps
    <2>3. QED
      BY <1>3, <2>1, <2>2, Fitting
  <1>4. CASE b = D!Button("release", status = "RESERVED", "inventory.release")
    <2>1. status \in {"RESERVED"}
      BY <1>4 DEF D!Button, SalesNames
    <2>2. D!Step("release", "inventory.release", {"RESERVED"}, {"CONFIRMED"}) \in D!SalesSteps
      BY Zenon DEF D!SalesSteps
    <2>3. QED
      BY <1>4, <2>1, <2>2, Fitting
  <1>5. CASE b = D!Button("ship", status = "RESERVED", "inventory.ship")
    <2>1. status \in {"RESERVED"}
      BY <1>5 DEF D!Button, SalesNames
    <2>2. D!Step("ship", "inventory.ship", {"RESERVED"}, {"SHIPPED"}) \in D!SalesSteps
      BY Zenon DEF D!SalesSteps
    <2>3. QED
      BY <1>5, <2>1, <2>2, Fitting
  <1>6. CASE b = D!Button("cancel", status \notin {"CANCELLED", "SHIPPED"}, "sales_orders.cancel")
    <2>1. status \in {"DRAFT", "CONFIRMED", "RESERVED"}
      BY <1>6 DEF D!Button, SalesNames
    <2>2. D!Step("cancel", "sales_orders.cancel", {"DRAFT", "CONFIRMED", "RESERVED"},
                 {"CANCELLED"}) \in D!SalesSteps
      BY Zenon DEF D!SalesSteps
    <2>3. QED
      BY <1>6, <2>1, <2>2, Fitting
  <1>7. QED
    BY <1>1, <1>2, <1>3, <1>4, <1>5, <1>6 DEF D!SalesButtons

LEMMA SalesStepsDrawn ==
    ASSUME NEW s \in D!SalesSteps, NEW status \in s.from
    PROVE  IsDrawn(s, D!SalesButtons(status))
  <1>1. CASE s = D!Step("update", "sales_orders.update", {"DRAFT"}, {"DRAFT"})
    <2>1. status \in {"DRAFT"}
      BY <1>1, StepFields
    <2>2. D!Button("update", status = "DRAFT", "sales_orders.update") \in D!SalesButtons(status)
      BY Zenon DEF D!SalesButtons
    <2>3. status = "DRAFT"
      BY <2>1
    <2>4. QED
      BY <1>1, <2>2, <2>3, Drawing
  <1>2. CASE s = D!Step("confirm", "sales_orders.confirm", {"DRAFT"}, {"CONFIRMED"})
    <2>1. status \in {"DRAFT"}
      BY <1>2, StepFields
    <2>2. D!Button("confirm", status = "DRAFT", "sales_orders.confirm") \in D!SalesButtons(status)
      BY Zenon DEF D!SalesButtons
    <2>3. status = "DRAFT"
      BY <2>1
    <2>4. QED
      BY <1>2, <2>2, <2>3, Drawing
  <1>3. CASE s = D!Step("reserve", "inventory.reserve", {"CONFIRMED"}, {"RESERVED"})
    <2>1. status \in {"CONFIRMED"}
      BY <1>3, StepFields
    <2>2. D!Button("reserve", status = "CONFIRMED",
                 "inventory.reserve") \in D!SalesButtons(status)
      BY Zenon DEF D!SalesButtons
    <2>3. status = "CONFIRMED"
      BY <2>1
    <2>4. QED
      BY <1>3, <2>2, <2>3, Drawing
  <1>4. CASE s = D!Step("release", "inventory.release", {"RESERVED"}, {"CONFIRMED"})
    <2>1. status \in {"RESERVED"}
      BY <1>4, StepFields
    <2>2. D!Button("release", status = "RESERVED", "inventory.release") \in D!SalesButtons(status)
      BY Zenon DEF D!SalesButtons
    <2>3. status = "RESERVED"
      BY <2>1
    <2>4. QED
      BY <1>4, <2>2, <2>3, Drawing
  <1>5. CASE s = D!Step("ship", "inventory.ship", {"RESERVED"}, {"SHIPPED"})
    <2>1. status \in {"RESERVED"}
      BY <1>5, StepFields
    <2>2. D!Button("ship", status = "RESERVED", "inventory.ship") \in D!SalesButtons(status)
      BY Zenon DEF D!SalesButtons
    <2>3. status = "RESERVED"
      BY <2>1
    <2>4. QED
      BY <1>5, <2>2, <2>3, Drawing
  <1>6. CASE s = D!Step("cancel", "sales_orders.cancel", {"DRAFT", "CONFIRMED", "RESERVED"},
               {"CANCELLED"})
    <2>1. status \in {"DRAFT", "CONFIRMED", "RESERVED"}
      BY <1>6, StepFields
    <2>2. D!Button("cancel", status \notin {"CANCELLED", "SHIPPED"}, "sales_orders.cancel")
            \in D!SalesButtons(status)
      BY Zenon DEF D!SalesButtons
    <2>3. status \notin {"CANCELLED", "SHIPPED"}
      BY <2>1
    <2>4. QED
      BY <1>6, <2>2, <2>3, Drawing
  <1>7. QED
    BY <1>1, <1>2, <1>3, <1>4, <1>5, <1>6 DEF D!SalesSteps

PurchaseNames ==
    {"DRAFT", "PENDING_APPROVAL", "APPROVED", "PARTIALLY_RECEIVED",
     "RECEIVED", "CANCELLED"}

LEMMA PurchaseStepsShape ==
    \A s \in D!PurchaseSteps : s.from \cup s.to \subseteq PurchaseNames /\ s.op # "none"
  BY DEF D!PurchaseSteps, D!Step, PurchaseNames

LEMMA PurchaseButtonsFit ==
    ASSUME NEW status \in PurchaseNames, NEW b \in D!PurchaseButtons(status), b.shown
    PROVE  Fits(b, status, D!PurchaseSteps)
  <1>1. CASE b = D!Button("update", status = "DRAFT", "purchase_orders.update")
    <2>1. status \in {"DRAFT"}
      BY <1>1 DEF D!Button, PurchaseNames
    <2>2. D!Step("update", "purchase_orders.update", {"DRAFT"}, {"DRAFT"}) \in D!PurchaseSteps
      BY Zenon DEF D!PurchaseSteps
    <2>3. QED
      BY <1>1, <2>1, <2>2, Fitting
  <1>2. CASE b = D!Button("submit", status = "DRAFT", "purchase_orders.submit")
    <2>1. status \in {"DRAFT"}
      BY <1>2 DEF D!Button, PurchaseNames
    <2>2. D!Step("submit", "purchase_orders.submit", {"DRAFT"},
                 {"PENDING_APPROVAL"}) \in D!PurchaseSteps
      BY Zenon DEF D!PurchaseSteps
    <2>3. QED
      BY <1>2, <2>1, <2>2, Fitting
  <1>3. CASE b = D!Button("approve", status = "PENDING_APPROVAL", "purchase_orders.approve")
    <2>1. status \in {"PENDING_APPROVAL"}
      BY <1>3 DEF D!Button, PurchaseNames
    <2>2. D!Step("approve", "purchase_orders.approve", {"PENDING_APPROVAL"},
                 {"APPROVED"}) \in D!PurchaseSteps
      BY Zenon DEF D!PurchaseSteps
    <2>3. QED
      BY <1>3, <2>1, <2>2, Fitting
  <1>4. CASE b = D!Button("receive", status \in {"APPROVED", "PARTIALLY_RECEIVED"},
            "purchase_receipts.create")
    <2>1. status \in {"APPROVED", "PARTIALLY_RECEIVED"}
      BY <1>4 DEF D!Button, PurchaseNames
    <2>2. D!Step("receive", "purchase_receipts.create", {"APPROVED", "PARTIALLY_RECEIVED"},
                 {"PARTIALLY_RECEIVED", "RECEIVED"}) \in D!PurchaseSteps
      BY Zenon DEF D!PurchaseSteps
    <2>3. QED
      BY <1>4, <2>1, <2>2, Fitting
  <1>5. CASE b = D!Button("cancel", status \in {"DRAFT", "PENDING_APPROVAL", "APPROVED"},
            "purchase_orders.cancel")
    <2>1. status \in {"DRAFT", "PENDING_APPROVAL", "APPROVED"}
      BY <1>5 DEF D!Button, PurchaseNames
    <2>2. D!Step("cancel", "purchase_orders.cancel", {"DRAFT", "PENDING_APPROVAL", "APPROVED"},
                 {"CANCELLED"}) \in D!PurchaseSteps
      BY Zenon DEF D!PurchaseSteps
    <2>3. QED
      BY <1>5, <2>1, <2>2, Fitting
  <1>6. QED
    BY <1>1, <1>2, <1>3, <1>4, <1>5 DEF D!PurchaseButtons

LEMMA PurchaseStepsDrawn ==
    ASSUME NEW s \in D!PurchaseSteps, NEW status \in s.from
    PROVE  IsDrawn(s, D!PurchaseButtons(status))
  <1>1. CASE s = D!Step("update", "purchase_orders.update", {"DRAFT"}, {"DRAFT"})
    <2>1. status \in {"DRAFT"}
      BY <1>1, StepFields
    <2>2. D!Button("update", status = "DRAFT",
                 "purchase_orders.update") \in D!PurchaseButtons(status)
      BY Zenon DEF D!PurchaseButtons
    <2>3. status = "DRAFT"
      BY <2>1
    <2>4. QED
      BY <1>1, <2>2, <2>3, Drawing
  <1>2. CASE s = D!Step("submit", "purchase_orders.submit", {"DRAFT"}, {"PENDING_APPROVAL"})
    <2>1. status \in {"DRAFT"}
      BY <1>2, StepFields
    <2>2. D!Button("submit", status = "DRAFT",
                 "purchase_orders.submit") \in D!PurchaseButtons(status)
      BY Zenon DEF D!PurchaseButtons
    <2>3. status = "DRAFT"
      BY <2>1
    <2>4. QED
      BY <1>2, <2>2, <2>3, Drawing
  <1>3. CASE s = D!Step("approve", "purchase_orders.approve", {"PENDING_APPROVAL"}, {"APPROVED"})
    <2>1. status \in {"PENDING_APPROVAL"}
      BY <1>3, StepFields
    <2>2. D!Button("approve", status = "PENDING_APPROVAL",
                 "purchase_orders.approve") \in D!PurchaseButtons(status)
      BY Zenon DEF D!PurchaseButtons
    <2>3. status = "PENDING_APPROVAL"
      BY <2>1
    <2>4. QED
      BY <1>3, <2>2, <2>3, Drawing
  <1>4. CASE s = D!Step("receive", "purchase_receipts.create",
               {"APPROVED", "PARTIALLY_RECEIVED"}, {"PARTIALLY_RECEIVED", "RECEIVED"})
    <2>1. status \in {"APPROVED", "PARTIALLY_RECEIVED"}
      BY <1>4, StepFields
    <2>2. D!Button("receive", status \in {"APPROVED", "PARTIALLY_RECEIVED"}, "purchase_receipts.create")
            \in D!PurchaseButtons(status)
      BY Zenon DEF D!PurchaseButtons
    <2>3. status \in {"APPROVED", "PARTIALLY_RECEIVED"}
      BY <2>1
    <2>4. QED
      BY <1>4, <2>2, <2>3, Drawing
  <1>5. CASE s = D!Step("cancel", "purchase_orders.cancel",
               {"DRAFT", "PENDING_APPROVAL", "APPROVED"}, {"CANCELLED"})
    <2>1. status \in {"DRAFT", "PENDING_APPROVAL", "APPROVED"}
      BY <1>5, StepFields
    <2>2. D!Button("cancel", status \in {"DRAFT", "PENDING_APPROVAL", "APPROVED"}, "purchase_orders.cancel")
            \in D!PurchaseButtons(status)
      BY Zenon DEF D!PurchaseButtons
    <2>3. status \in {"DRAFT", "PENDING_APPROVAL", "APPROVED"}
      BY <2>1
    <2>4. QED
      BY <1>5, <2>2, <2>3, Drawing
  <1>6. QED
    BY <1>1, <1>2, <1>3, <1>4, <1>5 DEF D!PurchaseSteps

CountNames ==
    {"DRAFT", "IN_PROGRESS", "RECOUNT_REQUIRED", "RECOUNTED", "READY_FOR_APPROVAL",
     "READY_MATCHED", "APPROVED", "CANCELLED"}

LEMMA CountStepsShape ==
    \A s \in D!CountSteps : s.from \cup s.to \subseteq CountNames /\ s.op # "none"
  BY DEF D!CountSteps, D!Step, CountNames

LEMMA CountButtonsFit ==
    ASSUME NEW status \in CountNames, NEW b \in D!CountButtons(status), b.shown
    PROVE  Fits(b, status, D!CountSteps)
  <1>1. CASE b = D!Button("start", status = "DRAFT", "inventory_counts.create")
    <2>1. status \in {"DRAFT"}
      BY <1>1 DEF D!Button, CountNames
    <2>2. D!Step("start", "inventory_counts.create", {"DRAFT"}, {"IN_PROGRESS"})
            \in D!CountSteps
      BY Zenon DEF D!CountSteps
    <2>3. QED
      BY <1>1, <2>1, <2>2, Fitting
  <1>2. CASE b = D!Button("addItem", status = "IN_PROGRESS", "inventory_counts.count")
    <2>1. status \in {"IN_PROGRESS"}
      BY <1>2 DEF D!Button, CountNames
    <2>2. D!Step("addItem", "inventory_counts.count", {"IN_PROGRESS"},
                 {"IN_PROGRESS"})
            \in D!CountSteps
      BY Zenon DEF D!CountSteps
    <2>3. QED
      BY <1>2, <2>1, <2>2, Fitting
  <1>3. CASE b = D!Button("countItem", status = "IN_PROGRESS", "inventory_counts.count")
    <2>1. status \in {"IN_PROGRESS"}
      BY <1>3 DEF D!Button, CountNames
    <2>2. D!Step("countItem", "inventory_counts.count", {"IN_PROGRESS"},
                 {"IN_PROGRESS"})
            \in D!CountSteps
      BY Zenon DEF D!CountSteps
    <2>3. QED
      BY <1>3, <2>1, <2>2, Fitting
  <1>4. CASE b = D!Button("requestRecount", status \in {"IN_PROGRESS", "READY_FOR_APPROVAL"},
                          "inventory_counts.recount")
    <2>1. status \in {"IN_PROGRESS"} \/ status \in {"READY_FOR_APPROVAL"}
      BY <1>4 DEF D!Button, CountNames
    <2>2. D!Step("requestRecount", "inventory_counts.recount", {"IN_PROGRESS"},
                 {"RECOUNT_REQUIRED", "READY_MATCHED"})
            \in D!CountSteps
      BY Zenon DEF D!CountSteps
    <2>3. D!Step("requestRecount", "inventory_counts.recount", {"READY_FOR_APPROVAL"},
                 {"RECOUNT_REQUIRED"})
            \in D!CountSteps
      BY Zenon DEF D!CountSteps
    <2>4. CASE status \in {"IN_PROGRESS"}
      BY <1>4, <2>2, <2>4, Fitting
    <2>5. CASE status \in {"READY_FOR_APPROVAL"}
      BY <1>4, <2>3, <2>5, Fitting
    <2>6. QED
      BY <2>1, <2>4, <2>5
  <1>5. CASE b = D!Button("recountItem", status = "RECOUNT_REQUIRED", "inventory_counts.recount")
    <2>1. status \in {"RECOUNT_REQUIRED"}
      BY <1>5 DEF D!Button, CountNames
    <2>2. D!Step("recountItem", "inventory_counts.recount", {"RECOUNT_REQUIRED"},
                 {"RECOUNT_REQUIRED", "RECOUNTED", "READY_FOR_APPROVAL"})
            \in D!CountSteps
      BY Zenon DEF D!CountSteps
    <2>3. QED
      BY <1>5, <2>1, <2>2, Fitting
  <1>6. CASE b = D!Button("approve", status \in {"READY_FOR_APPROVAL", "READY_MATCHED"},
                          "inventory_counts.approve")
    <2>1. status \in {"READY_FOR_APPROVAL", "READY_MATCHED"}
      BY <1>6 DEF D!Button, CountNames
    <2>2. D!Step("approve", "inventory_counts.approve", {"READY_FOR_APPROVAL", "READY_MATCHED"},
                 {"APPROVED"})
            \in D!CountSteps
      BY Zenon DEF D!CountSteps
    <2>3. QED
      BY <1>6, <2>1, <2>2, Fitting
  <1>7. CASE b = D!Button("cancel", status \notin {"APPROVED", "CANCELLED"},
                          "inventory_counts.cancel")
    <2>1. status \in {"DRAFT", "IN_PROGRESS", "RECOUNT_REQUIRED", "RECOUNTED",
                   "READY_FOR_APPROVAL", "READY_MATCHED"}
      BY <1>7 DEF D!Button, CountNames
    <2>2. D!Step("cancel", "inventory_counts.cancel",
                 {"DRAFT", "IN_PROGRESS", "RECOUNT_REQUIRED", "RECOUNTED",
                  "READY_FOR_APPROVAL", "READY_MATCHED"},
                 {"CANCELLED"})
            \in D!CountSteps
      BY Zenon DEF D!CountSteps
    <2>3. QED
      BY <1>7, <2>1, <2>2, Fitting
  <1>8. QED
    BY <1>1, <1>2, <1>3, <1>4, <1>5, <1>6, <1>7 DEF D!CountButtons

(* All are drawn but those no page offers.                                  *)
LEMMA UnofferedSteps ==
    ASSUME NEW op, NEW status, [op |-> op, status |-> status] \notin D!Unoffered
    PROVE  /\ ~(op = "requestRecount" /\ status = "READY_MATCHED")
           /\ ~(op = "recountAgain" /\ status = "RECOUNT_REQUIRED")
           /\ ~(op = "recountItem" /\ status = "RECOUNTED")
  BY DEF D!Unoffered

LEMMA CountStepsDrawn ==
    ASSUME NEW s \in D!CountSteps, NEW status \in s.from,
           [op |-> s.op, status |-> status] \notin D!Unoffered
    PROVE  IsDrawn(s, D!CountButtons(status))
  <1> DEFINE Offer(op, from) == ~(s.op = op /\ status = from)
  <1>0. /\ Offer("requestRecount", "READY_MATCHED") /\ Offer("recountAgain", "RECOUNT_REQUIRED")
        /\ Offer("recountItem", "RECOUNTED")
    BY UnofferedSteps
  <1>1. CASE s = D!Step("start", "inventory_counts.create", {"DRAFT"},
                       {"IN_PROGRESS"})
    <2>1. status \in {"DRAFT"}
      BY <1>1, StepFields
    <2>2. D!Button("start", status = "DRAFT", "inventory_counts.create")
            \in D!CountButtons(status)
      BY Zenon DEF D!CountButtons
    <2>3. status = "DRAFT"
      BY <2>1
    <2>4. QED
      BY <1>1, <2>2, <2>3, Drawing
  <1>2. CASE s = D!Step("addItem", "inventory_counts.count", {"IN_PROGRESS"},
                       {"IN_PROGRESS"})
    <2>1. status \in {"IN_PROGRESS"}
      BY <1>2, StepFields
    <2>2. D!Button("addItem", status = "IN_PROGRESS", "inventory_counts.count")
            \in D!CountButtons(status)
      BY Zenon DEF D!CountButtons
    <2>3. status = "IN_PROGRESS"
      BY <2>1
    <2>4. QED
      BY <1>2, <2>2, <2>3, Drawing
  <1>3. CASE s = D!Step("countItem", "inventory_counts.count", {"IN_PROGRESS"},
                       {"IN_PROGRESS"})
    <2>1. status \in {"IN_PROGRESS"}
      BY <1>3, StepFields
    <2>2. D!Button("countItem", status = "IN_PROGRESS", "inventory_counts.count")
            \in D!CountButtons(status)
      BY Zenon DEF D!CountButtons
    <2>3. status = "IN_PROGRESS"
      BY <2>1
    <2>4. QED
      BY <1>3, <2>2, <2>3, Drawing
  <1>4. CASE s = D!Step("requestRecount", "inventory_counts.recount", {"IN_PROGRESS"},
                       {"RECOUNT_REQUIRED", "READY_MATCHED"})
    <2>1. status \in {"IN_PROGRESS"}
      BY <1>4, StepFields
    <2>2. D!Button("requestRecount", status \in {"IN_PROGRESS", "READY_FOR_APPROVAL"},
                   "inventory_counts.recount")
            \in D!CountButtons(status)
      BY Zenon DEF D!CountButtons
    <2>3. status \in {"IN_PROGRESS", "READY_FOR_APPROVAL"}
      BY <2>1
    <2>4. QED
      BY <1>4, <2>2, <2>3, Drawing
  <1>5. CASE s = D!Step("requestRecount", "inventory_counts.recount", {"READY_FOR_APPROVAL"},
                       {"RECOUNT_REQUIRED"})
    <2>1. status \in {"READY_FOR_APPROVAL"}
      BY <1>5, StepFields
    <2>2. D!Button("requestRecount", status \in {"IN_PROGRESS", "READY_FOR_APPROVAL"},
                   "inventory_counts.recount")
            \in D!CountButtons(status)
      BY Zenon DEF D!CountButtons
    <2>3. status \in {"IN_PROGRESS", "READY_FOR_APPROVAL"}
      BY <2>1
    <2>4. QED
      BY <1>5, <2>2, <2>3, Drawing
  <1>6. CASE s = D!Step("requestRecount", "inventory_counts.recount", {"READY_MATCHED"},
                       {"READY_MATCHED"})
    <2>1. status \in {"READY_MATCHED"}
      BY <1>6, StepFields
    <2>2. s.op = "requestRecount"
      BY <1>6, StepFields
    <2>3. QED
      BY <1>0, <2>1, <2>2
  <1>7. CASE s = D!Step("recountItem", "inventory_counts.recount", {"RECOUNT_REQUIRED"},
                       {"RECOUNT_REQUIRED", "RECOUNTED", "READY_FOR_APPROVAL"})
    <2>1. status \in {"RECOUNT_REQUIRED"}
      BY <1>7, StepFields
    <2>2. D!Button("recountItem", status = "RECOUNT_REQUIRED", "inventory_counts.recount")
            \in D!CountButtons(status)
      BY Zenon DEF D!CountButtons
    <2>3. status = "RECOUNT_REQUIRED"
      BY <2>1
    <2>4. QED
      BY <1>7, <2>2, <2>3, Drawing
  <1>8. CASE s = D!Step("recountItem", "inventory_counts.recount", {"RECOUNTED"},
                       {"READY_FOR_APPROVAL"})
    <2>1. status \in {"RECOUNTED"}
      BY <1>8, StepFields
    <2>2. s.op = "recountItem"
      BY <1>8, StepFields
    <2>3. QED
      BY <1>0, <2>1, <2>2
  <1>9. CASE s = D!Step("recountAgain", "inventory_counts.recount", {"RECOUNT_REQUIRED"},
                       {"RECOUNT_REQUIRED"})
    <2>1. status \in {"RECOUNT_REQUIRED"}
      BY <1>9, StepFields
    <2>2. s.op = "recountAgain"
      BY <1>9, StepFields
    <2>3. QED
      BY <1>0, <2>1, <2>2
  <1>10. CASE s = D!Step("approve", "inventory_counts.approve",
                       {"READY_FOR_APPROVAL", "READY_MATCHED"},
                       {"APPROVED"})
    <2>1. status \in {"READY_FOR_APPROVAL", "READY_MATCHED"}
      BY <1>10, StepFields
    <2>2. D!Button("approve", status \in {"READY_FOR_APPROVAL", "READY_MATCHED"},
                   "inventory_counts.approve")
            \in D!CountButtons(status)
      BY Zenon DEF D!CountButtons
    <2>3. status \in {"READY_FOR_APPROVAL", "READY_MATCHED"}
      BY <2>1
    <2>4. QED
      BY <1>10, <2>2, <2>3, Drawing
  <1>11. CASE s = D!Step("cancel", "inventory_counts.cancel",
                       {"DRAFT", "IN_PROGRESS", "RECOUNT_REQUIRED", "RECOUNTED",
                        "READY_FOR_APPROVAL", "READY_MATCHED"},
                       {"CANCELLED"})
    <2>1. status \in {"DRAFT", "IN_PROGRESS", "RECOUNT_REQUIRED", "RECOUNTED",
                   "READY_FOR_APPROVAL", "READY_MATCHED"}
      BY <1>11, StepFields
    <2>2. D!Button("cancel", status \notin {"APPROVED", "CANCELLED"}, "inventory_counts.cancel")
            \in D!CountButtons(status)
      BY Zenon DEF D!CountButtons
    <2>3. status \notin {"APPROVED", "CANCELLED"}
      BY <2>1
    <2>4. QED
      BY <1>11, <2>2, <2>3, Drawing
  <1>12. QED
    BY <1>1, <1>2, <1>3, <1>4, <1>5, <1>6, <1>7, <1>8, <1>9, <1>10, <1>11 DEF D!CountSteps

FinanceNames ==
    {"OPEN", "PARTIALLY_SETTLED", "SETTLED", "CANCELLED"}

LEMMA FinanceStepsShape ==
    \A s \in D!FinanceSteps : s.from \cup s.to \subseteq FinanceNames /\ s.op # "none"
  BY DEF D!FinanceSteps, D!Step, FinanceNames

LEMMA FinanceButtonsFit ==
    ASSUME NEW status \in FinanceNames, NEW b \in D!FinanceButtons(status), b.shown
    PROVE  Fits(b, status, D!FinanceSteps)
  <1>1. CASE b = D!Button("update", status = "OPEN", "finance.update")
    <2>1. status \in {"OPEN"}
      BY <1>1 DEF D!Button, FinanceNames
    <2>2. D!Step("update", "finance.update", {"OPEN"}, {"OPEN"}) \in D!FinanceSteps
      BY Zenon DEF D!FinanceSteps
    <2>3. QED
      BY <1>1, <2>1, <2>2, Fitting
  <1>2. CASE b = D!Button("settle", status \in {"OPEN", "PARTIALLY_SETTLED"}, "finance.settle")
    <2>1. status \in {"OPEN", "PARTIALLY_SETTLED"}
      BY <1>2 DEF D!Button, FinanceNames
    <2>2. D!Step("settle", "finance.settle", {"OPEN", "PARTIALLY_SETTLED"},
                 {"PARTIALLY_SETTLED", "SETTLED"}) \in D!FinanceSteps
      BY Zenon DEF D!FinanceSteps
    <2>3. QED
      BY <1>2, <2>1, <2>2, Fitting
  <1>3. CASE b = D!Button("cancel", status = "OPEN", "finance.cancel")
    <2>1. status \in {"OPEN"}
      BY <1>3 DEF D!Button, FinanceNames
    <2>2. D!Step("cancel", "finance.cancel", {"OPEN"}, {"CANCELLED"}) \in D!FinanceSteps
      BY Zenon DEF D!FinanceSteps
    <2>3. QED
      BY <1>3, <2>1, <2>2, Fitting
  <1>4. QED
    BY <1>1, <1>2, <1>3 DEF D!FinanceButtons

LEMMA FinanceStepsDrawn ==
    ASSUME NEW s \in D!FinanceSteps, NEW status \in s.from
    PROVE  IsDrawn(s, D!FinanceButtons(status))
  <1>1. CASE s = D!Step("update", "finance.update", {"OPEN"}, {"OPEN"})
    <2>1. status \in {"OPEN"}
      BY <1>1, StepFields
    <2>2. D!Button("update", status = "OPEN", "finance.update") \in D!FinanceButtons(status)
      BY Zenon DEF D!FinanceButtons
    <2>3. status = "OPEN"
      BY <2>1
    <2>4. QED
      BY <1>1, <2>2, <2>3, Drawing
  <1>2. CASE s = D!Step("settle", "finance.settle", {"OPEN", "PARTIALLY_SETTLED"},
               {"PARTIALLY_SETTLED", "SETTLED"})
    <2>1. status \in {"OPEN", "PARTIALLY_SETTLED"}
      BY <1>2, StepFields
    <2>2. D!Button("settle", status \in {"OPEN", "PARTIALLY_SETTLED"}, "finance.settle")
            \in D!FinanceButtons(status)
      BY Zenon DEF D!FinanceButtons
    <2>3. status \in {"OPEN", "PARTIALLY_SETTLED"}
      BY <2>1
    <2>4. QED
      BY <1>2, <2>2, <2>3, Drawing
  <1>3. CASE s = D!Step("cancel", "finance.cancel", {"OPEN"}, {"CANCELLED"})
    <2>1. status \in {"OPEN"}
      BY <1>3, StepFields
    <2>2. D!Button("cancel", status = "OPEN", "finance.cancel") \in D!FinanceButtons(status)
      BY Zenon DEF D!FinanceButtons
    <2>3. status = "OPEN"
      BY <2>1
    <2>4. QED
      BY <1>3, <2>2, <2>3, Drawing
  <1>4. QED
    BY <1>1, <1>2, <1>3 DEF D!FinanceSteps

(* What holds of the steps and the buttons of every kind.                  *)
KindIsSound(k) ==
    /\ \A s \in D!Steps(k) : s.from \cup s.to \subseteq D!Statuses(k) /\ s.op # "none"
    /\ \A status \in D!Statuses(k) : \A b \in D!Buttons(k, status) :
         b.shown => Fits(b, status, D!Steps(k))
    /\ \A s \in D!Steps(k) : \A status \in s.from :
         [op |-> s.op, status |-> status] \in D!Unoffered \/ IsDrawn(s, D!Buttons(k, status))
    /\ D!Statuses(k) \cap {"LOADING", "ERROR", "NONE", "ASKED"} = {}

LEMMA StatusesOfSteps ==
    ASSUME NEW k, NEW names, \A s \in D!Steps(k) : s.from \cup s.to \subseteq names
    PROVE  /\ D!Statuses(k) \subseteq names
           /\ \A s \in D!Steps(k) : s.from \cup s.to \subseteq D!Statuses(k)
  BY DEF D!Statuses

LEMMA EveryKindIsSound == \A k \in KindsOfDocument : KindIsSound(k)
  <1>1. KindIsSound("sales")
    <2>1. D!Steps("sales") = D!SalesSteps /\ \A x : D!Buttons("sales", x) = D!SalesButtons(x)
      BY DEF D!Steps, D!Buttons
    <2>2. /\ D!Statuses("sales") \subseteq SalesNames
          /\ \A s \in D!Steps("sales") : s.from \cup s.to \subseteq D!Statuses("sales")
      BY <2>1, SalesStepsShape, StatusesOfSteps
    <2>3. SalesNames \cap {"LOADING", "ERROR", "NONE", "ASKED"} = {}
      BY DEF SalesNames
    <2>4. QED
      BY <2>1, <2>2, <2>3, SalesStepsShape, SalesButtonsFit, SalesStepsDrawn DEF KindIsSound
  <1>2. KindIsSound("purchase")
    <2>1. /\ D!Steps("purchase") = D!PurchaseSteps
          /\ \A x : D!Buttons("purchase", x) = D!PurchaseButtons(x)
      BY DEF D!Steps, D!Buttons
    <2>2. /\ D!Statuses("purchase") \subseteq PurchaseNames
          /\ \A s \in D!Steps("purchase") : s.from \cup s.to \subseteq D!Statuses("purchase")
      BY <2>1, PurchaseStepsShape, StatusesOfSteps
    <2>3. PurchaseNames \cap {"LOADING", "ERROR", "NONE", "ASKED"} = {}
      BY DEF PurchaseNames
    <2>4. QED
      BY <2>1, <2>2, <2>3, PurchaseStepsShape, PurchaseButtonsFit, PurchaseStepsDrawn
      DEF KindIsSound
  <1>3. KindIsSound("count")
    <2>1. D!Steps("count") = D!CountSteps /\ \A x : D!Buttons("count", x) = D!CountButtons(x)
      BY DEF D!Steps, D!Buttons
    <2>2. /\ D!Statuses("count") \subseteq CountNames
          /\ \A s \in D!Steps("count") : s.from \cup s.to \subseteq D!Statuses("count")
      BY <2>1, CountStepsShape, StatusesOfSteps
    <2>3. CountNames \cap {"LOADING", "ERROR", "NONE", "ASKED"} = {}
      BY DEF CountNames
    <2>4. QED
      BY <2>1, <2>2, <2>3, CountStepsShape, CountButtonsFit, CountStepsDrawn DEF KindIsSound
  <1>4. KindIsSound("finance")
    <2>1. /\ D!Steps("finance") = D!FinanceSteps
          /\ \A x : D!Buttons("finance", x) = D!FinanceButtons(x)
      BY DEF D!Steps, D!Buttons
    <2>2. /\ D!Statuses("finance") \subseteq FinanceNames
          /\ \A s \in D!Steps("finance") : s.from \cup s.to \subseteq D!Statuses("finance")
      BY <2>1, FinanceStepsShape, StatusesOfSteps
    <2>3. FinanceNames \cap {"LOADING", "ERROR", "NONE", "ASKED"} = {}
      BY DEF FinanceNames
    <2>4. QED
      BY <2>1, <2>2, <2>3, FinanceStepsShape, FinanceButtonsFit, FinanceStepsDrawn
      DEF KindIsSound
  <1>5. QED
    BY <1>1, <1>2, <1>3, <1>4 DEF KindsOfDocument

LEMMA OpsOfSteps == \A k \in KindsOfDocument : \A s \in D!Steps(k) : s.op \in D!Ops
  <1>1. D!KindsOfDocument = KindsOfDocument
    BY DEF D!KindsOfDocument, KindsOfDocument
  <1>2. QED
    BY <1>1 DEF D!Ops

LEMMA NoneIsNoOp == "none" \notin D!Ops
  <1>1. D!KindsOfDocument = KindsOfDocument
    BY DEF D!KindsOfDocument, KindsOfDocument
  <1>2. QED
    BY <1>1, EveryKindIsSound DEF D!Ops, KindIsSound

-----------------------------------------------------------------------------
(* DetailPages: what is refused was stale, and what a count says is shown. *)
(* The parts of the invariant are stated of values, so that a step has one *)
(* lemma about the values it leaves.                                       *)

Tab == {mine, theirs}
Call == 1..MaxCalls
NoRow == {D!Loading, D!Failed}
NoAnswer == {D!NoFetch, D!Asked}

SavedFits(k, s) == k \in KindsOfDocument /\ s \in D!Rows /\ s.status \in D!Statuses(k)

Grows(k, s, s2) ==
    \/ s2 = s
    \/ SavedFits(k, s2) /\ s2.version = s.version + 1

(* A row that a page shows or receives is the document as it was; with the *)
(* present version it is the document as it is.                            *)
WasSaved(k, s, r) ==
    /\ r \in D!Rows /\ r.status \in D!Statuses(k) /\ r.version <= s.version
    /\ r.version = s.version => r = s

RowFits(k, s, v) == v \in NoRow \/ WasSaved(k, s, v)
FetchFits(k, s, f) == f \in NoAnswer \/ WasSaved(k, s, f)

(* What a tab sends is a step, and one that the API takes of its user if   *)
(* the row has not changed since.                                          *)
Offered(k, s, g, op, version) ==
    /\ op \in {u.op : u \in D!Steps(k)} /\ version \in 0..MaxSteps /\ version <= s.version
    /\ version = s.version =>
         \E u \in D!Steps(k) : u.op = op /\ u.permission \in g /\ s.status \in u.from

DialogFits(k, s, g, d) ==
    d = D!NoDialog \/ (d \in [op : D!Ops, seen : 0..MaxSteps] /\ Offered(k, s, g, d.op, d.seen))

CallFits(k, s, g, c) ==
    /\ c = D!NoCall \/ c.op \in {u.op : u \in D!Steps(k)}
    /\ c.stage = "sent" => Offered(k, s, g, c.op, c.seen)
    /\ c.made <= s.version

(* A count's page shows the change its message speaks of, and a fetch      *)
(* under way brings it; the request that waits has one that will.          *)
Reaches(v, f, n) ==
    /\ v \notin NoRow /\ f = D!NoFetch => v.version >= n
    /\ f \notin NoAnswer => f.version >= n

CountFits(k, v, f, m, c) ==
    k = "count" =>
        /\ v \notin NoRow => v.version >= m
        /\ f \notin NoAnswer => f.version >= m
        /\ c.stage = "refetching" => Reaches(v, f, c.made)

TabFits(k, s, g, v, f, d, m, cs) ==
    /\ RowFits(k, s, v) /\ FetchFits(k, s, f) /\ (v = D!Loading => f # D!NoFetch)
    /\ DialogFits(k, s, g, d)
    /\ m \in 0..MaxSteps /\ m <= s.version
    /\ \A i \in Call : /\ cs[i] \in D!Calls
                       /\ CallFits(k, s, g, cs[i]) /\ CountFits(k, v, f, m, cs[i])

TabSound(t) ==
    TabFits(document, saved, granted[t], view[t], fetch[t], dialog[t], spoken[t], calls[t])

(* Every request under way may still change the document once.             *)
OpenCalls == {c \in Tab \X Call : calls[c[1]][c[2]].stage \in {"sent", "abandoned"}}
RoomForChanges == saved.version + Cardinality(OpenCalls) <= MaxSteps

DocumentInv ==
    /\ D!TypeOK
    /\ RoomForChanges
    /\ \A t \in Tab : TabSound(t)

LEMMA DocumentConstants == MaxCalls \in Nat \ {0} /\ MaxSteps \in Nat /\ Grants # {}
  BY WebAssumption DEF D!DetailPagesAssumption

LEMMA SignsAreNoRows ==
    /\ \A r \in D!Rows : r \notin NoRow /\ r \notin NoAnswer
    /\ D!NoFetch # D!Asked /\ D!Loading # D!Failed
  <1>1. ASSUME NEW r \in D!Rows
        PROVE  r \notin NoRow /\ r \notin NoAnswer
    <2>1. PICK k \in KindsOfDocument : r.status \in D!Statuses(k)
      BY DEF D!Rows
    <2>2. r.status \notin {"LOADING", "ERROR", "NONE", "ASKED"}
      BY <2>1, EveryKindIsSound DEF KindIsSound
    <2>3. QED
      BY <2>2 DEF NoRow, NoAnswer, D!Loading, D!Failed, D!NoFetch, D!Asked, D!Sign
  <1>2. D!NoFetch # D!Asked /\ D!Loading # D!Failed
    BY DEF D!Loading, D!Failed, D!NoFetch, D!Asked, D!Sign
  <1>3. QED
    BY <1>1, <1>2

LEMMA RowFields == \A r \in D!Rows : r.version \in 0..MaxSteps
  BY DEF D!Rows

LEMMA NoCallFields ==
    /\ D!NoCall \in D!Calls /\ D!NoCall.stage = "free" /\ D!NoCall.made = 0
    /\ D!NoDialog.op = "none"
  BY DEF D!Calls, D!NoCall, D!NoDialog

LEMMA CallFields ==
    ASSUME NEW c \in D!Calls
    PROVE  /\ c.made \in Nat /\ c.made \in 0..MaxSteps
           /\ c # D!NoCall => /\ c \in [op : D!Ops, seen : 0..MaxSteps, made : 0..MaxSteps,
                                       stage : {"sent", "abandoned", "ok", "refused", "declined", "refetching"}]
           /\ c.stage # "free" => c # D!NoCall
  BY DocumentConstants DEF D!Calls, D!NoCall

LEMMA OutstandingIsOpen == D!Outstanding = Cardinality(OpenCalls)
  <1>1. \A x : D!Cardinality(x) = Cardinality(x)
    BY DEF D!Cardinality, Cardinality
  <1>2. QED
    BY <1>1 DEF D!Outstanding, OpenCalls, Tab, Call

(* What fits a document fits it when it has changed.                       *)
LEMMA SavedStays ==
    ASSUME NEW k, NEW s, NEW s2, SavedFits(k, s), Grows(k, s, s2), NEW r, WasSaved(k, s, r)
    PROVE  WasSaved(k, s2, r)
  BY RowFields DEF WasSaved, Grows, SavedFits

LEMMA OfferedStays ==
    ASSUME NEW k, NEW s, NEW s2, SavedFits(k, s), Grows(k, s, s2), NEW g, NEW op, NEW version,
           Offered(k, s, g, op, version)
    PROVE  Offered(k, s2, g, op, version)
  <1>1. CASE s2 = s
    BY <1>1
  <1>2. CASE s2.version = s.version + 1
    <2>1. version <= s2.version /\ version # s2.version
      BY <1>2, RowFields DEF Offered, SavedFits
    <2>2. QED
      BY <2>1 DEF Offered
  <1>3. QED
    BY <1>1, <1>2 DEF Grows

LEMMA CallStays ==
    ASSUME NEW k, NEW s, NEW s2, SavedFits(k, s), Grows(k, s, s2), NEW g, NEW c \in D!Calls,
           CallFits(k, s, g, c)
    PROVE  CallFits(k, s2, g, c)
  <1>1. c.made <= s2.version
    BY RowFields, CallFields DEF Grows, SavedFits, CallFits
  <1>2. c.stage = "sent" => Offered(k, s2, g, c.op, c.seen)
    BY OfferedStays DEF CallFits
  <1>3. QED
    BY <1>1, <1>2 DEF CallFits

LEMMA TabStays ==
    ASSUME NEW k, NEW s, NEW s2, SavedFits(k, s), Grows(k, s, s2),
           NEW g, NEW v, NEW f, NEW d, NEW m, NEW cs, TabFits(k, s, g, v, f, d, m, cs)
    PROVE  TabFits(k, s2, g, v, f, d, m, cs)
  <1>1. RowFits(k, s2, v) /\ FetchFits(k, s2, f)
    BY SavedStays DEF TabFits, RowFits, FetchFits
  <1>2. DialogFits(k, s2, g, d)
    BY OfferedStays DEF TabFits, DialogFits
  <1>3. m <= s2.version
    BY RowFields DEF TabFits, Grows, SavedFits
  <1>4. \A i \in Call : CallFits(k, s2, g, cs[i])
    BY CallStays DEF TabFits
  <1>5. QED
    BY <1>1, <1>2, <1>3, <1>4 DEF TabFits

(* A request of a tab is replaced.                                         *)
LEMMA CallReplaced ==
    ASSUME NEW k, NEW s, NEW g, NEW v, NEW f, NEW d, NEW m, NEW cs,
           cs \in [Call -> D!Calls], TabFits(k, s, g, v, f, d, m, cs),
           NEW i \in Call, NEW c \in D!Calls, CallFits(k, s, g, c), CountFits(k, v, f, m, c)
    PROVE  TabFits(k, s, g, v, f, d, m, [cs EXCEPT ![i] = c])
  <1> DEFINE ds == [cs EXCEPT ![i] = c]
  <1>1. \A j \in Call : ds[j] = IF j = i THEN c ELSE cs[j]
    OBVIOUS
  <1> HIDE DEF ds
  <1>2. ASSUME NEW j \in Call
        PROVE  /\ ds[j] \in D!Calls
               /\ CallFits(k, s, g, ds[j]) /\ CountFits(k, v, f, m, ds[j])
    BY <1>1 DEF TabFits
  <1>3. QED
    BY <1>2 DEF TabFits, ds

LEMMA DocumentInit == D!Init => DocumentInv
  <1> SUFFICES ASSUME D!Init PROVE DocumentInv
    OBVIOUS
  <1>1. SavedFits(document, saved) /\ saved.version = 0 /\ 0 \in 0..MaxSteps
    BY DocumentConstants DEF D!Init, SavedFits, D!Rows
  <1>2. ASSUME NEW t \in Tab
        PROVE  /\ granted[t] \in Grants /\ view[t] = D!Loading /\ fetch[t] = D!Asked
               /\ dialog[t] = D!NoDialog /\ spoken[t] = 0
               /\ \A i \in Call : calls[t][i] = D!NoCall
    BY DEF D!Init, Tab, Call
  <1>3. OpenCalls = {}
    BY <1>2, NoCallFields DEF OpenCalls
  <1>4. RoomForChanges
    <2>1. Cardinality(OpenCalls) = 0
      BY <1>3, FS_EmptySet
    <2>2. QED
      BY <1>1, <2>1, DocumentConstants DEF RoomForChanges
  <1>5. ASSUME NEW t \in Tab
        PROVE  TabSound(t)
    <2>1. \A i \in Call : CallFits(document, saved, granted[t], calls[t][i])
      BY <1>1, <1>2, <1>5, NoCallFields DEF CallFits
    <2>2. \A i \in Call : CountFits(document, view[t], fetch[t], spoken[t], calls[t][i])
      BY <1>2, <1>5, NoCallFields DEF CountFits, NoRow, NoAnswer
    <2>3. view[t] \in NoRow /\ fetch[t] \in NoAnswer /\ fetch[t] # D!NoFetch
      BY <1>2, <1>5, SignsAreNoRows DEF NoRow, NoAnswer
    <2>4. spoken[t] \in 0..MaxSteps /\ spoken[t] <= saved.version
      BY <1>1, <1>2, <1>5
    <2>5. \A i \in Call : calls[t][i] \in D!Calls
      BY <1>2, <1>5, NoCallFields
    <2>6. DialogFits(document, saved, granted[t], dialog[t])
      BY <1>2, <1>5 DEF DialogFits
    <2>7. QED
      BY <2>1, <2>2, <2>3, <2>4, <2>5, <2>6 DEF TabSound, TabFits, RowFits, FetchFits
  <1>6. D!TypeOK
    <2>1. document \in KindsOfDocument /\ saved \in D!Rows /\ saved.status \in D!Statuses(document)
      BY <1>1 DEF SavedFits
    <2>2. granted \in [Tab -> Grants]
      BY DEF D!Init, Tab
    <2>3. view \in [Tab -> D!Rows \cup {D!Loading, D!Failed}]
      BY DEF D!Init, Tab
    <2>4. fetch \in [Tab -> D!Rows \cup {D!NoFetch, D!Asked}]
      BY DEF D!Init, Tab
    <2>5. \A t \in Tab : view[t] = D!Loading => fetch[t] # D!NoFetch
      BY <1>2, SignsAreNoRows
    <2>6. dialog \in [Tab -> [op : D!Ops, seen : 0..MaxSteps] \cup {D!NoDialog}]
      BY DEF D!Init, Tab
    <2>7. calls \in [Tab -> [Call -> D!Calls]]
      BY NoCallFields DEF D!Init, Tab, Call
    <2>8. spoken \in [Tab -> 0..MaxSteps]
      BY <1>1 DEF D!Init, Tab
    <2>9. QED
      BY <2>1, <2>2, <2>3, <2>4, <2>5, <2>6, <2>7, <2>8 DEF D!TypeOK, Tab, Call
  <1>7. QED
    BY <1>4, <1>5, <1>6 DEF DocumentInv

(* What the types say of a tab.                                            *)
LEMMA TabTypes ==
    ASSUME DocumentInv
    PROVE  /\ SavedFits(document, saved) /\ granted \in [Tab -> Grants]
           /\ view \in [Tab -> D!Rows \cup NoRow] /\ fetch \in [Tab -> D!Rows \cup NoAnswer]
           /\ dialog \in [Tab -> [op : D!Ops, seen : 0..MaxSteps] \cup {D!NoDialog}]
           /\ calls \in [Tab -> [Call -> D!Calls]]
           /\ spoken \in [Tab -> 0..MaxSteps]
  BY DEF DocumentInv, D!TypeOK, Tab, Call, NoRow, NoAnswer, SavedFits

(* A step of one tab.                                                      *)
TabBecomes(t, v, f, d, m, cs) ==
    /\ document' = document /\ granted' = granted
    /\ Grows(document, saved, saved')
    /\ view' = [view EXCEPT ![t] = v] /\ fetch' = [fetch EXCEPT ![t] = f]
    /\ dialog' = [dialog EXCEPT ![t] = d] /\ spoken' = [spoken EXCEPT ![t] = m]
    /\ calls' = [calls EXCEPT ![t] = cs]

LEMMA TabStep ==
    ASSUME DocumentInv, NEW t \in Tab, NEW v, NEW f, NEW d, NEW m, NEW cs \in [Call -> D!Calls],
           TabBecomes(t, v, f, d, m, cs),
           TabFits(document, saved', granted[t], v, f, d, m, cs),
           RoomForChanges'
    PROVE  DocumentInv'
  <1>1. SavedFits(document, saved) /\ SavedFits(document, saved')
    BY TabTypes DEF TabBecomes, Grows
  <1>2. /\ v \in D!Rows \cup NoRow /\ f \in D!Rows \cup NoAnswer /\ m \in 0..MaxSteps
        /\ d \in [op : D!Ops, seen : 0..MaxSteps] \cup {D!NoDialog}
    BY DEF TabFits, RowFits, FetchFits, WasSaved, DialogFits
  <1>3. ASSUME NEW u \in Tab
        PROVE  TabSound(u)'
    <2>1. CASE u = t
      <3>1. /\ granted'[u] = granted[t] /\ view'[u] = v /\ fetch'[u] = f /\ dialog'[u] = d
            /\ spoken'[u] = m /\ calls'[u] = cs /\ document' = document
        BY <2>1, TabTypes DEF TabBecomes
      <3>2. QED
        BY <3>1 DEF TabSound
    <2>2. CASE u # t
      <3>1. /\ granted'[u] = granted[u] /\ view'[u] = view[u] /\ fetch'[u] = fetch[u]
            /\ dialog'[u] = dialog[u] /\ spoken'[u] = spoken[u] /\ calls'[u] = calls[u]
            /\ document' = document
        BY <2>2, TabTypes DEF TabBecomes
      <3>2. TabFits(document, saved', granted[u], view[u], fetch[u], dialog[u], spoken[u], calls[u])
        <4>1. TabFits(document, saved, granted[u], view[u], fetch[u], dialog[u], spoken[u], calls[u])
          BY DEF DocumentInv, TabSound
        <4>2. Grows(document, saved, saved')
          BY DEF TabBecomes
        <4>3. QED
          BY <1>1, <4>1, <4>2, TabStays
      <3>3. QED
        BY <3>1, <3>2 DEF TabSound
    <2>3. QED
      BY <2>1, <2>2
  <1>4. D!TypeOK'
    <2>1. document' \in KindsOfDocument /\ saved' \in D!Rows /\ saved'.status \in D!Statuses(document')
      BY <1>1 DEF TabBecomes, SavedFits
    <2>2. granted' \in [Tab -> Grants]
      BY TabTypes DEF TabBecomes
    <2>3. view' \in [Tab -> D!Rows \cup {D!Loading, D!Failed}]
      BY <1>2, TabTypes DEF TabBecomes, NoRow
    <2>4. fetch' \in [Tab -> D!Rows \cup {D!NoFetch, D!Asked}]
      BY <1>2, TabTypes DEF TabBecomes, NoAnswer
    <2>5. \A u \in Tab : view'[u] = D!Loading => fetch'[u] # D!NoFetch
      BY <1>3 DEF TabSound, TabFits
    <2>6. dialog' \in [Tab -> [op : D!Ops, seen : 0..MaxSteps] \cup {D!NoDialog}]
      BY <1>2, TabTypes DEF TabBecomes
    <2>7. calls' \in [Tab -> [Call -> D!Calls]]
      BY TabTypes DEF TabBecomes
    <2>8. spoken' \in [Tab -> 0..MaxSteps]
      BY <1>2, TabTypes DEF TabBecomes
    <2>9. QED
      BY <2>1, <2>2, <2>3, <2>4, <2>5, <2>6, <2>7, <2>8 DEF D!TypeOK, Tab, Call
  <1>5. QED
    BY <1>3, <1>4 DEF DocumentInv

(* The requests under way after one of them was replaced.                  *)
IsOpen(c) == c.stage \in {"sent", "abandoned"}

LEMMA PlacesAreFinite == IsFiniteSet(Tab \X Call)
  <1>1. IsFiniteSet(Call)
    <2>1. 1 \in Int /\ MaxCalls \in Int
      BY DocumentConstants
    <2>2. QED
      BY <2>1, FS_Interval DEF Call
  <1>2. IsFiniteSet(Tab)
    <2>1. Tab = {mine} \cup {theirs}
      BY DEF Tab
    <2>2. QED
      BY <2>1, FS_Singleton, FS_Union
  <1>3. QED
    BY <1>1, <1>2, FS_Product

LEMMA OpenAfter ==
    ASSUME DocumentInv, NEW t \in Tab, NEW i \in Call, NEW c \in D!Calls,
           calls' = [calls EXCEPT ![t] = [calls[t] EXCEPT ![i] = c]]
    PROVE  /\ Cardinality(OpenCalls) \in Nat /\ Cardinality(OpenCalls') \in Nat
           /\ Cardinality(OpenCalls') <= Cardinality(OpenCalls) + 1
           /\ ~IsOpen(c) \/ IsOpen(calls[t][i]) =>
                Cardinality(OpenCalls') <= Cardinality(OpenCalls)
           /\ ~IsOpen(c) /\ IsOpen(calls[t][i]) =>
                Cardinality(OpenCalls') = Cardinality(OpenCalls) - 1
  <1> DEFINE o == OpenCalls
             p == OpenCalls'
             x == <<t, i>>
  <1>1. ASSUME NEW u \in Tab, NEW j \in Call
        PROVE  calls'[u][j] = IF u = t /\ j = i THEN c ELSE calls[u][j]
    BY TabTypes
  <1>2. o = {y \in Tab \X Call : IsOpen(calls[y[1]][y[2]])}
    BY DEF OpenCalls, IsOpen
  <1>3. p = {y \in Tab \X Call : IsOpen(calls'[y[1]][y[2]])}
    BY DEF OpenCalls, IsOpen
  <1>4. ASSUME NEW y \in Tab \X Call
        PROVE  /\ y # x => (y \in p <=> y \in o)
               /\ y = x => (y \in p <=> IsOpen(c)) /\ (y \in o <=> IsOpen(calls[t][i]))
    <2>1. PICK u \in Tab, j \in Call : y = <<u, j>>
      OBVIOUS
    <2>2. y[1] = u /\ y[2] = j /\ (y = x <=> u = t /\ j = i)
      BY <2>1
    <2>3. QED
      BY <1>1, <1>2, <1>3, <2>2
  <1>5. x \in Tab \X Call /\ o \subseteq Tab \X Call /\ p \subseteq Tab \X Call
    BY <1>2, <1>3
  <1>6. IsFiniteSet(Tab \X Call)
    BY PlacesAreFinite
  <1>7. IsFiniteSet(o) /\ IsFiniteSet(p)
    BY <1>5, <1>6, FS_Subset
  <1> HIDE DEF o, p, x
  <1>8. Cardinality(o) \in Nat /\ Cardinality(p) \in Nat
    BY <1>7, FS_CardinalityType
  <1>9. Cardinality(p) <= Cardinality(o) + 1
    <2>1. p \subseteq o \cup {x}
      BY <1>4, <1>5
    <2>2. /\ IsFiniteSet(o \cup {x})
          /\ Cardinality(o \cup {x}) = IF x \in o THEN Cardinality(o) ELSE Cardinality(o) + 1
      BY <1>7, FS_AddElement
    <2>3. Cardinality(p) <= Cardinality(o \cup {x})
      BY <2>1, <2>2, FS_Subset
    <2>4. Cardinality(o \cup {x}) \in Nat
      BY <2>2, FS_CardinalityType
    <2>5. QED
      BY <1>8, <2>2, <2>3, <2>4
  <1>10. ASSUME ~IsOpen(c) \/ IsOpen(calls[t][i])
         PROVE  Cardinality(p) <= Cardinality(o)
    <2>1. p \subseteq o
      BY <1>4, <1>5, <1>10
    <2>2. QED
      BY <1>7, <2>1, FS_Subset
  <1>11. ASSUME ~IsOpen(c), IsOpen(calls[t][i])
         PROVE  Cardinality(p) = Cardinality(o) - 1
    <2>1. p = o \ {x} /\ x \in o
      BY <1>4, <1>5, <1>11
    <2>2. QED
      BY <1>7, <2>1, FS_RemoveElement
  <1>12. QED
    BY <1>8, <1>9, <1>10, <1>11 DEF o, p

(* The page: what it fetches, shows and opens.                             *)
LEMMA PageStep ==
    ASSUME DocumentInv, NEW t \in Tab, NEW v, NEW f, NEW d,
           view' = [view EXCEPT ![t] = v], fetch' = [fetch EXCEPT ![t] = f],
           dialog' = [dialog EXCEPT ![t] = d],
           UNCHANGED <<document, saved, granted, calls, spoken>>,
           RowFits(document, saved, v), FetchFits(document, saved, f),
           v = D!Loading => f # D!NoFetch,
           DialogFits(document, saved, granted[t], d),
           \A i \in Call : CountFits(document, v, f, spoken[t], calls[t][i])
    PROVE  DocumentInv'
  <1>1. TabBecomes(t, v, f, d, spoken[t], calls[t])
    BY TabTypes DEF TabBecomes, Grows
  <1>2. TabFits(document, saved', granted[t], v, f, d, spoken[t], calls[t])
    <2>1. TabSound(t) /\ saved' = saved
      BY DEF DocumentInv
    <2>2. QED
      BY <2>1 DEF TabSound, TabFits
  <1>3. RoomForChanges'
    BY DEF DocumentInv, RoomForChanges, OpenCalls
  <1>4. calls[t] \in [Call -> D!Calls]
    BY TabTypes
  <1>5. QED
    BY <1>1, <1>2, <1>3, <1>4, TabStep

LEMMA TabNow ==
    ASSUME DocumentInv, NEW t \in Tab
    PROVE  /\ SavedFits(document, saved) /\ WasSaved(document, saved, saved)
           /\ saved.version \in 0..MaxSteps
           /\ RowFits(document, saved, view[t]) /\ FetchFits(document, saved, fetch[t])
           /\ view[t] = D!Loading => fetch[t] # D!NoFetch
           /\ DialogFits(document, saved, granted[t], dialog[t])
           /\ spoken[t] \in 0..MaxSteps /\ spoken[t] <= saved.version
           /\ \A i \in Call :
                /\ calls[t][i] \in D!Calls
                /\ CallFits(document, saved, granted[t], calls[t][i])
                /\ CountFits(document, view[t], fetch[t], spoken[t], calls[t][i])
           /\ view = [view EXCEPT ![t] = view[t]] /\ fetch = [fetch EXCEPT ![t] = fetch[t]]
           /\ dialog = [dialog EXCEPT ![t] = dialog[t]]
           /\ spoken = [spoken EXCEPT ![t] = spoken[t]]
           /\ 1 \in Call
  <1>1. SavedFits(document, saved) /\ saved.version \in 0..MaxSteps
    BY TabTypes, RowFields DEF SavedFits
  <1>2. WasSaved(document, saved, saved)
    BY <1>1 DEF SavedFits, WasSaved
  <1>3. TabFits(document, saved, granted[t], view[t], fetch[t], dialog[t], spoken[t], calls[t])
    BY DEF DocumentInv, TabSound
  <1>4. /\ view = [view EXCEPT ![t] = view[t]] /\ fetch = [fetch EXCEPT ![t] = fetch[t]]
        /\ dialog = [dialog EXCEPT ![t] = dialog[t]]
        /\ spoken = [spoken EXCEPT ![t] = spoken[t]]
    BY TabTypes
  <1>5. 1 \in Call
    BY DocumentConstants DEF Call
  <1>6. QED
    BY <1>1, <1>2, <1>3, <1>4, <1>5 DEF TabFits

LEMMA ServedRowKeeps == ASSUME DocumentInv, NEW t \in Tab, D!Serve(t) PROVE DocumentInv'
  <1>1. FetchFits(document, saved, saved) /\ saved \notin NoAnswer /\ saved # D!NoFetch
    BY TabNow, SignsAreNoRows DEF FetchFits, SavedFits, NoAnswer
  <1>2. ASSUME NEW i \in Call
        PROVE  CountFits(document, view[t], saved, spoken[t], calls[t][i])
    <2>1. saved.version >= spoken[t] /\ saved.version >= calls[t][i].made
      BY TabNow, CallFields DEF CallFits
    <2>2. Reaches(view[t], saved, calls[t][i].made)
      BY <1>1, <2>1 DEF Reaches
    <2>3. QED
      BY <2>1, <2>2, TabNow DEF CountFits
  <1>3. QED
    BY <1>1, <1>2, TabNow, PageStep DEF D!Serve

LEMMA ArriveKeeps == ASSUME DocumentInv, NEW t \in Tab, D!Arrive(t) PROVE DocumentInv'
  <1>1. fetch[t] \notin NoAnswer /\ WasSaved(document, saved, fetch[t])
    BY TabNow DEF D!Arrive, D!Answered, NoAnswer, FetchFits
  <1>2. /\ RowFits(document, saved, fetch[t]) /\ FetchFits(document, saved, D!NoFetch)
        /\ fetch[t] # D!Loading
    BY <1>1, SignsAreNoRows DEF RowFits, FetchFits, NoAnswer, WasSaved, NoRow
  <1>3. ASSUME NEW i \in Call
        PROVE  CountFits(document, fetch[t], D!NoFetch, spoken[t], calls[t][i])
    BY <1>1, TabNow DEF CountFits, Reaches, NoAnswer
  <1>4. QED
    BY <1>2, <1>3, TabNow, PageStep DEF D!Arrive

LEMMA FetchFailsKeeps == ASSUME DocumentInv, NEW t \in Tab, D!FetchFails(t) PROVE DocumentInv'
  <1>1. /\ RowFits(document, saved, D!Failed) /\ FetchFits(document, saved, D!NoFetch)
        /\ D!Failed # D!Loading
    BY SignsAreNoRows DEF RowFits, FetchFits, NoAnswer, NoRow
  <1>2. \A i \in Call : CountFits(document, D!Failed, D!NoFetch, spoken[t], calls[t][i])
    BY DEF CountFits, Reaches, NoAnswer, NoRow
  <1>3. QED
    BY <1>1, <1>2, TabNow, PageStep DEF D!FetchFails

(* A fetch that is asked for promises nothing yet.                         *)
LEMMA AskingFits ==
    ASSUME DocumentInv, NEW t \in Tab
    PROVE  /\ FetchFits(document, saved, D!Asked) /\ D!Asked # D!NoFetch
           /\ \A i \in Call : CountFits(document, view[t], D!Asked, spoken[t], calls[t][i])
  <1>1. FetchFits(document, saved, D!Asked) /\ D!Asked # D!NoFetch /\ D!Asked \in NoAnswer
    BY SignsAreNoRows DEF FetchFits, NoAnswer
  <1>2. QED
    BY <1>1, TabNow DEF CountFits, Reaches

LEMMA RetryKeeps == ASSUME DocumentInv, NEW t \in Tab, D!Retry(t) PROVE DocumentInv'
  BY AskingFits, TabNow, PageStep DEF D!Retry

LEMMA RevisitKeeps == ASSUME DocumentInv, NEW t \in Tab, D!Revisit(t) PROVE DocumentInv'
  <1>1. DialogFits(document, saved, granted[t], D!NoDialog)
    BY DEF DialogFits
  <1>2. CASE fetch[t] = D!NoFetch
    BY <1>1, <1>2, AskingFits, TabNow, PageStep DEF D!Revisit
  <1>3. CASE fetch[t] # D!NoFetch
    BY <1>1, <1>3, TabNow, PageStep DEF D!Revisit
  <1>4. QED
    BY <1>2, <1>3

LEMMA CloseDialogKeeps == ASSUME DocumentInv, NEW t \in Tab, D!CloseDialog(t) PROVE DocumentInv'
  <1>1. DialogFits(document, saved, granted[t], D!NoDialog)
    BY DEF DialogFits
  <1>2. QED
    BY <1>1, TabNow, PageStep DEF D!CloseDialog

(* What a page draws on a row it shows is offered on it.                   *)
LEMMA DrawnIsOffered ==
    ASSUME DocumentInv, NEW t \in Tab, D!Shows(t), NEW op, op \in D!Drawn(view[t], granted[t])
    PROVE  /\ op \in D!Ops /\ view[t].version \in 0..MaxSteps
           /\ Offered(document, saved, granted[t], op, view[t].version)
  <1>1. WasSaved(document, saved, view[t]) /\ view[t].version \in 0..MaxSteps
    BY TabNow, RowFields DEF D!Shows, RowFits, NoRow, WasSaved
  <1>2. document \in KindsOfDocument
    BY TabNow DEF SavedFits
  <1>3. PICK b \in D!Buttons(document, view[t].status) :
          b.op = op /\ b.shown /\ b.permission \in granted[t]
    BY DEF D!Drawn
  <1>4. Fits(b, view[t].status, D!Steps(document))
    BY <1>1, <1>2, <1>3, EveryKindIsSound DEF KindIsSound, WasSaved
  <1>5. PICK u \in D!Steps(document) :
          u.op = op /\ u.permission = b.permission /\ view[t].status \in u.from
    BY <1>3, <1>4 DEF Fits
  <1>6. view[t].version = saved.version => view[t].status = saved.status
    BY <1>1 DEF WasSaved
  <1>7. op \in {w.op : w \in D!Steps(document)}
    BY <1>5
  <1>8. view[t].version <= saved.version
    BY <1>1 DEF WasSaved
  <1>9. op \in D!Ops
    BY <1>2, <1>5, OpsOfSteps
  <1>10. Offered(document, saved, granted[t], op, view[t].version)
    BY <1>1, <1>3, <1>5, <1>6, <1>7, <1>8 DEF Offered
  <1>11. QED
    BY <1>1, <1>9, <1>10

LEMMA OpenDialogKeeps ==
    ASSUME DocumentInv, NEW t \in Tab, NEW op, D!OpenDialog(t, op) PROVE DocumentInv'
  <1> DEFINE d == [op |-> op, seen |-> view[t].version]
  <1>1. DialogFits(document, saved, granted[t], d)
    <2>1. D!Shows(t) /\ op \in D!Drawn(view[t], granted[t])
      BY DEF D!OpenDialog
    <2>2. d \in [op : D!Ops, seen : 0..MaxSteps] /\ d.op = op /\ d.seen = view[t].version
      BY <2>1, DrawnIsOffered
    <2>3. Offered(document, saved, granted[t], d.op, d.seen)
      BY <2>1, <2>2, DrawnIsOffered
    <2>4. QED
      BY <2>2, <2>3 DEF DialogFits
  <1>2. QED
    BY <1>1, TabNow, PageStep DEF D!OpenDialog

(* The requests of a tab.                                                  *)
LEMMA CallStep ==
    ASSUME DocumentInv, NEW t \in Tab, NEW i \in Call, NEW c \in D!Calls, NEW f, NEW d, NEW m,
           view' = view, fetch' = [fetch EXCEPT ![t] = f], dialog' = [dialog EXCEPT ![t] = d],
           spoken' = [spoken EXCEPT ![t] = m],
           calls' = [calls EXCEPT ![t] = [calls[t] EXCEPT ![i] = c]],
           document' = document, granted' = granted,
           Grows(document, saved, saved'),
           FetchFits(document, saved, f), f = fetch[t] \/ f = D!Asked,
           DialogFits(document, saved, granted[t], d),
           m \in 0..MaxSteps, m <= saved.version,
           CallFits(document, saved', granted[t], c),
           \A j \in Call : CountFits(document, view[t], f, m, calls[t][j]),
           CountFits(document, view[t], f, m, c),
           RoomForChanges'
    PROVE  DocumentInv'
  <1> DEFINE cs == [calls[t] EXCEPT ![i] = c]
  <1>1. cs \in [Call -> D!Calls] /\ calls[t] \in [Call -> D!Calls]
    BY TabTypes
  <1>2. TabBecomes(t, view[t], f, d, m, cs)
    BY TabNow DEF TabBecomes
  <1>3. TabFits(document, saved, granted[t], view[t], f, d, m, calls[t])
    <2>1. view[t] = D!Loading => f # D!NoFetch
      BY TabNow, SignsAreNoRows
    <2>2. QED
      BY <2>1, TabNow DEF TabFits
  <1>4. TabFits(document, saved', granted[t], view[t], f, d, m, calls[t])
    <2>1. SavedFits(document, saved)
      BY TabNow
    <2>2. QED
      BY <2>1, <1>3, TabStays
  <1>5. TabFits(document, saved', granted[t], view[t], f, d, m, cs)
    BY <1>1, <1>4, CallReplaced
  <1> HIDE DEF cs
  <1>6. QED
    BY <1>1, <1>2, <1>5, TabStep

(* The number of requests under way is a number, which leaves room.        *)
LEMMA RoomNow ==
    ASSUME DocumentInv
    PROVE  saved.version \in Nat /\ MaxSteps \in Nat /\ saved.version + Cardinality(OpenCalls) <= MaxSteps
  <1>1. saved.version \in 0..MaxSteps
    BY TabTypes, RowFields DEF SavedFits
  <1>2. QED
    BY <1>1, DocumentConstants DEF DocumentInv, RoomForChanges

LEMMA RoomAfter ==
    ASSUME DocumentInv, NEW t \in Tab, NEW i \in Call, NEW c \in D!Calls,
           calls' = [calls EXCEPT ![t] = [calls[t] EXCEPT ![i] = c]],
           \/ /\ saved' = saved
              /\ \/ ~IsOpen(c) \/ IsOpen(calls[t][i])
                 \/ saved.version + Cardinality(OpenCalls) < MaxSteps
           \/ /\ saved'.version = saved.version + 1
              /\ ~IsOpen(c) /\ IsOpen(calls[t][i])
    PROVE  RoomForChanges'
  <1> DEFINE n == Cardinality(OpenCalls)
             o == Cardinality(OpenCalls')
  <1>1. /\ n \in Nat /\ o \in Nat /\ o <= n + 1
        /\ ~IsOpen(c) \/ IsOpen(calls[t][i]) => o <= n
        /\ ~IsOpen(c) /\ IsOpen(calls[t][i]) => o = n - 1
    BY OpenAfter
  <1>2. saved.version \in Nat /\ MaxSteps \in Nat /\ saved.version + n <= MaxSteps
    BY RoomNow
  <1> HIDE DEF n, o
  <1>3. \/ saved'.version = saved.version /\ (o <= n \/ (saved.version + n < MaxSteps))
        \/ saved'.version = saved.version + 1 /\ o = n - 1
    BY <1>1 DEF n
  <1>4. saved'.version + o <= MaxSteps
    BY <1>1, <1>2, <1>3
  <1>5. QED
    BY <1>4 DEF RoomForChanges, o

(* A request that is ended, and one that is not in the way of a count.     *)
LEMMA EndingFits ==
    ASSUME DocumentInv, NEW t \in Tab
    PROVE  /\ D!NoCall \in D!Calls /\ ~IsOpen(D!NoCall) /\ D!NoCall.stage # "refetching"
           /\ CallFits(document, saved, granted[t], D!NoCall)
           /\ Grows(document, saved, saved)
  <1>1. D!NoCall.made <= saved.version
    BY NoCallFields, TabNow
  <1>2. QED
    BY <1>1, NoCallFields DEF CallFits, IsOpen, Grows

LEMMA QuietFits ==
    ASSUME NEW k, NEW v, NEW f, NEW m, NEW c, NEW e, CountFits(k, v, f, m, e),
           c.stage # "refetching"
    PROVE  CountFits(k, v, f, m, c)
  BY DEF CountFits

(* A request is replaced, and nothing else changes.                        *)
LEMMA CallAlone ==
    ASSUME DocumentInv, NEW t \in Tab, NEW i \in Call, NEW c \in D!Calls,
           calls' = [calls EXCEPT ![t] = [calls[t] EXCEPT ![i] = c]],
           UNCHANGED <<document, granted, view, fetch, dialog, spoken>>,
           Grows(document, saved, saved'), c.stage # "refetching",
           CallFits(document, saved', granted[t], c),
           RoomForChanges'
    PROVE  DocumentInv'
  <1>1. CountFits(document, view[t], fetch[t], spoken[t], c)
    <2>1. CountFits(document, view[t], fetch[t], spoken[t], calls[t][i])
      BY TabNow
    <2>2. QED
      BY <2>1, QuietFits
  <1>2. QED
    BY <1>1, TabNow, CallStep

LEMMA SendKeeps ==
    ASSUME DocumentInv, NEW t \in Tab, NEW i \in Call, NEW op \in D!Ops, D!Send(t, i, op)
    PROVE  DocumentInv'
  <1> DEFINE n == IF D!OutlivesButton(op) THEN dialog[t].seen ELSE view[t].version
             c == [op |-> op, stage |-> "sent", made |-> 0, seen |-> n]
  <1>1. n \in 0..MaxSteps /\ Offered(document, saved, granted[t], op, n)
    <2>1. CASE D!OutlivesButton(op)
      <3>1. dialog[t].op = op /\ n = dialog[t].seen
        BY <2>1 DEF D!Send
      <3>2. dialog[t] # D!NoDialog
        BY <3>1, NoneIsNoOp, NoCallFields
      <3>3. QED
        BY <3>1, <3>2, TabNow DEF DialogFits
    <2>2. CASE ~D!OutlivesButton(op)
      <3>1. D!Shows(t) /\ op \in D!Drawn(view[t], granted[t]) /\ n = view[t].version
        BY <2>2 DEF D!Send
      <3>2. QED
        BY <3>1, DrawnIsOffered
    <2>3. QED
      BY <2>1, <2>2
  <1>2. calls' = [calls EXCEPT ![t] = [calls[t] EXCEPT ![i] = c]]
    BY DEF D!Send
  <1>3. /\ UNCHANGED <<document, saved, granted, view, fetch, dialog, spoken>>
        /\ saved.version + Cardinality(OpenCalls) < MaxSteps
    BY OutstandingIsOpen DEF D!Send
  <1> HIDE DEF n
  <1>4. c \in D!Calls /\ c.stage = "sent" /\ c.op = op /\ c.seen = n /\ c.made = 0
    <2>1. 0 \in 0..MaxSteps
      BY DocumentConstants
    <2>2. QED
      BY <1>1, <2>1 DEF D!Calls
  <1> HIDE DEF c
  <1>5. CallFits(document, saved, granted[t], c)
    <2>1. 0 <= saved.version
      BY TabNow
    <2>2. QED
      BY <1>1, <1>4, <2>1 DEF CallFits, Offered
  <1>6. RoomForChanges'
    BY <1>2, <1>3, <1>4, RoomAfter
  <1>7. QED
    BY <1>2, <1>3, <1>4, <1>5, <1>6, CallAlone, EndingFits

LEMMA ComplainKeeps ==
    ASSUME DocumentInv, NEW t \in Tab, NEW i \in Call, D!Complain(t, i)
    PROVE  DocumentInv'
  <1>1. /\ calls' = [calls EXCEPT ![t] = [calls[t] EXCEPT ![i] = D!NoCall]]
        /\ UNCHANGED <<document, saved, granted, view, fetch, dialog, spoken>>
    BY DEF D!Complain
  <1>2. RoomForChanges'
    BY <1>1, EndingFits, RoomAfter
  <1>3. QED
    BY <1>1, <1>2, EndingFits, CallAlone

LEMMA BreakKeeps ==
    ASSUME DocumentInv, NEW t \in Tab, NEW i \in Call, D!Break(t, i)
    PROVE  DocumentInv'
  <1>1. UNCHANGED <<document, saved, granted, view, fetch, dialog, spoken>>
    BY DEF D!Break
  <1>2. CASE calls[t][i].stage = "sent"
    <2> DEFINE c == [calls[t][i] EXCEPT !.stage = "abandoned"]
    <2>1. calls' = [calls EXCEPT ![t] = [calls[t] EXCEPT ![i] = c]]
      BY <1>2 DEF D!Break
    <2>2. /\ c \in D!Calls /\ c.stage = "abandoned" /\ c.op = calls[t][i].op
          /\ c.made = calls[t][i].made /\ calls[t][i] # D!NoCall
      BY <1>2, TabNow, CallFields DEF D!Calls
    <2> HIDE DEF c
    <2>3. CallFits(document, saved, granted[t], c)
      BY <2>2, TabNow DEF CallFits
    <2>4. RoomForChanges'
      <3>1. IsOpen(calls[t][i])
        BY <1>2 DEF IsOpen
      <3>2. QED
        BY <1>1, <2>1, <2>2, <3>1, RoomAfter
    <2>5. QED
      BY <1>1, <2>1, <2>2, <2>3, <2>4, EndingFits, CallAlone
  <1>3. CASE calls[t][i].stage # "sent"
    <2>1. calls' = [calls EXCEPT ![t] = [calls[t] EXCEPT ![i] = D!NoCall]]
      BY <1>3 DEF D!Break
    <2>2. RoomForChanges'
      BY <1>1, <2>1, EndingFits, RoomAfter
    <2>3. QED
      BY <1>1, <2>1, <2>2, EndingFits, CallAlone
  <1>4. QED
    BY <1>2, <1>3

LEMMA SucceedKeeps ==
    ASSUME DocumentInv, NEW t \in Tab, NEW i \in Call, D!Succeed(t, i)
    PROVE  DocumentInv'
  <1> DEFINE d == IF dialog[t].op = calls[t][i].op THEN D!NoDialog ELSE dialog[t]
  <1>1. /\ UNCHANGED <<document, saved, granted, view>> /\ fetch' = [fetch EXCEPT ![t] = D!Asked]
        /\ dialog' = [dialog EXCEPT ![t] = d] /\ calls[t][i].stage = "ok"
    BY DEF D!Succeed
  <1>2. DialogFits(document, saved, granted[t], d)
    BY TabNow DEF DialogFits
  <1> HIDE DEF d
  <1>3. CASE document = "count"
    <2> DEFINE c == [calls[t][i] EXCEPT !.stage = "refetching"]
    <2>1. calls' = [calls EXCEPT ![t] = [calls[t] EXCEPT ![i] = c]] /\ spoken' = spoken
      BY <1>3 DEF D!Succeed
    <2>2. /\ c \in D!Calls /\ c.stage = "refetching" /\ c.op = calls[t][i].op
          /\ c.made = calls[t][i].made /\ calls[t][i] # D!NoCall
      BY <1>1, TabNow, CallFields DEF D!Calls
    <2> HIDE DEF c
    <2>3. CallFits(document, saved, granted[t], c)
      BY <2>2, TabNow DEF CallFits
    <2>4. CountFits(document, view[t], D!Asked, spoken[t], c)
      <3>1. CountFits(document, view[t], D!Asked, spoken[t], calls[t][i])
        BY AskingFits
      <3>2. Reaches(view[t], D!Asked, c.made)
        BY AskingFits DEF Reaches, NoAnswer
      <3>3. QED
        BY <3>1, <3>2 DEF CountFits
    <2>5. RoomForChanges'
      BY <1>1, <2>1, <2>2, RoomAfter DEF IsOpen
    <2>6. QED
      BY <1>1, <1>2, <2>1, <2>2, <2>3, <2>4, <2>5, AskingFits, TabNow, EndingFits, CallStep
  <1>4. CASE document # "count"
    <2>1. /\ calls' = [calls EXCEPT ![t] = [calls[t] EXCEPT ![i] = D!NoCall]]
          /\ spoken' = [spoken EXCEPT ![t] = calls[t][i].made]
      BY <1>4 DEF D!Succeed
    <2>2. calls[t][i].made \in 0..MaxSteps /\ calls[t][i].made <= saved.version
      BY TabNow, CallFields DEF CallFits
    <2>3. RoomForChanges'
      BY <1>1, <2>1, EndingFits, RoomAfter
    <2>4. \A e : CountFits(document, view[t], D!Asked, calls[t][i].made, e)
      BY <1>4 DEF CountFits
    <2>5. QED
      BY <1>1, <1>2, <2>1, <2>2, <2>3, <2>4, AskingFits, EndingFits, CallStep
  <1>5. QED
    BY <1>3, <1>4

LEMMA RefetchedKeeps ==
    ASSUME DocumentInv, NEW t \in Tab, NEW i \in Call, D!Refetched(t, i)
    PROVE  DocumentInv'
  <1>1. /\ calls' = [calls EXCEPT ![t] = [calls[t] EXCEPT ![i] = D!NoCall]]
        /\ spoken' = [spoken EXCEPT ![t] = calls[t][i].made]
        /\ UNCHANGED <<document, saved, granted, view, fetch, dialog>>
        /\ calls[t][i].stage = "refetching" /\ fetch[t] = D!NoFetch
    BY DEF D!Refetched
  <1>2. calls[t][i].made \in 0..MaxSteps /\ calls[t][i].made <= saved.version
    BY TabNow, CallFields DEF CallFits
  <1>3. RoomForChanges'
    BY <1>1, EndingFits, RoomAfter
  <1>4. \A j \in Call : CountFits(document, view[t], fetch[t], calls[t][i].made, calls[t][j])
    BY <1>1, TabNow DEF CountFits, Reaches, NoAnswer
  <1>5. CountFits(document, view[t], fetch[t], calls[t][i].made, D!NoCall)
    BY <1>4, EndingFits, QuietFits
  <1>6. QED
    BY <1>1, <1>2, <1>3, <1>4, <1>5, TabNow, EndingFits, CallStep

(* The API: a request that is open has room for its change, and what is    *)
(* refused was offered on an earlier row.                                  *)
LEMMA OpenHasRoom ==
    ASSUME DocumentInv, NEW t \in Tab, NEW i \in Call, IsOpen(calls[t][i])
    PROVE  saved.version + 1 \in 0..MaxSteps
  <1> DEFINE o == OpenCalls
  <1>1. <<t, i>> \in o
    BY DEF OpenCalls, IsOpen
  <1>2. IsFiniteSet(o)
    <2>1. o \subseteq Tab \X Call
      BY DEF OpenCalls
    <2>2. QED
      BY <2>1, PlacesAreFinite, FS_Subset
  <1>3. Cardinality(o) \in Nat /\ Cardinality(o) # 0
    <2> HIDE DEF o
    <2>1. Cardinality(o) \in Nat
      BY <1>2, FS_CardinalityType
    <2>2. Cardinality(o) # 0
      BY <1>1, <1>2, FS_EmptySet
    <2>3. QED
      BY <2>1, <2>2
  <1>4. saved.version \in Nat /\ MaxSteps \in Nat /\ saved.version + Cardinality(o) <= MaxSteps
    BY RoomNow
  <1> HIDE DEF o
  <1>5. QED
    BY <1>3, <1>4

(* A step that is taken changes the document once.                          *)
LEMMA TakenGrows ==
    ASSUME DocumentInv, NEW t \in Tab, NEW i \in Call, IsOpen(calls[t][i]),
           D!Take(calls[t][i].op, granted[t])
    PROVE  SavedFits(document, saved') /\ saved'.version = saved.version + 1
  <1>1. document \in KindsOfDocument
    BY TabNow DEF SavedFits
  <1>2. saved.version + 1 \in 0..MaxSteps
    BY OpenHasRoom
  <1>3. PICK status \in D!Statuses(document) :
          saved' = [status |-> status, version |-> saved.version + 1]
    BY DEF D!Take
  <1>4. saved' \in D!Rows
    BY <1>1, <1>2, <1>3 DEF D!Rows
  <1>5. QED
    BY <1>1, <1>3, <1>4 DEF SavedFits

(* What the API makes of a request.                                        *)
LEMMA WhatIsMade ==
    ASSUME DocumentInv, NEW t \in Tab, NEW i \in Call, D!Process(t, i)
    PROVE  \E c \in D!Calls :
             /\ calls' = [calls EXCEPT ![t] = [calls[t] EXCEPT ![i] = c]]
             /\ c.op = calls[t][i].op /\ c.stage \in {"ok", "refused", "declined"}
             /\ \/ /\ SavedFits(document, saved') /\ saved'.version = saved.version + 1
                   /\ c.made = saved.version + 1
                \/ saved' = saved /\ c.made = calls[t][i].made
             /\ c.stage = "refused" => D!StepsFor(calls[t][i].op, granted[t]) = {}
  <1> DEFINE b == calls[t][i]
             unfit == D!StepsFor(b.op, granted[t]) = {}
             K == [op : D!Ops, seen : 0..MaxSteps, made : 0..MaxSteps,
                   stage : {"sent", "abandoned", "ok", "refused", "declined", "refetching"}]
  <1>1. b.stage = "sent" /\ IsOpen(b)
    BY DEF D!Process, IsOpen
  <1>2. b \in K
    BY <1>1, TabNow, CallFields
  <1>3. saved.version + 1 \in 0..MaxSteps
    BY <1>1, OpenHasRoom
  <1>4. \/ /\ D!Take(b.op, granted[t])
           /\ calls' = [calls EXCEPT ![t] = [calls[t] EXCEPT
                          ![i] = [b EXCEPT !.stage = "ok", !.made = saved.version + 1]]]
        \/ /\ calls' = [calls EXCEPT ![t] = [calls[t] EXCEPT
                          ![i] = [b EXCEPT !.stage = IF unfit THEN "refused" ELSE "declined"]]]
           /\ saved' = saved
    BY DEF D!Process
  <1>5. D!Take(b.op, granted[t]) =>
          SavedFits(document, saved') /\ saved'.version = saved.version + 1
    BY <1>1, TakenGrows
  <1> HIDE DEF b, unfit
  <1>6. CASE /\ D!Take(b.op, granted[t])
             /\ calls' = [calls EXCEPT ![t] = [calls[t] EXCEPT
                            ![i] = [b EXCEPT !.stage = "ok", !.made = saved.version + 1]]]
    <2> DEFINE c == [b EXCEPT !.stage = "ok", !.made = saved.version + 1]
    <2>1. c \in K /\ c.op = b.op /\ c.stage = "ok" /\ c.made = saved.version + 1
      BY <1>2, <1>3
    <2> HIDE DEF c, K
    <2>2. c \in D!Calls
      BY <2>1 DEF D!Calls, K
    <2>3. calls' = [calls EXCEPT ![t] = [calls[t] EXCEPT ![i] = c]]
      BY <1>6 DEF c
    <2>4. QED
      BY <1>5, <1>6, <2>1, <2>2, <2>3 DEF b
  <1>7. CASE /\ calls' = [calls EXCEPT ![t] = [calls[t] EXCEPT
                            ![i] = [b EXCEPT !.stage = IF unfit THEN "refused" ELSE "declined"]]]
             /\ saved' = saved
    <2> DEFINE c == [b EXCEPT !.stage = IF unfit THEN "refused" ELSE "declined"]
    <2>1. /\ c \in K /\ c.op = b.op /\ c.stage \in {"refused", "declined"} /\ c.made = b.made
          /\ c.stage = "refused" => unfit
      BY <1>2
    <2> HIDE DEF c, K
    <2>2. c \in D!Calls
      BY <2>1 DEF D!Calls, K
    <2>3. calls' = [calls EXCEPT ![t] = [calls[t] EXCEPT ![i] = c]]
      BY <1>7 DEF c
    <2>4. QED
      BY <1>7, <2>1, <2>2, <2>3 DEF b, unfit
  <1>8. QED
    BY <1>4, <1>6, <1>7

LEMMA ProcessingKeeps ==
    ASSUME DocumentInv, NEW t \in Tab, NEW i \in Call, D!Process(t, i)
    PROVE  DocumentInv'
  <1>1. /\ UNCHANGED <<document, granted, view, fetch, dialog, spoken>>
        /\ calls[t][i].stage = "sent"
    BY DEF D!Process
  <1>2. PICK c \in D!Calls :
          /\ calls' = [calls EXCEPT ![t] = [calls[t] EXCEPT ![i] = c]]
          /\ c.op = calls[t][i].op /\ c.stage \in {"ok", "refused", "declined"}
          /\ \/ /\ SavedFits(document, saved') /\ saved'.version = saved.version + 1
                /\ c.made = saved.version + 1
             \/ saved' = saved /\ c.made = calls[t][i].made
    BY WhatIsMade
  <1>3. IsOpen(calls[t][i])
    BY <1>1 DEF IsOpen
  <1>4. /\ calls[t][i] # D!NoCall
        /\ CallFits(document, saved, granted[t], calls[t][i])
    BY <1>1, TabNow, CallFields
  <1>5. saved.version + 1 \in 0..MaxSteps
    BY <1>3, OpenHasRoom
  <1>6. Grows(document, saved, saved')
    BY <1>2 DEF Grows
  <1>7. CallFits(document, saved', granted[t], c)
    <2>1. /\ calls[t][i].op \in {u.op : u \in D!Steps(document)}
          /\ calls[t][i].made <= saved.version
      BY <1>4 DEF CallFits
    <2>2. c.made <= saved'.version
      BY <1>2, <1>5, <2>1
    <2>3. QED
      BY <1>2, <2>1, <2>2 DEF CallFits
  <1>8. RoomForChanges'
    BY <1>1, <1>2, <1>3, RoomAfter DEF IsOpen
  <1>9. QED
    BY <1>1, <1>2, <1>6, <1>7, <1>8, CallAlone

LEMMA ProcessAbandonedKeeps ==
    ASSUME DocumentInv, NEW t \in Tab, NEW i \in Call, D!ProcessAbandoned(t, i)
    PROVE  DocumentInv'
  <1>1. /\ calls' = [calls EXCEPT ![t] = [calls[t] EXCEPT ![i] = D!NoCall]]
        /\ UNCHANGED <<document, granted, view, fetch, dialog, spoken>>
        /\ D!Take(calls[t][i].op, granted[t]) \/ saved' = saved
        /\ IsOpen(calls[t][i])
    BY DEF D!ProcessAbandoned, IsOpen
  <1>2. \/ SavedFits(document, saved') /\ saved'.version = saved.version + 1
        \/ saved' = saved
    BY <1>1, TakenGrows
  <1>3. Grows(document, saved, saved')
    BY <1>2 DEF Grows
  <1>4. CallFits(document, saved', granted[t], D!NoCall)
    BY <1>3, TabNow, EndingFits, CallStays
  <1>5. RoomForChanges'
    BY <1>1, <1>2, EndingFits, RoomAfter
  <1>6. QED
    BY <1>1, <1>3, <1>4, <1>5, EndingFits, CallAlone

(* One step of the pages.                                                  *)
StepOfTab(t) ==
    \/ D!Serve(t) \/ D!Arrive(t) \/ D!FetchFails(t) \/ D!Retry(t)
    \/ D!Revisit(t) \/ D!CloseDialog(t)
    \/ \E op \in D!Ops : D!OpenDialog(t, op)
    \/ \E i \in Call :
         \/ \E op \in D!Ops : D!Send(t, i, op)
         \/ D!Succeed(t, i) \/ D!Refetched(t, i) \/ D!Complain(t, i)
         \/ D!Process(t, i) \/ D!Break(t, i) \/ D!ProcessAbandoned(t, i)

LEMMA DocumentStep ==
    ASSUME DocumentInv, NEW t \in Tab, StepOfTab(t)
    PROVE  DocumentInv'
  <1>1. CASE D!Serve(t)
    BY <1>1, ServedRowKeeps
  <1>2. CASE D!Arrive(t)
    BY <1>2, ArriveKeeps
  <1>3. CASE D!FetchFails(t)
    BY <1>3, FetchFailsKeeps
  <1>4. CASE D!Retry(t)
    BY <1>4, RetryKeeps
  <1>5. CASE D!Revisit(t)
    BY <1>5, RevisitKeeps
  <1>6. CASE D!CloseDialog(t)
    BY <1>6, CloseDialogKeeps
  <1>7. ASSUME NEW op \in D!Ops, D!OpenDialog(t, op) PROVE DocumentInv'
    BY <1>7, OpenDialogKeeps
  <1>8. ASSUME NEW i \in Call, NEW op \in D!Ops, D!Send(t, i, op) PROVE DocumentInv'
    BY <1>8, SendKeeps
  <1>9. ASSUME NEW i \in Call, D!Succeed(t, i) \/ D!Refetched(t, i) \/ D!Complain(t, i)
        PROVE  DocumentInv'
    BY <1>9, SucceedKeeps, RefetchedKeeps, ComplainKeeps
  <1>10. ASSUME NEW i \in Call, D!Process(t, i) \/ D!Break(t, i) \/ D!ProcessAbandoned(t, i)
         PROVE  DocumentInv'
    BY <1>10, ProcessingKeeps, BreakKeeps, ProcessAbandonedKeeps
  <1> DEFINE goal == DocumentInv'
  <1> HIDE DEF goal
  <1>11. QED
    BY <1>1, <1>2, <1>3, <1>4, <1>5, <1>6, <1>7, <1>8, <1>9, <1>10 DEF StepOfTab, goal

LEMMA DocumentRests == DocumentInv /\ UNCHANGED documentVars => DocumentInv'
  <1> SUFFICES ASSUME DocumentInv, UNCHANGED documentVars PROVE DocumentInv'
    OBVIOUS
  <1>1. D!TypeOK'
    BY DEF DocumentInv, documentVars, D!TypeOK
  <1>2. RoomForChanges' /\ \A t \in Tab : TabSound(t)'
    BY DEF DocumentInv, documentVars, RoomForChanges, OpenCalls, TabSound
  <1>3. QED
    BY <1>1, <1>2 DEF DocumentInv

(* A page that is up to date draws the steps its user may take, but for    *)
(* those no page offers.                                                   *)
LEMMA AllowedStepsAreDrawn == DocumentInv => D!AllowedIsDrawn
  <1> SUFFICES ASSUME DocumentInv, NEW t \in Tab, view[t] = saved, NEW u \in D!Steps(document),
                      D!Accepted(u, granted[t]),
                      [op |-> u.op, status |-> saved.status] \notin D!Unoffered
               PROVE  u.op \in D!Drawn(view[t], granted[t])
    BY DEF D!AllowedIsDrawn, Tab
  <1>1. document \in KindsOfDocument /\ saved.status \in u.from /\ u.permission \in granted[t]
    BY TabNow DEF SavedFits, D!Accepted
  <1>2. IsDrawn(u, D!Buttons(document, saved.status))
    BY <1>1, EveryKindIsSound DEF KindIsSound
  <1>3. PICK b \in D!Buttons(document, saved.status) :
          b.op = u.op /\ b.permission = u.permission /\ b.shown
    BY <1>2 DEF IsDrawn
  <1>4. QED
    BY <1>1, <1>3 DEF D!Drawn

LEMMA WhatIsToldIsShown == DocumentInv => D!CountToldIsShown
  <1> SUFFICES ASSUME DocumentInv, document = "count", NEW t \in Tab, D!Shows(t)
               PROVE  view[t].version >= spoken[t]
    BY DEF D!CountToldIsShown, Tab
  <1>1. 1 \in Call /\ CountFits(document, view[t], fetch[t], spoken[t], calls[t][1])
    BY TabNow
  <1>2. QED
    BY <1>1 DEF CountFits, D!Shows, NoRow

(* A request that is refused in this step was offered on an earlier row.   *)
RefusesStale ==
    \A t \in Tab, i \in Call :
        calls[t][i].stage = "sent" /\ calls'[t][i].stage = "refused"
          => calls[t][i].seen < saved.version

LEMMA OthersRefuseNothing ==
    ASSUME DocumentInv, NEW t \in Tab, NEW i \in Call, NEW c, c.stage # "refused",
           calls' = [calls EXCEPT ![t] = [calls[t] EXCEPT ![i] = c]]
    PROVE  RefusesStale
  <1>1. \A u \in Tab, j \in Call : calls'[u][j] = IF u = t /\ j = i THEN c ELSE calls[u][j]
    BY TabTypes
  <1>2. QED
    BY <1>1 DEF RefusesStale

LEMMA ProcessRefusesStale ==
    ASSUME DocumentInv, NEW t \in Tab, NEW i \in Call, D!Process(t, i)
    PROVE  RefusesStale
  <1> DEFINE b == calls[t][i]
  <1>1. b.stage = "sent" /\ b \in D!Calls /\ CallFits(document, saved, granted[t], b)
    BY TabNow DEF D!Process
  <1>2. Offered(document, saved, granted[t], b.op, b.seen)
    BY <1>1 DEF CallFits
  <1>3. saved.version \in 0..MaxSteps
    BY TabNow DEF SavedFits
  <1>4. PICK c \in D!Calls :
          /\ calls' = [calls EXCEPT ![t] = [calls[t] EXCEPT ![i] = c]]
          /\ c.stage = "refused" => D!StepsFor(b.op, granted[t]) = {}
    BY WhatIsMade
  <1>5. CASE c.stage # "refused"
    BY <1>4, <1>5, OthersRefuseNothing
  <1>6. CASE c.stage = "refused"
    <2>1. ASSUME b.seen = saved.version PROVE FALSE
      <3>1. PICK u \in D!Steps(document) :
              u.op = b.op /\ u.permission \in granted[t] /\ saved.status \in u.from
        BY <1>2, <2>1 DEF Offered
      <3>2. u \in D!StepsFor(b.op, granted[t])
        BY <3>1 DEF D!StepsFor, D!Accepted
      <3>3. QED
        BY <1>4, <1>6, <3>2
    <2>2. b.seen < saved.version
      BY <1>2, <1>3, <2>1 DEF Offered
    <2>3. \A u \in Tab, j \in Call : u # t \/ j # i => calls'[u][j] = calls[u][j]
      BY <1>4, TabTypes
    <2>4. QED
      BY <2>2, <2>3 DEF RefusesStale
  <1>7. QED
    BY <1>5, <1>6

LEMMA RefusalIsStale ==
    ASSUME DocumentInv, NEW t \in Tab, StepOfTab(t)
    PROVE  RefusesStale
  <1>1. CASE calls' = calls
    BY <1>1 DEF RefusesStale
  <1>2. ASSUME NEW i \in Call, NEW op \in D!Ops, D!Send(t, i, op) PROVE RefusesStale
    <2> DEFINE c == [op |-> op, stage |-> "sent", made |-> 0,
                     seen |-> IF D!OutlivesButton(op) THEN dialog[t].seen ELSE view[t].version]
    <2>1. calls' = [calls EXCEPT ![t] = [calls[t] EXCEPT ![i] = c]] /\ c.stage # "refused"
      BY <1>2 DEF D!Send
    <2> HIDE DEF c
    <2>2. QED
      BY <2>1, OthersRefuseNothing
  <1>3. ASSUME NEW i \in Call,
               calls' = [calls EXCEPT ![t] = [calls[t] EXCEPT ![i] = D!NoCall]]
        PROVE  RefusesStale
    BY <1>3, NoCallFields, OthersRefuseNothing
  <1>4. ASSUME NEW i \in Call, D!Succeed(t, i) PROVE RefusesStale
    <2>1. CASE document = "count"
      <3>1. calls' = [calls EXCEPT ![t] = [calls[t] EXCEPT
                        ![i] = [calls[t][i] EXCEPT !.stage = "refetching"]]]
        BY <1>4, <2>1 DEF D!Succeed
      <3>2. [calls[t][i] EXCEPT !.stage = "refetching"].stage # "refused"
        BY <1>4, TabNow, CallFields DEF D!Succeed
      <3>3. QED
        BY <3>1, <3>2, OthersRefuseNothing
    <2>2. CASE document # "count"
      BY <1>3, <1>4, <2>2 DEF D!Succeed
    <2>3. QED
      BY <2>1, <2>2
  <1>5. ASSUME NEW i \in Call, D!Break(t, i) PROVE RefusesStale
    <2>1. CASE calls[t][i].stage = "sent"
      <3>1. calls' = [calls EXCEPT ![t] = [calls[t] EXCEPT
                        ![i] = [calls[t][i] EXCEPT !.stage = "abandoned"]]]
        BY <1>5, <2>1 DEF D!Break
      <3>2. [calls[t][i] EXCEPT !.stage = "abandoned"].stage # "refused"
        BY <1>5, <2>1, TabNow, CallFields
      <3>3. QED
        BY <3>1, <3>2, OthersRefuseNothing
    <2>2. CASE calls[t][i].stage # "sent"
      BY <1>3, <1>5, <2>2 DEF D!Break
    <2>3. QED
      BY <2>1, <2>2
  <1>6. ASSUME NEW i \in Call, D!Refetched(t, i) \/ D!Complain(t, i) \/ D!ProcessAbandoned(t, i)
        PROVE  RefusesStale
    BY <1>3, <1>6 DEF D!Refetched, D!Complain, D!ProcessAbandoned
  <1>7. ASSUME D!Serve(t) \/ D!Arrive(t) \/ D!FetchFails(t) \/ D!Retry(t) \/ D!Revisit(t)
                 \/ D!CloseDialog(t) \/ \E op \in D!Ops : D!OpenDialog(t, op)
        PROVE  calls' = calls
    BY <1>7 DEF D!Serve, D!Arrive, D!FetchFails, D!Retry, D!Revisit, D!CloseDialog, D!OpenDialog
  <1> DEFINE goal == RefusesStale
  <1>8. ASSUME NEW i \in Call, D!Process(t, i) PROVE goal
    BY <1>8, ProcessRefusesStale
  <1> HIDE DEF goal
  <1>9. ASSUME NEW i \in Call, D!Break(t, i) PROVE goal
    BY <1>5, <1>9 DEF goal
  <1>10. QED
    BY <1>1, <1>2, <1>4, <1>6, <1>7, <1>8, <1>9 DEF StepOfTab, goal

-----------------------------------------------------------------------------
(* The pages together: each focus moves one of them and the others rest.   *)
WebInv == DocumentInv /\ FormsInv /\ ListingInv

LEMMA WebInit_Inv == WebInit => WebInv
  BY DocumentInit, FormsInit, ListingsInit DEF WebInit, WebInv

LEMMA StepsAreOfTabs ==
    ASSUME WebInv, WebNext, focus \in {"steps", "work"}
    PROVE  /\ UNCHANGED <<formVars, listVars>>
           /\ StepOfTab(mine) \/ StepOfTab(theirs)
  <1>1. 1 \in Call
    BY DocumentConstants DEF Call
  <1>2. \A i \in Call : OwnTab(i) => StepOfTab(mine)
    BY DEF OwnTab, StepOfTab
  <1>3. OtherUser => StepOfTab(theirs)
    BY <1>1 DEF OtherUser, StepOfTab
  <1>4. QED
    BY <1>1, <1>2, <1>3 DEF WebNext, Call

LEMMA WebNext_Inv == WebInv /\ [WebNext]_webVars => WebInv'
  <1> SUFFICES ASSUME WebInv, [WebNext]_webVars PROVE WebInv'
    OBVIOUS
  <1>1. CASE WebNext /\ focus \in {"steps", "work"}
    <2>1. DocumentInv'
      BY <1>1, StepsAreOfTabs, DocumentStep DEF WebInv, Tab
    <2>2. UNCHANGED formVars /\ UNCHANGED listVars
      BY <1>1, StepsAreOfTabs
    <2>3. QED
      BY <2>1, <2>2, FormsRest, ListingsRest DEF WebInv
  <1>2. CASE WebNext /\ focus = "forms"
    <2>1. /\ F!Next /\ (form' = "settlement" => clicks' <= 1)
          /\ UNCHANGED documentVars /\ UNCHANGED listVars
      BY <1>2 DEF WebNext
    <2>2. QED
      BY <2>1, DocumentRests, FormsStep, ListingsRest DEF WebInv
  <1>3. CASE WebNext /\ focus = "list"
    <2>1. L!Next /\ UNCHANGED documentVars /\ UNCHANGED formVars
      BY <1>3 DEF WebNext
    <2>2. QED
      BY <2>1, DocumentRests, FormsRest, ListingsStep DEF WebInv
  <1>4. CASE UNCHANGED webVars
    <2>1. UNCHANGED documentVars /\ UNCHANGED formVars /\ UNCHANGED listVars
      BY <1>4 DEF webVars
    <2>2. QED
      BY <2>1, DocumentRests, FormsRest, ListingsRest DEF WebInv
  <1>5. WebNext => focus \in {"steps", "work", "forms", "list"}
    BY DEF WebNext
  <1>6. QED
    BY <1>1, <1>2, <1>3, <1>4, <1>5

LEMMA WebInvHolds == WebSpec => []WebInv
  BY WebInit_Inv, WebNext_Inv, PTL DEF WebSpec

(* Whatever answers, failures and other users' steps overlap, a page that   *)
(* shows the present row draws every step its user may take, but for the   *)
(* three steps of counts that no page offers, and a count's page that says *)
(* done shows the change.                                                  *)
THEOREM PagesAreAlwaysTrue == WebSpec => []PagesAreTrue
  <1>1. WebInv => PagesAreTrue
    <2>1. WebInv => TypesOK
      BY DEF WebInv, DocumentInv, FormsInv, ListingInv, TypesOK
    <2>2. QED
      BY <2>1, AllowedStepsAreDrawn, WhatIsToldIsShown DEF WebInv, PagesAreTrue
  <1>2. QED
    BY <1>1, WebInvHolds, PTL

(* However often a receipt or a settlement is submitted from one mount of  *)
(* its page, and whatever is lost or left behind, the event has one row    *)
(* from there; and what a form says is done has a row.                     *)
THEOREM EventsAreAlwaysRecordedOnce == WebSpec => []FormsRecordOnce
  <1>1. WebInv => FormsRecordOnce
    BY EventsAreRecordedOnce DEF WebInv
  <1>2. QED
    BY <1>1, WebInvHolds, PTL

(* What a list page of any shape draws, and that it found nothing, answers  *)
(* the filter it shows.                                                    *)
THEOREM ListsAlwaysAnswer == WebSpec => []ListsAnswer
  <1>1. WebInv => ListsAnswer
    BY ListsAreAnswered DEF WebInv
  <1>2. QED
    BY <1>1, WebInvHolds, PTL

(* A step that the API refuses for the status of the row or a permission    *)
(* was offered on a row that has changed since.                            *)
THEOREM RefusalsAreStale == WebSpec => RefusedIsStale
  <1> DEFINE Stale == \A t \in {mine, theirs}, i \in 1..MaxCalls :
                        calls[t][i].stage = "sent" /\ calls'[t][i].stage = "refused"
                          => calls[t][i].seen < saved.version
  <1>1. WebInv /\ [WebNext]_webVars => [Stale]_documentVars
    <2> SUFFICES ASSUME WebInv, [WebNext]_webVars PROVE [Stale]_documentVars
      OBVIOUS
    <2>1. CASE WebNext /\ focus \in {"steps", "work"}
      <3>1. RefusesStale
        BY <2>1, StepsAreOfTabs, RefusalIsStale DEF WebInv, Tab
      <3>2. QED
        BY <3>1 DEF RefusesStale, Tab, Call
    <2>2. CASE WebNext /\ focus \notin {"steps", "work"}
      BY <2>2 DEF WebNext
    <2>3. CASE UNCHANGED webVars
      BY <2>3 DEF webVars
    <2>4. QED
      BY <2>1, <2>2, <2>3
  <1> HIDE DEF Stale
  <1>2. WebSpec => [][Stale]_documentVars
    BY <1>1, WebInvHolds, PTL DEF WebSpec
  <1>3. QED
    BY <1>2 DEF RefusedIsStale, D!RefusedIsStale, D!vars, documentVars, Stale

-----------------------------------------------------------------------------
(* Sessions: the inductive invariant.                                      *)

(* The promise of a tab stands for a refresh of its own that is under way. *)
PromisesAreRefreshes ==
    \A b \in Tabs : refreshPromise[b] # NoCall =>
        /\ call[refreshPromise[b]] # Idle
        /\ call[refreshPromise[b]].tab = b
        /\ call[refreshPromise[b]].kind = "refresh"

(* A refresh that passed the checks carries a token.                       *)
ReadsCarryTokens ==
    \A c \in Busy : (call[c].at = "read" /\ call[c].kind = "refresh") => call[c].token \in Tokens

(* Nothing that is under way has read the user in the present version, if  *)
(* the user was deactivated: what it issues is outdated from the start.    *)
(* (But for the race of status changes that DeactivationIsFinal excepts.)  *)
InactiveIsStale == ~active => missed \/ \A c \in Busy : ~call[c].fresh

SessionInvariant ==
    /\ PromisesAreRefreshes
    /\ ReadsCarryTokens
    /\ InactiveIsStale
    /\ RotationKeepsOne
    /\ DeactivationIsFinal

-----------------------------------------------------------------------------
(* Frames.                                                                 *)

USE TokensAssumption, TabsAssumption, KindsAssumption, CallsAssumption,
    SwitchesAssumption, IdleAssumption

LEMMA CallShape ==
    ASSUME Types, NEW c \in Busy
    PROVE  /\ c \in Calls /\ call[c] \in CallRecords /\ call[c] # Idle
           /\ call[c].kind \in {"refresh", "login", "logout"}
           /\ call[c].tab \in Tabs \cup {NoTab}
           /\ call[c].token \in Tokens \cup {NoToken}
           /\ call[c].at \in {"sent", "read", "ok", "failed", "lost"}
           /\ call[c].fresh \in BOOLEAN /\ call[c].new \in Tokens \cup {NoToken}
  BY DEF Types, Busy, CallRecords

(* Calls go on: none begins or ends, and each keeps its tab and its kind.  *)
CallsGoOn ==
    \A c \in Calls :
        /\ call'[c] # Idle <=> call[c] # Idle
        /\ call[c] # Idle => call'[c].tab = call[c].tab /\ call'[c].kind = call[c].kind

LEMMA ServerKeepsBrowser ==
    ASSUME Types, WaitsAgree, PromisesAreRefreshes, CallsGoOn, UNCHANGED <<tabVars, taskVars>>
    PROVE  WaitsAgree' /\ PromisesAreRefreshes'
  <1>1. WaitsAgree'
    BY DEF Types, WaitsAgree, CallsGoOn, taskVars
  <1>2. PromisesAreRefreshes'
    BY DEF Types, PromisesAreRefreshes, CallsGoOn, tabVars
  <1>3. QED
    BY <1>1, <1>2

(* The rows of the database stay; a call is as it was in all that matters  *)
(* to the server, or has not been served.                                  *)
RowsStay ==
    /\ UNCHANGED serverVars
    /\ \A c \in Calls : call'[c] # Idle =>
         \/ /\ call[c] # Idle
            /\ call'[c].kind = call[c].kind /\ call'[c].token = call[c].token
            /\ call'[c].at = call[c].at /\ call'[c].fresh = call[c].fresh
         \/ call'[c].at # "read" /\ call'[c].fresh = FALSE

LEMMA RowsStaySound ==
    ASSUME Types, Types', SessionInvariant, RowsStay
    PROVE  ReadsCarryTokens' /\ InactiveIsStale' /\ RotationKeepsOne' /\ DeactivationIsFinal'
  <1>1. ReadsCarryTokens'
    BY DEF SessionInvariant, ReadsCarryTokens, RowsStay, Busy
  <1>2. InactiveIsStale'
    BY DEF SessionInvariant, InactiveIsStale, RowsStay, Busy, serverVars, statusVars
  <1>3. RotationKeepsOne' /\ DeactivationIsFinal'
    BY DEF SessionInvariant, RotationKeepsOne, DeactivationIsFinal, RowsStay, serverVars, statusVars
  <1>4. QED
    BY <1>1, <1>2, <1>3

-----------------------------------------------------------------------------
(* The API.                                                                *)

(* A call that is answered, or was read, stays the same call.              *)
LEMMA AnsweredShape ==
    ASSUME Types, NEW c \in Busy, NEW a \in {"sent", "read", "ok", "failed", "lost"},
           NEW answered, answered = [call[c] EXCEPT !.at = a]
    PROVE  /\ answered \in CallRecords /\ answered # Idle
           /\ answered.at = a /\ answered.fresh = call[c].fresh
           /\ answered.kind = call[c].kind /\ answered.tab = call[c].tab
           /\ answered.token = call[c].token
  BY CallShape DEF CallRecords

LEMMA ReadShape ==
    ASSUME Types, NEW c \in Busy,
           NEW answered, answered = [call[c] EXCEPT !.at = "read", !.fresh = TRUE]
    PROVE  /\ answered \in CallRecords /\ answered # Idle
           /\ answered.at = "read" /\ answered.fresh
           /\ answered.kind = call[c].kind /\ answered.tab = call[c].tab
           /\ answered.token = call[c].token
  BY CallShape DEF CallRecords

(* A call read or answered by the API: rows are at most revoked, and only  *)
(* an active user's call becomes fresh.                                    *)
ServedFrom(c) ==
    /\ \E answered \in CallRecords :
         /\ call' = [call EXCEPT ![c] = answered]
         /\ answered # Idle
         /\ answered.kind = call[c].kind /\ answered.tab = call[c].tab
         /\ answered.at = "read" /\ answered.kind = "refresh" => answered.token \in Tokens
         /\ answered.fresh => active \/ call[c].fresh
    /\ row' \in [Tokens -> {"NONE", "LIVE", "REVOKED"}]
    /\ \A t \in Tokens : row'[t] = "LIVE" => row[t] = "LIVE"
    /\ UNCHANGED <<current, family, statusVars, browser>>

LEMMA ServingEffect ==
    ASSUME Types, NEW c \in Calls,
           ReadRefresh(c) \/ LoseRotation(c) \/ ReadLogin(c) \/ Logout(c) \/ Lose(c)
    PROVE  c \in Busy /\ ServedFrom(c)
  <1>0. c \in Busy
    BY DEF ReadRefresh, LoseRotation, ReadLogin, Logout, Lose
  <1> DEFINE ended(a) == [call[c] EXCEPT !.at = a]
             begun == [call[c] EXCEPT !.at = "read", !.fresh = TRUE]
  <1>1. CASE call' = [call EXCEPT ![c] = begun] /\ UNCHANGED <<serverVars, browser>>
             /\ active /\ (call[c].kind = "refresh" => call[c].token \in Tokens)
    <2>1. /\ begun \in CallRecords /\ begun # Idle
          /\ begun.kind = call[c].kind /\ begun.tab = call[c].tab
          /\ begun.token = call[c].token
      BY <1>0, ReadShape
    <2> HIDE DEF begun
    <2>2. QED
      BY <1>0, <1>1, <2>1 DEF ServedFrom, serverVars, statusVars, Types
  <1>2. ASSUME NEW a \in {"ok", "failed", "lost"}, call' = [call EXCEPT ![c] = ended(a)],
               row' \in [Tokens -> {"NONE", "LIVE", "REVOKED"}],
               \A t \in Tokens : row'[t] = "LIVE" => row[t] = "LIVE",
               UNCHANGED <<current, family, statusVars, browser>>
        PROVE  ServedFrom(c)
    <2>1. /\ ended(a) \in CallRecords /\ ended(a) # Idle
          /\ ended(a).kind = call[c].kind /\ ended(a).tab = call[c].tab
          /\ ended(a).at # "read" /\ ended(a).fresh = call[c].fresh
      BY <1>0, AnsweredShape
    <2> HIDE DEF ended
    <2>2. QED
      BY <1>0, <1>2, <2>1 DEF ServedFrom
  <1>3. CASE ReadRefresh(c)
    BY <1>0, <1>1, <1>2, <1>3, CallShape DEF ReadRefresh, Refreshable, Answered, serverVars, statusVars, Types
  <1>4. CASE LoseRotation(c)
    BY <1>0, <1>2, <1>4 DEF LoseRotation, Answered, serverVars, statusVars, Types
  <1>5. CASE ReadLogin(c)
    BY <1>0, <1>1, <1>2, <1>5 DEF ReadLogin, Answered, serverVars, statusVars, Types
  <1>6. CASE Logout(c)
    BY <1>0, <1>2, <1>6 DEF Logout, Answered, Types
  <1>7. CASE Lose(c)
    BY <1>0, <1>2, <1>7 DEF Lose, Answered, serverVars, statusVars, Types
  <1>8. QED
    BY <1>0, <1>3, <1>4, <1>5, <1>6, <1>7

LEMMA ServingKeeps ==
    ASSUME Types, WaitsAgree, SessionInvariant, NEW c \in Busy, ServedFrom(c)
    PROVE  Types' /\ WaitsAgree' /\ SessionInvariant'
  <1>1. PICK answered \in CallRecords :
          /\ call' = [call EXCEPT ![c] = answered]
          /\ answered # Idle
          /\ answered.kind = call[c].kind /\ answered.tab = call[c].tab
          /\ answered.at = "read" /\ answered.kind = "refresh" => answered.token \in Tokens
          /\ answered.fresh => active \/ call[c].fresh
    BY DEF ServedFrom
  <1>2. /\ row' \in [Tokens -> {"NONE", "LIVE", "REVOKED"}]
        /\ \A t \in Tokens : row'[t] = "LIVE" => row[t] = "LIVE"
        /\ UNCHANGED <<current, family, statusVars, expired, cookie, tabVars, taskVars>>
    BY DEF ServedFrom, browser
  <1>3. /\ c \in Calls /\ call[c] # Idle /\ call'[c] = answered
        /\ \A d \in Calls : d # c => call'[d] = call[d]
    BY <1>1, CallShape DEF Types
  <1>4. Types'
    BY <1>1, <1>2, <1>3 DEF Types, statusVars, tabVars, taskVars
  <1>5. CallsGoOn
    BY <1>1, <1>3 DEF CallsGoOn
  <1>6. WaitsAgree' /\ PromisesAreRefreshes'
    BY <1>2, <1>5, ServerKeepsBrowser DEF SessionInvariant
  <1>7. ReadsCarryTokens'
    BY <1>1, <1>3 DEF SessionInvariant, ReadsCarryTokens, Busy
  <1>8. InactiveIsStale'
    BY <1>1, <1>2, <1>3 DEF SessionInvariant, InactiveIsStale, Busy, statusVars
  <1>9. RotationKeepsOne' /\ DeactivationIsFinal'
    BY <1>2 DEF SessionInvariant, RotationKeepsOne, DeactivationIsFinal, statusVars
  <1>10. QED
    BY <1>4, <1>6, <1>7, <1>8, <1>9 DEF SessionInvariant

(* While an id is unused, one label of a login is too: the ids in use      *)
(* carry at most as many labels as there are of them.                      *)
LEMMA NewFamilyIsNew ==
    ASSUME Types, Unused # {}, NEW t
    PROVE  /\ NewFamily(t) \in Tokens
           /\ \A u \in Tokens \ Unused : family[u] # NewFamily(t)
  <1> DEFINE Used == Tokens \ Unused
             labels == [u \in Used |-> family[u]]
  <1>1. \E f \in Tokens : \A u \in Used : family[u] # f
    <2> SUFFICES ASSUME \A f \in Tokens : \E u \in Used : family[u] = f
                 PROVE  FALSE
      OBVIOUS
    <2>1. labels \in Surjection(Used, Tokens)
      BY DEF Types, Surjection
    <2>2. Used \subseteq Tokens /\ Used # Tokens
      BY DEF Unused
    <2> HIDE DEF Used, labels
    <2>3. IsFiniteSet(Used)
      BY <2>2, FS_Subset
    <2>4. Cardinality(Tokens) <= Cardinality(Used)
      BY <2>1, <2>3, FS_Surjection
    <2>5. Cardinality(Used) < Cardinality(Tokens)
      BY <2>2, <2>3, FS_Subset, FS_CardinalityType
    <2>6. QED
      BY <2>3, <2>4, <2>5, FS_CardinalityType
  <1>2. QED
    BY <1>1 DEF NewFamily

(* Issuing keeps one live token per login, if the ancestor's is revoked    *)
(* and no other of its login is live.                                      *)
LEMMA IssueKeeps ==
    ASSUME Types, WaitsAgree, SessionInvariant, NEW c \in Busy, NEW t \in Unused,
           NEW ancestor \in Tokens \cup {NoToken},
           NEW stored \in [Tokens -> {"NONE", "LIVE", "REVOKED"}],
           \A u \in Tokens : stored[u] = "LIVE" => row[u] = "LIVE",
           ancestor # NoToken => \A u \in Tokens : stored[u] = "LIVE" => family[u] # family[ancestor],
           Issue(c, t, ancestor, stored)
    PROVE  Types' /\ WaitsAgree' /\ SessionInvariant'
  <1> DEFINE label == IF ancestor = NoToken THEN NewFamily(t) ELSE family[ancestor]
             issued == [call[c] EXCEPT !.at = "ok", !.new = t]
  <1>1. t \in Tokens /\ Unused \subseteq Tokens
    BY DEF Unused
  <1>2. /\ row' = [u \in Tokens |-> CASE u = t -> "LIVE"
                                      [] u \in Unused \ {t} -> "NONE"
                                      [] OTHER -> stored[u]]
        /\ family' = [u \in Tokens |-> CASE u = t -> label
                                         [] u \in Unused \ {t} -> u
                                         [] OTHER -> family[u]]
        /\ current' = (current \ Unused) \cup (IF call[c].fresh THEN {t} ELSE {})
        /\ expired' = expired \ Unused
        /\ call' = [call EXCEPT ![c] = issued]
        /\ UNCHANGED <<statusVars, cookie, tabVars, taskVars>>
    BY DEF Issue
  <1>3. /\ label \in Tokens
        /\ \A u \in Tokens \ Unused : stored[u] = "LIVE" => family[u] # label
    BY <1>1, NewFamilyIsNew DEF Types
  <1>4. /\ issued \in CallRecords /\ issued # Idle /\ issued.at = "ok"
        /\ issued.fresh = call[c].fresh
        /\ issued.kind = call[c].kind /\ issued.tab = call[c].tab
    <2>1. call[c] \in CallRecords
      BY CallShape
    <2>2. issued \in CallRecords
      BY <1>1, <2>1 DEF CallRecords
    <2>3. /\ issued.at = "ok" /\ issued.fresh = call[c].fresh
          /\ issued.kind = call[c].kind /\ issued.tab = call[c].tab
      BY <2>1 DEF CallRecords
    <2>4. QED
      BY <2>2, <2>3
  <1> HIDE DEF label, issued
  <1>5. /\ c \in Calls /\ call[c] # Idle /\ call'[c] = issued
        /\ \A d \in Calls : d # c => call'[d] = call[d]
    BY <1>2, CallShape DEF Types
  <1>6. Types'
    <2>1. row' \in [Tokens -> {"NONE", "LIVE", "REVOKED"}]
      BY <1>2
    <2>2. family' \in [Tokens -> Tokens]
      BY <1>2, <1>3 DEF Types
    <2>3. call' \in [Calls -> CallRecords \cup {Idle}]
      BY <1>2, <1>4 DEF Types
    <2>4. current' \in SUBSET Tokens /\ expired' \in SUBSET Tokens
      BY <1>1, <1>2 DEF Types
    <2>5. QED
      BY <1>2, <2>1, <2>2, <2>3, <2>4 DEF Types, statusVars, tabVars, taskVars
  <1>7. WaitsAgree' /\ PromisesAreRefreshes'
    <2>1. CallsGoOn
      BY <1>4, <1>5 DEF CallsGoOn
    <2>2. QED
      BY <1>2, <2>1, ServerKeepsBrowser DEF SessionInvariant
  <1>8. ReadsCarryTokens'
    BY <1>4, <1>5 DEF SessionInvariant, ReadsCarryTokens, Busy
  <1>9. InactiveIsStale'
    BY <1>2, <1>4, <1>5 DEF SessionInvariant, InactiveIsStale, Busy, statusVars
  <1>10. DeactivationIsFinal'
    BY <1>2 DEF SessionInvariant, DeactivationIsFinal, InactiveIsStale, statusVars
  <1>11. RotationKeepsOne'
    <2>1. /\ family'[t] = label
          /\ \A u \in Tokens : row'[u] = "LIVE" =>
               u = t \/ (u \in Tokens \ Unused /\ stored[u] = "LIVE" /\ family'[u] = family[u])
      BY <1>1, <1>2
    <2> SUFFICES ASSUME NEW u \in Tokens, NEW v \in Tokens,
                        row'[u] = "LIVE", row'[v] = "LIVE", family'[u] = family'[v]
                 PROVE  u = v
      BY DEF RotationKeepsOne
    <2>2. CASE u = t \/ v = t
      BY <1>3, <2>1, <2>2
    <2>3. CASE u # t /\ v # t
      <3>1. row[u] = "LIVE" /\ row[v] = "LIVE" /\ family[u] = family[v]
        BY <2>1, <2>3
      <3>2. QED
        BY <3>1 DEF SessionInvariant, RotationKeepsOne
    <2>4. QED
      BY <2>2, <2>3
  <1>12. QED
    BY <1>6, <1>7, <1>8, <1>9, <1>10, <1>11 DEF SessionInvariant

(* The token a refresh carries is the one live token of its login, and the *)
(* rotation revokes it.                                                    *)
LEMMA RotateKeeps ==
    ASSUME Types, WaitsAgree, SessionInvariant, NEW c \in Calls, Rotate(c)
    PROVE  Types' /\ WaitsAgree' /\ SessionInvariant'
  <1> DEFINE old == call[c].token
             stored == [row EXCEPT ![old] = "REVOKED"]
  <1>1. c \in Busy /\ old \in Tokens /\ row[old] = "LIVE"
    BY DEF Rotate, SessionInvariant, ReadsCarryTokens
  <1>2. PICK t \in Unused : Issue(c, t, old, stored)
    BY DEF Rotate
  <1>3. stored \in [Tokens -> {"NONE", "LIVE", "REVOKED"}]
    BY DEF Types
  <1>4. \A u \in Tokens : stored[u] = "LIVE" => row[u] = "LIVE" /\ u # old
    BY <1>1 DEF Types
  <1>5. \A u \in Tokens : stored[u] = "LIVE" => family[u] # family[old]
    BY <1>1, <1>4 DEF SessionInvariant, RotationKeepsOne
  <1> HIDE DEF old, stored
  <1>6. QED
    BY <1>1, <1>2, <1>3, <1>4, <1>5, IssueKeeps

LEMMA CommitLoginKeeps ==
    ASSUME Types, WaitsAgree, SessionInvariant, NEW c \in Calls, CommitLogin(c)
    PROVE  Types' /\ WaitsAgree' /\ SessionInvariant'
  <1>1. c \in Busy /\ row \in [Tokens -> {"NONE", "LIVE", "REVOKED"}]
    BY DEF CommitLogin, Types
  <1>2. PICK t \in Unused : Issue(c, t, NoToken, row)
    BY DEF CommitLogin
  <1>3. QED
    BY <1>1, <1>2, IssueKeeps

(* What the API does with a call keeps the invariant.                      *)
LEMMA ServeKeeps ==
    ASSUME Types, WaitsAgree, SessionInvariant, NEW c \in Calls, Serve(c) \/ Lose(c)
    PROVE  Types' /\ WaitsAgree' /\ SessionInvariant'
  BY ServingEffect, ServingKeeps, RotateKeeps, CommitLoginKeeps DEF Serve

(* Every token is revoked and every version outdated.                       *)
LEMMA RaiseKeeps ==
    ASSUME Types, WaitsAgree, SessionInvariant, RevokeAll, RaiseVersion, active' \in BOOLEAN,
           deciding' \in [Admins -> {"idle", "active", "inactive"}],
           UNCHANGED <<family, browser>>
    PROVE  Types' /\ WaitsAgree' /\ SessionInvariant'
  <1>1. /\ row' = [t \in Tokens |-> IF row[t] = "LIVE" THEN "REVOKED" ELSE row[t]]
        /\ UNCHANGED <<family, expired, cookie, tabVars, taskVars>>
    BY DEF RevokeAll, browser
  <1>2. row' \in [Tokens -> {"NONE", "LIVE", "REVOKED"}] /\ RotationKeepsOne'
    BY <1>1 DEF Types, RotationKeepsOne
  <1>3. /\ current' = {} /\ missed' = FALSE
        /\ call' = [c \in Calls |-> IF c \in Busy THEN [call[c] EXCEPT !.fresh = FALSE] ELSE Idle]
    BY DEF RaiseVersion
  <1>4. ASSUME NEW c \in Busy
        PROVE  /\ call'[c] \in CallRecords /\ ~call'[c].fresh
               /\ call'[c].kind = call[c].kind /\ call'[c].tab = call[c].tab
               /\ call'[c].at = call[c].at /\ call'[c].token = call[c].token
    <2>1. c \in Calls /\ call[c] \in CallRecords
      BY CallShape
    <2>2. call'[c] = [call[c] EXCEPT !.fresh = FALSE]
      BY <1>3, <2>1
    <2>3. QED
      BY <2>1, <2>2 DEF CallRecords
  <1>5. \A c \in Calls : call'[c] # Idle <=> c \in Busy
    BY <1>3, <1>4 DEF Busy
  <1>6. Types'
    <2>1. call' \in [Calls -> CallRecords \cup {Idle}]
      BY <1>3, <1>4
    <2>2. missed' \in BOOLEAN
      BY <1>3
    <2>3. QED
      BY <1>1, <1>2, <1>3, <2>1, <2>2 DEF Types, tabVars, taskVars
  <1>7. WaitsAgree' /\ PromisesAreRefreshes'
    <2>1. CallsGoOn
      BY <1>4, <1>5 DEF CallsGoOn, Busy
    <2>2. QED
      BY <1>1, <2>1, ServerKeepsBrowser DEF SessionInvariant
  <1>8. ReadsCarryTokens' /\ InactiveIsStale' /\ DeactivationIsFinal'
    BY <1>3, <1>4, <1>5
    DEF SessionInvariant, ReadsCarryTokens, InactiveIsStale, DeactivationIsFinal, Busy
  <1>9. QED
    BY <1>2, <1>6, <1>7, <1>8 DEF SessionInvariant

(* Every token is revoked and every version left as it is: the user was    *)
(* inactive already, or this is the race DeactivationIsFinal excepts.      *)
LEMMA RevokeKeeps ==
    ASSUME Types, WaitsAgree, SessionInvariant, RevokeAll, active' \in BOOLEAN,
           missed' \in BOOLEAN, deciding' \in [Admins -> {"idle", "active", "inactive"}],
           UNCHANGED <<current, call, family, browser>>,
           missed' \/ (~active /\ ~missed)
    PROVE  Types' /\ WaitsAgree' /\ SessionInvariant'
  <1>1. /\ row' = [t \in Tokens |-> IF row[t] = "LIVE" THEN "REVOKED" ELSE row[t]]
        /\ UNCHANGED <<current, call, family, expired, cookie, tabVars, taskVars>>
    BY DEF RevokeAll, browser
  <1>2. row' \in [Tokens -> {"NONE", "LIVE", "REVOKED"}] /\ RotationKeepsOne'
    BY <1>1 DEF Types, RotationKeepsOne
  <1>3. Types' /\ WaitsAgree' /\ PromisesAreRefreshes'
    BY <1>1, <1>2 DEF Types, WaitsAgree, SessionInvariant, PromisesAreRefreshes, tabVars, taskVars
  <1>4. ReadsCarryTokens' /\ InactiveIsStale' /\ DeactivationIsFinal'
    BY <1>1 DEF SessionInvariant, ReadsCarryTokens, InactiveIsStale, DeactivationIsFinal, Busy
  <1>5. QED
    BY <1>2, <1>3, <1>4 DEF SessionInvariant

(* A row or a version changes only with a step of its own: nothing of the  *)
(* user's sessions changes when a deactivation begins or a user is active. *)
LEMMA StatusKeeps ==
    ASSUME Types, WaitsAgree, SessionInvariant,
           UNCHANGED <<row, current, family, call, browser>>,
           active' \in BOOLEAN, missed' \in BOOLEAN,
           deciding' \in [Admins -> {"idle", "active", "inactive"}],
           active' \/ (active' = active /\ missed' = missed)
    PROVE  Types' /\ WaitsAgree' /\ SessionInvariant'
  <1>1. UNCHANGED <<row, current, family, call, expired, cookie, tabVars, taskVars>>
    BY DEF browser
  <1>2. Types' /\ WaitsAgree' /\ PromisesAreRefreshes'
    BY <1>1 DEF Types, WaitsAgree, SessionInvariant, PromisesAreRefreshes, tabVars, taskVars
  <1>3. ReadsCarryTokens' /\ InactiveIsStale' /\ RotationKeepsOne' /\ DeactivationIsFinal'
    BY <1>1 DEF SessionInvariant, ReadsCarryTokens, InactiveIsStale, RotationKeepsOne,
                DeactivationIsFinal, Busy
  <1>4. QED
    BY <1>2, <1>3 DEF SessionInvariant

LEMMA AdministerKeeps ==
    ASSUME Types, WaitsAgree, SessionInvariant, NEW a \in Admins, Administer(a)
    PROVE  Types' /\ WaitsAgree' /\ SessionInvariant'
  <1>0. /\ active \in BOOLEAN /\ missed \in BOOLEAN
        /\ deciding \in [Admins -> {"idle", "active", "inactive"}]
    BY DEF Types
  <1>1. CASE BeginDeactivation(a)
    <2>1. /\ deciding' = [deciding EXCEPT ![a] = IF active THEN "active" ELSE "inactive"]
          /\ UNCHANGED <<row, current, family, active, missed, call, browser>>
      BY <1>1 DEF BeginDeactivation
    <2>2. deciding' \in [Admins -> {"idle", "active", "inactive"}]
      BY <1>0, <2>1
    <2>3. QED
      BY <1>0, <2>1, <2>2, StatusKeeps
  <1>2. CASE CommitDeactivation(a)
    <2>1. /\ deciding' = [deciding EXCEPT ![a] = "idle"]
          /\ active' = FALSE /\ RevokeAll /\ UNCHANGED <<family, browser>>
      BY <1>2 DEF CommitDeactivation
    <2>2. deciding' \in [Admins -> {"idle", "active", "inactive"}] /\ active' \in BOOLEAN
      BY <1>0, <2>1
    <2>3. CASE deciding[a] = "active"
      <3>1. RaiseVersion
        BY <1>2, <2>3 DEF CommitDeactivation
      <3>2. QED
        BY <2>1, <2>2, <3>1, RaiseKeeps
    <2>4. CASE deciding[a] # "active"
      <3>1. missed' = (missed \/ active) /\ UNCHANGED <<current, call>>
        BY <1>2, <2>4 DEF CommitDeactivation
      <3>2. missed' \in BOOLEAN /\ (missed' \/ (~active /\ ~missed))
        BY <1>0, <3>1
      <3>3. QED
        BY <2>1, <2>2, <3>1, <3>2, RevokeKeeps
    <2>5. QED
      BY <2>3, <2>4
  <1>3. CASE Activate
    BY <1>0, <1>3, StatusKeeps DEF Activate
  <1>4. CASE ChangeRoles
    <2>1. RevokeAll /\ RaiseVersion /\ UNCHANGED <<family, active, deciding, browser>>
      BY <1>4 DEF ChangeRoles
    <2>2. deciding' \in [Admins -> {"idle", "active", "inactive"}] /\ active' \in BOOLEAN
      BY <1>0, <2>1
    <2>3. QED
      BY <2>1, <2>2, RaiseKeeps
  <1>5. QED
    BY <1>1, <1>2, <1>3, <1>4 DEF Administer

LEMMA ExpireKeeps ==
    ASSUME Types, WaitsAgree, SessionInvariant, NEW b \in Tabs, Expire(b)
    PROVE  Types' /\ WaitsAgree' /\ SessionInvariant'
  <1>1. /\ expired' \in SUBSET Tokens
        /\ UNCHANGED <<serverVars, cookie, call, tabVars, taskVars>>
    BY DEF Expire, Types
  <1>2. Types' /\ WaitsAgree' /\ PromisesAreRefreshes'
    BY <1>1 DEF Types, WaitsAgree, SessionInvariant, PromisesAreRefreshes, serverVars, statusVars,
                tabVars, taskVars
  <1>3. RowsStay
    BY <1>1 DEF RowsStay
  <1>4. QED
    BY <1>2, <1>3, RowsStaySound DEF SessionInvariant

-----------------------------------------------------------------------------
(* The tabs.                                                               *)

(* A task begins to wait for a call that its tab has under way or sends.   *)
Awaits(k, next) ==
    /\ next \in Awaiting
    /\ stage' = [stage EXCEPT ![k] = next]
    /\ \E c \in Calls :
         /\ waits' = [waits EXCEPT ![k] = c]
         /\ \/ /\ c = refreshPromise[TabOf[k]]
               /\ UNCHANGED <<call, refreshPromise>>
            \/ /\ call[c] = Idle
               /\ \E kind \in {"refresh", "login", "logout"} :
                    /\ call' = [call EXCEPT ![c] = Sent(kind, TabOf[k])]
                    /\ \/ UNCHANGED refreshPromise
                       \/ /\ kind = "refresh"
                          /\ refreshPromise' = [refreshPromise EXCEPT ![TabOf[k]] = c]

LEMMA RefreshAwaits ==
    ASSUME Types, NEW k \in Tasks, NEW next \in Awaiting, Refresh(k, next)
    PROVE  Awaits(k, next)
  <1>1. CASE refreshPromise[TabOf[k]] # NoCall
    BY <1>1 DEF Refresh, Awaits, Types
  <1>2. CASE refreshPromise[TabOf[k]] = NoCall
    <2>1. PICK c \in Free : /\ call' = [call EXCEPT ![c] = Sent("refresh", TabOf[k])]
                            /\ refreshPromise' = [refreshPromise EXCEPT ![TabOf[k]] = c]
                            /\ waits' = [waits EXCEPT ![k] = c]
      BY <1>2 DEF Refresh
    <2>2. c \in Calls /\ call[c] = Idle
      BY DEF Free, Busy
    <2>3. QED
      BY <2>1, <2>2 DEF Refresh, Awaits
  <1>3. QED
    BY <1>1, <1>2

LEMMA PostAwaits ==
    ASSUME Types, NEW k \in Tasks, NEW kind \in {"login", "logout"}, NEW next \in Awaiting,
           Post(k, kind, next)
    PROVE  Awaits(k, next)
  <1>1. PICK c \in Free : /\ call' = [call EXCEPT ![c] = Sent(kind, TabOf[k])]
                          /\ waits' = [waits EXCEPT ![k] = c]
    BY DEF Post
  <1>2. c \in Calls /\ call[c] = Idle
    BY DEF Free, Busy
  <1>3. QED
    BY <1>1, <1>2 DEF Post, Awaits

LEMMA SentIsCall ==
    ASSUME Types, NEW kind \in {"refresh", "login", "logout"}, NEW b \in Tabs
    PROVE  Sent(kind, b) \in CallRecords
  <1> DEFINE token == IF kind = "login" THEN NoToken ELSE cookie
  <1>1. token \in Tokens \cup {NoToken}
    BY DEF Types
  <1>2. Sent(kind, b) = [kind |-> kind, tab |-> b, token |-> token, at |-> "sent",
                         fresh |-> FALSE, new |-> NoToken]
    BY DEF Sent
  <1> HIDE DEF token
  <1>3. QED
    BY <1>1, <1>2 DEF CallRecords

LEMMA AwaitsKeeps ==
    ASSUME Types, WaitsAgree, SessionInvariant, NEW k \in Tasks, NEW next, Awaits(k, next),
           UNCHANGED <<serverVars, expired, cookie, accessToken>>,
           phase' \in [Tabs -> {"loading", "in", "out"}], told' \in [Tabs -> BOOLEAN],
           carried' \in [Tasks -> Tokens \cup {NoToken}]
    PROVE  Types' /\ WaitsAgree' /\ SessionInvariant'
  <1>1. /\ next \in Awaiting /\ next \in Stages
        /\ stage' = [stage EXCEPT ![k] = next]
    BY DEF Awaits, Awaiting, Stages
  <1>2. TabOf[k] \in Tabs
    OBVIOUS
  <1>3. PICK c \in Calls :
          /\ waits' = [waits EXCEPT ![k] = c]
          /\ \/ c = refreshPromise[TabOf[k]] /\ UNCHANGED <<call, refreshPromise>>
             \/ /\ call[c] = Idle
                /\ \E kind \in {"refresh", "login", "logout"} :
                     /\ call' = [call EXCEPT ![c] = Sent(kind, TabOf[k])]
                     /\ \/ UNCHANGED refreshPromise
                        \/ /\ kind = "refresh"
                           /\ refreshPromise' = [refreshPromise EXCEPT ![TabOf[k]] = c]
    BY DEF Awaits
  <1>4. /\ call' \in [Calls -> CallRecords \cup {Idle}]
        /\ call'[c] # Idle /\ call'[c].tab = TabOf[k]
        /\ \A d \in Calls : call[d] # Idle => call'[d] = call[d]
        /\ \A d \in Calls : call'[d] # call[d] =>
             call[d] = Idle /\ call'[d].at = "sent" /\ call'[d].fresh = FALSE
        /\ refreshPromise' \in [Tabs -> Calls \cup {NoCall}]
        /\ \A b \in Tabs : refreshPromise'[b] = refreshPromise[b]
             \/ (b = TabOf[k] /\ refreshPromise'[b] = c /\ call'[c].kind = "refresh")
    <2>1. CASE c = refreshPromise[TabOf[k]] /\ UNCHANGED <<call, refreshPromise>>
      BY <1>2, <2>1 DEF Types, SessionInvariant, PromisesAreRefreshes
    <2>2. ASSUME NEW kind \in {"refresh", "login", "logout"}, call[c] = Idle,
                 call' = [call EXCEPT ![c] = Sent(kind, TabOf[k])],
                 \/ UNCHANGED refreshPromise
                 \/ /\ kind = "refresh"
                    /\ refreshPromise' = [refreshPromise EXCEPT ![TabOf[k]] = c]
          PROVE  <1>4
      <3>1. Sent(kind, TabOf[k]) \in CallRecords /\ Sent(kind, TabOf[k]) # Idle
        BY <1>2, SentIsCall
      <3>2. /\ Sent(kind, TabOf[k]).kind = kind /\ Sent(kind, TabOf[k]).tab = TabOf[k]
            /\ Sent(kind, TabOf[k]).at = "sent" /\ Sent(kind, TabOf[k]).fresh = FALSE
        BY DEF Sent
      <3>3. /\ call' \in [Calls -> CallRecords \cup {Idle}]
            /\ call'[c] = Sent(kind, TabOf[k])
            /\ \A d \in Calls : d # c => call'[d] = call[d]
        BY <2>2, <3>1 DEF Types
      <3>4. /\ refreshPromise' \in [Tabs -> Calls \cup {NoCall}]
            /\ \A b \in Tabs : refreshPromise'[b] = refreshPromise[b]
                 \/ (b = TabOf[k] /\ refreshPromise'[b] = c /\ kind = "refresh")
        BY <2>2 DEF Types
      <3>5. QED
        BY <2>2, <3>1, <3>2, <3>3, <3>4
    <2>3. QED
      BY <1>3, <2>1, <2>2
  <1>5. Types'
    BY <1>1, <1>3, <1>4 DEF Types, serverVars, statusVars
  <1>6. WaitsAgree'
    BY <1>1, <1>3, <1>4 DEF Types, WaitsAgree
  <1>7. PromisesAreRefreshes'
    BY <1>2, <1>4 DEF Types, SessionInvariant, PromisesAreRefreshes
  <1>8. RowsStay
    BY <1>4 DEF RowsStay
  <1>9. QED
    BY <1>5, <1>6, <1>7, <1>8, RowsStaySound DEF SessionInvariant

(* A task is not waiting, before and after; the calls stay as they are.    *)
LEMMA CallsStayKeeps ==
    ASSUME Types, WaitsAgree, SessionInvariant, UNCHANGED <<serverVars, expired, cookie, call, waits>>,
           accessToken' \in [Tabs -> Tokens \cup {NoToken}],
           refreshPromise' \in [Tabs -> Calls \cup {NoCall}],
           phase' \in [Tabs -> {"loading", "in", "out"}], told' \in [Tabs -> BOOLEAN],
           carried' \in [Tasks -> Tokens \cup {NoToken}],
           \A b \in Tabs : refreshPromise'[b] \in {NoCall, refreshPromise[b]},
           NEW k \in Tasks, NEW next \in Stages \ Awaiting, stage[k] \notin Awaiting,
           stage' = [stage EXCEPT ![k] = next]
    PROVE  Types' /\ WaitsAgree' /\ SessionInvariant'
  <1>1. Types'
    BY DEF Types, serverVars, statusVars
  <1>2. WaitsAgree'
    BY DEF Types, WaitsAgree
  <1>3. PromisesAreRefreshes'
    BY DEF Types, SessionInvariant, PromisesAreRefreshes
  <1>4. RowsStay
    BY DEF RowsStay
  <1>5. QED
    BY <1>1, <1>2, <1>3, <1>4, RowsStaySound DEF SessionInvariant

LEMMA FinishKeeps ==
    ASSUME Types, WaitsAgree, SessionInvariant, NEW k \in Tasks, NEW ok \in BOOLEAN,
           stage[k] \in {"request", "again"}, Finish(k, ok),
           UNCHANGED <<serverVars, expired, cookie, call, waits>>
    PROVE  Types' /\ WaitsAgree' /\ SessionInvariant'
  <1>1. /\ stage' = [stage EXCEPT ![k] = "idle"]
        /\ carried' = [carried EXCEPT ![k] = NoToken]
        /\ stage[k] \notin Awaiting /\ "idle" \in Stages \ Awaiting
    BY DEF Finish, Awaiting, Stages
  <1>2. TabOf[k] \in Tabs
    OBVIOUS
  <1>3. /\ accessToken' \in [Tabs -> Tokens \cup {NoToken}]
        /\ refreshPromise' \in [Tabs -> Calls \cup {NoCall}]
        /\ phase' \in [Tabs -> {"loading", "in", "out"}]
        /\ told' \in [Tabs -> BOOLEAN]
        /\ \A b \in Tabs : refreshPromise'[b] \in {NoCall, refreshPromise[b]}
    <2>1. CASE KindOf[k] = "query"
      BY <2>1 DEF Finish, Types
    <2>2. CASE KindOf[k] # "query"
      <3>1. /\ phase' = [phase EXCEPT ![TabOf[k]] = IF ok THEN "in" ELSE "out"]
            /\ told' = [told EXCEPT ![TabOf[k]] = ~ok]
            /\ accessToken' = [accessToken EXCEPT ![TabOf[k]] = IF ok THEN @ ELSE NoToken]
            /\ refreshPromise' = [refreshPromise EXCEPT ![TabOf[k]] = IF ok THEN @ ELSE NoCall]
        BY <2>2 DEF Finish
      <3>2. QED
        BY <1>2, <3>1 DEF Types
    <2>3. QED
      BY <2>1, <2>2
  <1>4. carried' \in [Tasks -> Tokens \cup {NoToken}]
    BY <1>1 DEF Types
  <1>5. QED
    BY <1>1, <1>3, <1>4, CallsStayKeeps

LEMMA TaskKeeps ==
    ASSUME Types, WaitsAgree, SessionInvariant, NEW k \in Tasks, Start(k) \/ Continue(k) \/ Drop(k)
    PROVE  Types' /\ WaitsAgree' /\ SessionInvariant'
  <1>0. TabOf[k] \in Tabs
    OBVIOUS
  <1>1. CASE StartRestore(k)
    <2>1. Awaits(k, "awaitRefresh")
      BY <1>1, RefreshAwaits DEF StartRestore, Awaiting
    <2>2. QED
      BY <1>1, <2>1, AwaitsKeeps DEF StartRestore, Types
  <1>2. ASSUME NEW kind \in {"login", "logout"}, NEW next \in Awaiting, Post(k, kind, next)
        PROVE  Types' /\ WaitsAgree' /\ SessionInvariant'
    <2>1. Awaits(k, next)
      BY <1>2, PostAwaits
    <2>2. QED
      BY <1>2, <2>1, AwaitsKeeps DEF Post, Types
  <1>3. CASE StartLogin(k) \/ StartLogout(k)
    BY <1>2, <1>3 DEF StartLogin, StartLogout, Awaiting
  <1>4. CASE StartQuery(k)
    <2>1. /\ stage[k] \notin Awaiting /\ "request" \in Stages \ Awaiting
          /\ stage' = [stage EXCEPT ![k] = "request"]
          /\ carried' \in [Tasks -> Tokens \cup {NoToken}]
          /\ UNCHANGED <<serverVars, expired, cookie, call, tabVars, waits>>
      BY <1>0, <1>4 DEF StartQuery, Awaiting, Stages, Types
    <2>2. QED
      BY <2>1, CallsStayKeeps DEF tabVars, Types
  <1>5. CASE Respond(k)
    BY <1>5, FinishKeeps DEF Respond, Validated
  <1>6. CASE Drop(k)
    BY <1>6, FinishKeeps DEF Drop
  <1>7. CASE Unauthorized(k)
    <2>1. Awaits(k, "refreshing")
      BY <1>7, RefreshAwaits DEF Unauthorized, Awaiting
    <2>2. QED
      BY <1>7, <2>1, AwaitsKeeps DEF Unauthorized, Types
  <1>8. QED
    BY <1>1, <1>3, <1>4, <1>5, <1>6, <1>7 DEF Start, Continue

LEMMA ReloadKeeps ==
    ASSUME Types, WaitsAgree, SessionInvariant, NEW b \in Tabs, Reload(b)
    PROVE  Types' /\ WaitsAgree' /\ SessionInvariant'
  <1>1. /\ accessToken' = [accessToken EXCEPT ![b] = NoToken]
        /\ refreshPromise' = [refreshPromise EXCEPT ![b] = NoCall]
        /\ phase' = [phase EXCEPT ![b] = "loading"]
        /\ told' = [told EXCEPT ![b] = FALSE]
        /\ stage' = [k \in Tasks |-> IF TabOf[k] = b THEN "idle" ELSE stage[k]]
        /\ carried' = [k \in Tasks |-> IF TabOf[k] = b THEN NoToken ELSE carried[k]]
        /\ waits' = [k \in Tasks |-> IF TabOf[k] = b THEN NoCall ELSE waits[k]]
        /\ UNCHANGED <<serverVars, expired, cookie>>
    BY DEF Reload
  <1>2. call' = [c \in Calls |-> IF c \in Busy /\ call[c].tab = b
                                   THEN [call[c] EXCEPT !.tab = NoTab] ELSE call[c]]
    BY DEF Reload
  <1>3. ASSUME NEW c \in Busy, call[c].tab = b
        PROVE  /\ call'[c] \in CallRecords /\ call'[c] # Idle
               /\ call'[c].kind = call[c].kind /\ call'[c].token = call[c].token
               /\ call'[c].at = call[c].at /\ call'[c].fresh = call[c].fresh
    <2>1. c \in Calls /\ call[c] \in CallRecords
      BY CallShape
    <2>2. call'[c] = [call[c] EXCEPT !.tab = NoTab]
      BY <1>2, <1>3, <2>1
    <2>3. QED
      BY <2>1, <2>2 DEF CallRecords
  <1>4. \A c \in Calls : (c \in Busy /\ call[c].tab = b) \/ call'[c] = call[c]
    BY <1>2
  <1>5. Types'
    <2>1. call' \in [Calls -> CallRecords \cup {Idle}]
      BY <1>2, <1>3, <1>4 DEF Types
    <2>2. /\ stage' \in [Tasks -> Stages] /\ carried' \in [Tasks -> Tokens \cup {NoToken}]
          /\ waits' \in [Tasks -> Calls \cup {NoCall}]
      BY <1>1 DEF Types, Stages
    <2>3. QED
      BY <1>1, <2>1, <2>2 DEF Types, serverVars, statusVars
  <1>6. WaitsAgree'
    BY <1>1, <1>4 DEF Types, WaitsAgree, Awaiting
  <1>7. PromisesAreRefreshes'
    BY <1>1, <1>4 DEF Types, SessionInvariant, PromisesAreRefreshes
  <1>8. RowsStay
    BY <1>1, <1>3, <1>4 DEF RowsStay, Busy
  <1>9. QED
    BY <1>5, <1>6, <1>7, <1>8, RowsStaySound DEF SessionInvariant

(* An answer ends its call for everything that waits for it.               *)
LEMMA DeliverKeeps ==
    ASSUME Types, WaitsAgree, SessionInvariant, NEW c \in Calls, Deliver(c)
    PROVE  Types' /\ WaitsAgree' /\ SessionInvariant'
  <1> DEFINE b == call[c].tab
             waiting == {k \in Tasks : waits[k] = c}
             ok == call[c].at = "ok"
  <1>1. /\ c \in Busy /\ b \in Tabs \cup {NoTab} /\ call[c].new \in Tokens \cup {NoToken}
        /\ call[c].kind \in {"refresh", "login", "logout"}
    BY CallShape DEF Deliver
  <1>2. /\ cookie' = CookieAfter(c)
        /\ call' = [call EXCEPT ![c] = Idle]
        /\ stage' = [k \in Tasks |-> IF k \in waiting THEN NextStage(k, ok) ELSE stage[k]]
        /\ carried' = [k \in Tasks |->
             IF k \in waiting /\ ~SignedOut(c) THEN call[c].new ELSE carried[k]]
        /\ waits' = [k \in Tasks |-> IF k \in waiting THEN NoCall ELSE waits[k]]
        /\ UNCHANGED <<serverVars, expired>>
    BY DEF Deliver
  <1>3. \/ b = NoTab /\ UNCHANGED tabVars
        \/ /\ b \in Tabs
           /\ accessToken' = [accessToken EXCEPT ![b] =
                IF SignedOut(c) THEN NoToken ELSE call[c].new]
           /\ refreshPromise' = [refreshPromise EXCEPT ![b] = PromiseAfter(c, b)]
           /\ phase' = [phase EXCEPT ![b] = IF SignedOut(c) THEN "out" ELSE @]
           /\ told' = [told EXCEPT ![b] = IF SignedOut(c) THEN call[c].kind = "refresh" ELSE @]
    BY <1>1 DEF Deliver
  <1>4. cookie' \in Tokens \cup {NoToken}
    BY <1>1, <1>2 DEF CookieAfter, Types
  <1>5. \A k \in waiting : NextStage(k, ok) \in Stages \ Awaiting
    BY DEF WaitsAgree, NextStage, Awaiting, Stages
  <1>6. /\ call' \in [Calls -> CallRecords \cup {Idle}] /\ call'[c] = Idle
        /\ \A d \in Calls : d # c => call'[d] = call[d]
    BY <1>2 DEF Types
  <1>7. \A a \in Tabs : /\ refreshPromise'[a] \in {NoCall, refreshPromise[a]}
                        /\ refreshPromise'[a] # c
    <2>1. ASSUME NEW a \in Tabs, refreshPromise[a] = c
          PROVE  a = b /\ call[c].kind = "refresh"
      BY <2>1 DEF SessionInvariant, PromisesAreRefreshes
    <2>2. CASE b = NoTab /\ UNCHANGED tabVars
      BY <2>1, <2>2 DEF tabVars
    <2>3. CASE b \in Tabs /\ refreshPromise' = [refreshPromise EXCEPT ![b] = PromiseAfter(c, b)]
      <3>1. PromiseAfter(c, b) \in {NoCall, refreshPromise[b]}
        BY DEF PromiseAfter
      <3>2. refreshPromise[b] = c => PromiseAfter(c, b) = NoCall
        BY <2>1, <2>3 DEF PromiseAfter
      <3> HIDE DEF b
      <3>3. QED
        BY <2>1, <2>3, <3>1, <3>2 DEF Types
    <2>4. QED
      BY <1>3, <2>2, <2>3
  <1>8. /\ accessToken' \in [Tabs -> Tokens \cup {NoToken}]
        /\ refreshPromise' \in [Tabs -> Calls \cup {NoCall}]
        /\ phase' \in [Tabs -> {"loading", "in", "out"}]
        /\ told' \in [Tabs -> BOOLEAN]
    <2>1. CASE b = NoTab /\ UNCHANGED tabVars
      BY <2>1 DEF Types, tabVars
    <2>2. CASE b # NoTab
      <3>1. b \in Tabs => PromiseAfter(c, b) \in Calls \cup {NoCall}
        BY DEF PromiseAfter, Types
      <3>2. (IF SignedOut(c) THEN call[c].kind = "refresh" ELSE told[b]) \in BOOLEAN
        BY <1>1, <2>2 DEF Types
      <3> HIDE DEF b
      <3>3. told' \in [Tabs -> BOOLEAN]
        BY <1>3, <2>2, <3>2 DEF Types
      <3>4. /\ accessToken' \in [Tabs -> Tokens \cup {NoToken}]
            /\ refreshPromise' \in [Tabs -> Calls \cup {NoCall}]
            /\ phase' \in [Tabs -> {"loading", "in", "out"}]
        BY <1>1, <1>3, <2>2, <3>1 DEF Types
      <3>5. QED
        BY <3>3, <3>4
    <2>3. QED
      BY <1>3, <2>1, <2>2
  <1> HIDE DEF b, ok
  <1>9. Types'
    <2>1. stage' \in [Tasks -> Stages]
      BY <1>2, <1>5 DEF Types
    <2>2. /\ carried' \in [Tasks -> Tokens \cup {NoToken}]
          /\ waits' \in [Tasks -> Calls \cup {NoCall}]
      BY <1>1, <1>2 DEF Types
    <2>3. QED
      BY <1>2, <1>4, <1>6, <1>8, <2>1, <2>2 DEF Types, serverVars, statusVars
  <1>10. WaitsAgree'
    BY <1>2, <1>5, <1>6 DEF Types, WaitsAgree
  <1>11. PromisesAreRefreshes'
    BY <1>6, <1>7 DEF Types, SessionInvariant, PromisesAreRefreshes
  <1>12. RowsStay
    BY <1>2, <1>6 DEF RowsStay
  <1>13. QED
    BY <1>9, <1>10, <1>11, <1>12, RowsStaySound DEF SessionInvariant

-----------------------------------------------------------------------------
(* The theorem.                                                            *)

LEMMA InitKeeps == Init => Types /\ WaitsAgree /\ SessionInvariant
  <1> SUFFICES ASSUME Init PROVE Types /\ WaitsAgree /\ SessionInvariant
    OBVIOUS
  <1>1. /\ cookie \in Tokens \cup {NoToken}
        /\ row = [t \in Tokens |-> IF t = cookie THEN "LIVE" ELSE "NONE"]
        /\ family = [t \in Tokens |-> t] /\ active /\ Busy = {}
    BY DEF Init, Busy
  <1>2. Types
    BY <1>1 DEF Init, Types, Stages
  <1>3. WaitsAgree /\ PromisesAreRefreshes
    BY DEF Init, WaitsAgree, PromisesAreRefreshes, Awaiting
  <1>4. ReadsCarryTokens /\ InactiveIsStale /\ RotationKeepsOne /\ DeactivationIsFinal
    BY <1>1 DEF ReadsCarryTokens, InactiveIsStale, RotationKeepsOne, DeactivationIsFinal
  <1>5. QED
    BY <1>2, <1>3, <1>4 DEF SessionInvariant

LEMMA StepKeeps ==
    ASSUME Types, WaitsAgree, SessionInvariant, [Next]_vars
    PROVE  Types' /\ WaitsAgree' /\ SessionInvariant'
  <1>1. ASSUME NEW c \in Calls, Serve(c) \/ Lose(c) \/ Deliver(c)
        PROVE  Types' /\ WaitsAgree' /\ SessionInvariant'
    BY <1>1, ServeKeeps, DeliverKeeps
  <1>2. ASSUME NEW b \in Tabs, Reload(b) \/ Expire(b)
        PROVE  Types' /\ WaitsAgree' /\ SessionInvariant'
    BY <1>2, ReloadKeeps, ExpireKeeps
  <1>3. CASE UNCHANGED vars
    <2>1. UNCHANGED <<serverVars, expired, cookie, call, tabVars, taskVars>>
      BY <1>3 DEF vars
    <2>2. Types' /\ WaitsAgree' /\ PromisesAreRefreshes'
      BY <2>1 DEF Types, WaitsAgree, SessionInvariant, PromisesAreRefreshes, serverVars, statusVars, tabVars,
                  taskVars
    <2>3. RowsStay
      BY <2>1 DEF RowsStay
    <2>4. QED
      BY <2>2, <2>3, RowsStaySound DEF SessionInvariant
  <1>4. QED
    BY <1>1, <1>2, <1>3, TaskKeeps, AdministerKeeps DEF Next

(* The inductive invariant: besides the properties, what tasks and         *)
(* promises refer to is under way, and what has read an active user is no  *)
(* longer fresh once the user was deactivated, but for a deactivation that *)
(* had read an inactive user before another activated it.                  *)
THEOREM SessionsAreKept == Spec => [](TypeOK /\ SessionInvariant)
  <1>1. Init => TypeOK /\ SessionInvariant
    BY InitKeeps DEF TypeOK
  <1>2. TypeOK /\ SessionInvariant /\ [Next]_vars => (TypeOK /\ SessionInvariant)'
    BY StepKeeps DEF TypeOK
  <1>3. QED
    BY <1>1, <1>2, PTL DEF Spec

(* Whatever logins, refreshes, logouts, status and role changes, losses    *)
(* and reloads overlap, one session has one live token, and a deactivated  *)
(* user none that serves, unless the deactivation had read an inactive     *)
(* user before another activated it.                                       *)
THEOREM TokensStaySound == Spec => []TokensAreSound
  <1>1. TypeOK /\ SessionInvariant => TokensAreSound
    BY DEF SessionInvariant, TokensAreSound
  <1>2. QED
    BY <1>1, SessionsAreKept, PTL
==============================================================================
