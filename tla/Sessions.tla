------------------------------ MODULE Sessions ------------------------------
(***************************************************************************)
(* The session of one user: AuthService with its RefreshToken rows on one  *)
(* side, the tabs of a browser (ApiClient and AuthProvider) on the other,  *)
(* the cookie jar the tabs share and the calls on their way between them.  *)
(*                                                                         *)
(* A refresh or a login reads the user and the token first and writes      *)
(* later, so each is two steps of the server; its answer arrives in the    *)
(* browser later still, where the cookie changes and every task that waits *)
(* for the call goes on in the same turn of the event loop.  A protected   *)
(* request is one step, at the moment the API checks its access token.     *)
(*                                                                         *)
(* authVersion only grows and is only compared for equality: a token is    *)
(* recorded as current until the next increment makes it outdated.  The    *)
(* access token and the refresh token issued together share an id, and an  *)
(* id nothing refers to any more is used again.                            *)
(***************************************************************************)
EXTENDS Integers, FiniteSets

CONSTANTS
    Tokens,      \* ids of the pairs of access and refresh tokens
    NoToken,     \* no cookie, no access token
    Tabs,        \* tabs of the browser
    NoTab,       \* the tab that sent the call was reloaded meanwhile
    Tasks,       \* what runs in the tabs
    TabOf,       \* the tab of each task
    KindOf,      \* what each task does
    Calls,       \* slots for calls to /auth on their way
    NoCall,      \* nothing waits
    Idle,        \* the slot is free
    Lossy,       \* may calls and answers be lost or throttled (bound)
    Admins,      \* administrators of the user's status and roles (bound)
    Reloadable   \* tabs whose page is loaded again (bound)

Kinds == {"restore", "login", "logout", "query"}

ASSUME TokensAssumption == NoToken \notin Tokens /\ IsFiniteSet(Tokens) /\ Tokens # {}
ASSUME TabsAssumption == NoTab \notin Tabs /\ TabOf \in [Tasks -> Tabs]
ASSUME KindsAssumption == KindOf \in [Tasks -> Kinds]
ASSUME CallsAssumption == NoCall \notin Calls
ASSUME SwitchesAssumption == Lossy \in BOOLEAN /\ Reloadable \subseteq Tabs

VARIABLES
    row,         \* RefreshToken rows: NONE, LIVE or REVOKED
    current,     \* tokens that carry the user's authVersion
    family,      \* a label of the login each token descends from
    expired,     \* access tokens past their fifteen minutes
    active,      \* User.isActive
    deciding,    \* what the deactivation each administrator has under way read
    missed,      \* the deactivation in force raised no version (history)
    cookie,      \* the refresh token in the cookie jar
    call,        \* calls to /auth on their way
    accessToken, \* ApiClient.accessToken of each tab
    refreshPromise, \* ApiClient.refreshPromise of each tab: the call it stands for
    phase,       \* AuthProvider of each tab: loading, in or out
    told,        \* the tab shows that its session could not be restored
    stage,       \* where each task is
    carried,     \* the access token the task's protected request carries
    waits        \* the call each task awaits

statusVars == <<active, deciding, missed>>
serverVars == <<row, current, family, statusVars>>
tabVars == <<accessToken, refreshPromise, phase, told>>
taskVars == <<stage, carried, waits>>
vars == <<serverVars, expired, cookie, call, tabVars, taskVars>>

Stages == {"idle", "awaitLogin", "awaitLogout", "awaitRefresh", "request",
           "refreshing", "again"}
CallRecords ==
    [kind : {"refresh", "login", "logout"}, tab : Tabs \cup {NoTab},
     token : Tokens \cup {NoToken}, at : {"sent", "read", "ok", "failed", "lost"},
     fresh : BOOLEAN, new : Tokens \cup {NoToken}]
ASSUME IdleAssumption == Idle \notin CallRecords

Awaiting == {"awaitLogin", "awaitLogout", "awaitRefresh", "refreshing"}

Types ==
    /\ row \in [Tokens -> {"NONE", "LIVE", "REVOKED"}]
    /\ current \in SUBSET Tokens
    /\ family \in [Tokens -> Tokens]
    /\ expired \in SUBSET Tokens
    /\ active \in BOOLEAN /\ missed \in BOOLEAN
    /\ deciding \in [Admins -> {"idle", "active", "inactive"}]
    /\ cookie \in Tokens \cup {NoToken}
    /\ call \in [Calls -> CallRecords \cup {Idle}]
    /\ accessToken \in [Tabs -> Tokens \cup {NoToken}]
    /\ refreshPromise \in [Tabs -> Calls \cup {NoCall}]
    /\ phase \in [Tabs -> {"loading", "in", "out"}]
    /\ told \in [Tabs -> BOOLEAN]
    /\ stage \in [Tasks -> Stages]
    /\ carried \in [Tasks -> Tokens \cup {NoToken}]
    /\ waits \in [Tasks -> Calls \cup {NoCall}]

(* A task waits exactly when its stage says so, for a call of its own tab  *)
(* that is still on its way.                                               *)
WaitsAgree ==
    \A k \in Tasks :
        /\ waits[k] # NoCall <=> stage[k] \in Awaiting
        /\ waits[k] # NoCall => call[waits[k]] # Idle /\ call[waits[k]].tab = TabOf[k]

TypeOK == Types /\ WaitsAgree

(* The pages load in a browser that may have a session from before.        *)
Init ==
    /\ cookie \in {NoToken, CHOOSE t \in Tokens : TRUE}
    /\ row = [t \in Tokens |-> IF t = cookie THEN "LIVE" ELSE "NONE"]
    /\ current = {cookie} \ {NoToken}
    /\ family = [t \in Tokens |-> t]
    /\ expired = {}
    /\ active = TRUE
    /\ deciding = [a \in Admins |-> "idle"]
    /\ missed = FALSE
    /\ call = [c \in Calls |-> Idle]
    /\ accessToken = [b \in Tabs |-> NoToken]
    /\ refreshPromise = [b \in Tabs |-> NoCall]
    /\ phase = [b \in Tabs |-> "loading"]
    /\ told = [b \in Tabs |-> FALSE]
    /\ stage = [k \in Tasks |-> "idle"]
    /\ carried = [k \in Tasks |-> NoToken]
    /\ waits = [k \in Tasks |-> NoCall]

TasksIn(b) == {k \in Tasks : TabOf[k] = b}
Busy == {c \in Calls : call[c] # Idle}
Free == Calls \ Busy

(* Ids that nothing in the browser or on its way refers to.                *)
Unused ==
    Tokens \ ({cookie} \cup {accessToken[b] : b \in Tabs} \cup {carried[k] : k \in Tasks}
              \cup UNION {{call[c].token, call[c].new} : c \in Busy})

-----------------------------------------------------------------------------
(* The API.                                                                *)

(* What AuthService.refresh asks of the row, the user and the versions.    *)
Refreshable(t) == t # NoToken /\ row[t] = "LIVE" /\ active /\ t \in current

(* JwtStrategy.validate, after passport-jwt checked signature and expiry.  *)
Validated(t) == t # NoToken /\ t \notin expired /\ active /\ t \in current

Answered(c, result) == call' = [call EXCEPT ![c] = [@ EXCEPT !.at = result]]

browser == <<expired, cookie, tabVars, taskVars>>

ReadRefresh(c) ==
    /\ c \in Busy /\ call[c].kind = "refresh" /\ call[c].at = "sent"
    /\ IF Refreshable(call[c].token)
         THEN call' = [call EXCEPT ![c] = [@ EXCEPT !.at = "read", !.fresh = TRUE]]
         ELSE Answered(c, "failed")
    /\ UNCHANGED <<serverVars, browser>>

NewFamily(t) == CHOOSE f \in Tokens : \A u \in Tokens \ Unused : family[u] # f

(* Rows and tokens of issueTokens; the tokens carry the version that was   *)
(* read.  What nobody can present any more is forgotten.                   *)
Issue(c, t, ancestor, rows) ==
    /\ row' = [u \in Tokens |-> CASE u = t -> "LIVE"
                                  [] u \in Unused \ {t} -> "NONE"
                                  [] OTHER -> rows[u]]
    /\ family' = [u \in Tokens |->
            CASE u = t -> IF ancestor = NoToken THEN NewFamily(t) ELSE family[ancestor]
              [] u \in Unused \ {t} -> u
              [] OTHER -> family[u]]
    /\ current' = (current \ Unused) \cup (IF call[c].fresh THEN {t} ELSE {})
    /\ expired' = expired \ Unused
    /\ call' = [call EXCEPT ![c] = [@ EXCEPT !.at = "ok", !.new = t]]
    /\ UNCHANGED <<statusVars, cookie, tabVars, taskVars>>

(* The updateMany of the unrevoked row decides who rotates it.             *)
Rotate(c) ==
    /\ c \in Busy /\ call[c].kind = "refresh" /\ call[c].at = "read"
    /\ row[call[c].token] = "LIVE"
    /\ Unused # {}
    /\ Issue(c, CHOOSE t \in Unused : TRUE, call[c].token,
             [row EXCEPT ![call[c].token] = "REVOKED"])

LoseRotation(c) ==
    /\ c \in Busy /\ call[c].kind = "refresh" /\ call[c].at = "read"
    /\ row[call[c].token] # "LIVE"
    /\ Answered(c, "failed")
    /\ UNCHANGED <<serverVars, browser>>

(* The password was compared and the user read.                            *)
ReadLogin(c) ==
    /\ c \in Busy /\ call[c].kind = "login" /\ call[c].at = "sent"
    /\ IF active
         THEN call' = [call EXCEPT ![c] = [@ EXCEPT !.at = "read", !.fresh = TRUE]]
         ELSE Answered(c, "failed")
    /\ UNCHANGED <<serverVars, browser>>

CommitLogin(c) ==
    /\ c \in Busy /\ call[c].kind = "login" /\ call[c].at = "read"
    /\ Unused # {}
    /\ Issue(c, CHOOSE t \in Unused : TRUE, NoToken, row)

(* AuthService.logout: its token may be outdated but must be unrevoked.    *)
Logout(c) ==
    /\ c \in Busy /\ call[c].kind = "logout" /\ call[c].at = "sent"
    /\ IF call[c].token # NoToken /\ row[call[c].token] = "LIVE"
         THEN /\ row' = [row EXCEPT ![call[c].token] = "REVOKED"]
              /\ Answered(c, "ok")
         ELSE /\ Answered(c, "failed")
              /\ UNCHANGED row
    /\ UNCHANGED <<current, family, statusVars, browser>>

(* UsersService.updateStatus reads the user before its transaction.        *)
BeginDeactivation(a) ==
    /\ deciding[a] = "idle"
    /\ deciding' = [deciding EXCEPT ![a] = IF active THEN "active" ELSE "inactive"]
    /\ UNCHANGED <<row, current, family, active, missed, call, browser>>

RevokeAll == row' = [t \in Tokens |-> IF row[t] = "LIVE" THEN "REVOKED" ELSE row[t]]

(* authVersion is incremented: every token, and every call that has read   *)
(* the version, is outdated.                                               *)
RaiseVersion ==
    /\ current' = {}
    /\ call' = [c \in Calls |-> IF c \in Busy THEN [call[c] EXCEPT !.fresh = FALSE] ELSE Idle]
    /\ missed' = FALSE

(* Fault: the tokens are revoked and authVersion stays.                    *)
FaultCommitDeactivation(a) ==
    /\ deciding[a] # "idle"
    /\ deciding' = [deciding EXCEPT ![a] = "idle"]
    /\ active' = FALSE
    /\ RevokeAll
    /\ UNCHANGED <<current, missed, call, family, browser>>

(* Its transaction.  The version is raised if the user that was read was   *)
(* active; a user who was activated since is missed.                       *)
CommitDeactivation(a) ==
    /\ deciding[a] # "idle"
    /\ deciding' = [deciding EXCEPT ![a] = "idle"]
    /\ active' = FALSE
    /\ RevokeAll
    /\ IF deciding[a] = "active"
         THEN RaiseVersion
         ELSE missed' = (missed \/ active) /\ UNCHANGED <<current, call>>
    /\ UNCHANGED <<family, browser>>

Activate ==
    /\ ~active
    /\ active' = TRUE
    /\ missed' = FALSE
    /\ UNCHANGED <<row, current, family, deciding, call, browser>>

(* UsersService.replaceRoles, and RolesService of a role the user has.     *)
ChangeRoles ==
    /\ RevokeAll
    /\ RaiseVersion
    /\ UNCHANGED <<family, active, deciding, browser>>

Administer(a) == BeginDeactivation(a) \/ CommitDeactivation(a) \/ Activate \/ ChangeRoles

(* Fifteen minutes passed, longer than any request takes.                  *)
Expire(b) ==
    /\ accessToken[b] \in Tokens \ (expired \cup {carried[k] : k \in Tasks})
    /\ expired' = expired \cup {accessToken[b]}
    /\ UNCHANGED <<serverVars, cookie, call, tabVars, taskVars>>

(* The API cannot be reached, its throttler refuses the call, or the answer *)
(* does not arrive: fetch rejects, or the answer sets no cookie.           *)
Lose(c) ==
    /\ Lossy
    /\ c \in Busy /\ call[c].at \in {"sent", "ok", "failed"}
    /\ Answered(c, "lost")
    /\ UNCHANGED <<serverVars, browser>>

Serve(c) ==
    ReadRefresh(c) \/ Rotate(c) \/ LoseRotation(c) \/ ReadLogin(c) \/ CommitLogin(c) \/ Logout(c)

-----------------------------------------------------------------------------
(* The tabs.                                                               *)

Sent(kind, b) ==
    [kind |-> kind, tab |-> b, token |-> IF kind = "login" THEN NoToken ELSE cookie,
     at |-> "sent", fresh |-> FALSE, new |-> NoToken]

(* Fault: every request that is refused sends a refresh of its own.        *)
FaultRefresh(k, next) ==
    /\ Free # {}
    /\ LET c == CHOOSE c \in Free : TRUE
       IN  /\ call' = [call EXCEPT ![c] = Sent("refresh", TabOf[k])]
           /\ refreshPromise' = [refreshPromise EXCEPT ![TabOf[k]] = c]
           /\ waits' = [waits EXCEPT ![k] = c]
    /\ stage' = [stage EXCEPT ![k] = next]

(* ApiClient.refreshSession: joins the promise of the tab or makes one.    *)
Refresh(k, next) ==
    /\ IF refreshPromise[TabOf[k]] # NoCall
         THEN /\ waits' = [waits EXCEPT ![k] = refreshPromise[TabOf[k]]]
              /\ UNCHANGED <<call, refreshPromise>>
         ELSE /\ Free # {}
              /\ LET c == CHOOSE c \in Free : TRUE
                 IN  /\ call' = [call EXCEPT ![c] = Sent("refresh", TabOf[k])]
                     /\ refreshPromise' = [refreshPromise EXCEPT ![TabOf[k]] = c]
                     /\ waits' = [waits EXCEPT ![k] = c]
    /\ stage' = [stage EXCEPT ![k] = next]

(* When the page has loaded; and after its user changed the own roles.     *)
StartRestore(k) ==
    /\ KindOf[k] = "restore" /\ stage[k] = "idle"
    /\ phase[TabOf[k]] \in {"loading", "in"}
    /\ phase[TabOf[k]] = "loading" =>
         \A j \in TasksIn(TabOf[k]) : KindOf[j] = "query" \/ stage[j] = "idle"
    /\ Refresh(k, "awaitRefresh")
    /\ phase' = [phase EXCEPT ![TabOf[k]] = "loading"]
    /\ told' = [told EXCEPT ![TabOf[k]] = FALSE]
    /\ UNCHANGED <<serverVars, expired, cookie, accessToken, carried>>

Post(k, kind, next) ==
    /\ Free # {}
    /\ LET c == CHOOSE c \in Free : TRUE
       IN  /\ call' = [call EXCEPT ![c] = Sent(kind, TabOf[k])]
           /\ waits' = [waits EXCEPT ![k] = c]
    /\ stage' = [stage EXCEPT ![k] = next]
    /\ phase' = [phase EXCEPT ![TabOf[k]] = "loading"]
    /\ told' = [told EXCEPT ![TabOf[k]] = FALSE]
    /\ UNCHANGED <<serverVars, expired, cookie, accessToken, refreshPromise, carried>>

StartLogin(k) ==
    /\ KindOf[k] = "login" /\ stage[k] = "idle"
    /\ phase[TabOf[k]] = "out"
    /\ Post(k, "login", "awaitLogin")

StartLogout(k) ==
    /\ KindOf[k] = "logout" /\ stage[k] = "idle"
    /\ phase[TabOf[k]] = "in"
    /\ Post(k, "logout", "awaitLogout")

StartQuery(k) ==
    /\ KindOf[k] = "query" /\ stage[k] = "idle"
    /\ phase[TabOf[k]] = "in"
    /\ stage' = [stage EXCEPT ![k] = "request"]
    /\ carried' = [carried EXCEPT ![k] = accessToken[TabOf[k]]]
    /\ UNCHANGED <<serverVars, expired, cookie, call, tabVars, waits>>

(* The protected request, or getCurrentUser of a restore or a login, ends: *)
(* the provider of a restore or login is signed in or out with it.         *)
Finish(k, ok) ==
    /\ stage' = [stage EXCEPT ![k] = "idle"]
    /\ carried' = [carried EXCEPT ![k] = NoToken]
    /\ IF KindOf[k] = "query"
         THEN UNCHANGED <<accessToken, refreshPromise, phase, told>>
         ELSE /\ phase' = [phase EXCEPT ![TabOf[k]] = IF ok THEN "in" ELSE "out"]
              /\ told' = [told EXCEPT ![TabOf[k]] = ~ok]
              /\ accessToken' = [accessToken EXCEPT ![TabOf[k]] = IF ok THEN @ ELSE NoToken]
              /\ refreshPromise' = [refreshPromise EXCEPT ![TabOf[k]] = IF ok THEN @ ELSE NoCall]

(* 200, or a 401 of the request that was sent again.                       *)
Respond(k) ==
    /\ stage[k] \in {"request", "again"}
    /\ Validated(carried[k]) \/ stage[k] = "again"
    /\ Finish(k, Validated(carried[k]))
    /\ UNCHANGED <<serverVars, expired, cookie, call, waits>>

(* The request or its answer is lost.                                      *)
Drop(k) ==
    /\ Lossy
    /\ stage[k] \in {"request", "again"}
    /\ Finish(k, FALSE)
    /\ UNCHANGED <<serverVars, expired, cookie, call, waits>>

(* 401: the session is refreshed before the request is sent again.         *)
Unauthorized(k) ==
    /\ stage[k] = "request"
    /\ ~Validated(carried[k])
    /\ Refresh(k, "refreshing")
    /\ carried' = [carried EXCEPT ![k] = NoToken]
    /\ UNCHANGED <<serverVars, expired, cookie, accessToken, phase, told>>

(* The cookie the answer sets: a new one, none after a logout, or no change.*)
CookieAfter(c) ==
    CASE call[c].kind = "logout" /\ call[c].at # "lost" -> NoToken
      [] call[c].kind # "logout" /\ call[c].at = "ok" -> call[c].new
      [] OTHER -> cookie

SignedOut(c) == call[c].kind = "logout" \/ call[c].at # "ok"

(* Fault: a refresh that failed stays the promise of its tab.              *)
FaultPromiseAfter(c, b) ==
    IF call[c].kind = "refresh" /\ call[c].at = "ok" THEN NoCall ELSE refreshPromise[b]

(* A settled refresh clears the promise, and so does clearSession.         *)
PromiseAfter(c, b) ==
    IF call[c].kind = "refresh" \/ SignedOut(c) THEN NoCall ELSE refreshPromise[b]

(* What awaited the call goes on: getCurrentUser of a restore or login, the *)
(* request that is sent again, the end of a logout, or the failure of each. *)
NextStage(k, ok) ==
    CASE stage[k] = "refreshing" -> IF ok THEN "again" ELSE "idle"
      [] stage[k] \in {"awaitRefresh", "awaitLogin"} -> IF ok THEN "request" ELSE "idle"
      [] stage[k] = "awaitLogout" -> "idle"

Deliver(c) ==
    /\ c \in Busy /\ call[c].at \in {"ok", "failed", "lost"}
    /\ LET b == call[c].tab
           waiting == {k \in Tasks : waits[k] = c}
           ok == call[c].at = "ok"
       IN  /\ cookie' = CookieAfter(c)
           /\ call' = [call EXCEPT ![c] = Idle]
           /\ stage' = [k \in Tasks |-> IF k \in waiting THEN NextStage(k, ok) ELSE stage[k]]
           /\ carried' = [k \in Tasks |->
                IF k \in waiting /\ ~SignedOut(c) THEN call[c].new ELSE carried[k]]
           /\ waits' = [k \in Tasks |-> IF k \in waiting THEN NoCall ELSE waits[k]]
           /\ IF b = NoTab
                THEN UNCHANGED tabVars
                ELSE /\ accessToken' = [accessToken EXCEPT ![b] =
                          IF SignedOut(c) THEN NoToken ELSE call[c].new]
                     /\ refreshPromise' = [refreshPromise EXCEPT ![b] = PromiseAfter(c, b)]
                     /\ phase' = [phase EXCEPT ![b] = IF SignedOut(c) THEN "out" ELSE @]
                     /\ told' = [told EXCEPT ![b] =
                          IF SignedOut(c) THEN call[c].kind = "refresh" ELSE @]
    /\ UNCHANGED <<serverVars, expired>>

(* The page is loaded again: what it knew and awaited is gone, the calls   *)
(* on their way still change the cookie.                                   *)
Reload(b) ==
    /\ b \in Reloadable
    /\ phase[b] # "loading"
    /\ accessToken' = [accessToken EXCEPT ![b] = NoToken]
    /\ refreshPromise' = [refreshPromise EXCEPT ![b] = NoCall]
    /\ phase' = [phase EXCEPT ![b] = "loading"]
    /\ told' = [told EXCEPT ![b] = FALSE]
    /\ call' = [c \in Calls |-> IF c \in Busy /\ call[c].tab = b
                                  THEN [call[c] EXCEPT !.tab = NoTab] ELSE call[c]]
    /\ stage' = [k \in Tasks |-> IF TabOf[k] = b THEN "idle" ELSE stage[k]]
    /\ carried' = [k \in Tasks |-> IF TabOf[k] = b THEN NoToken ELSE carried[k]]
    /\ waits' = [k \in Tasks |-> IF TabOf[k] = b THEN NoCall ELSE waits[k]]
    /\ UNCHANGED <<serverVars, expired, cookie>>

Start(k) == StartRestore(k) \/ StartLogin(k) \/ StartLogout(k) \/ StartQuery(k)
Continue(k) == Respond(k) \/ Unauthorized(k)

Next ==
    \/ \E c \in Calls : Serve(c) \/ Lose(c) \/ Deliver(c)
    \/ \E k \in Tasks : Start(k) \/ Continue(k) \/ Drop(k)
    \/ \E b \in Tabs : Reload(b) \/ Expire(b)
    \/ \E a \in Admins : Administer(a)

Spec == Init /\ [][Next]_vars

(* The API answers what it began or the call is lost, the browser hands    *)
(* every answer to what waits for it, and the provider restores on load.   *)
Fairness(tasks) ==
    /\ \A c \in Calls : WF_vars(Serve(c) \/ Deliver(c))
    /\ \A k \in tasks :
         WF_vars(Continue(k) \/ (StartRestore(k) /\ phase[TabOf[k]] = "loading"))

FairSpec == Spec /\ Fairness(Tasks)

-----------------------------------------------------------------------------
(* Properties.                                                             *)

(* Of the tokens that descend from one login at most one can be used: two  *)
(* refreshes that carry the same cookie do not both rotate it.             *)
RotationKeepsOne ==
    \A t, u \in Tokens :
        (row[t] = "LIVE" /\ row[u] = "LIVE" /\ family[t] = family[u]) => t = u

(* What a deactivated user holds stays useless when the account is         *)
(* activated again, also what a login or a refresh that had read the user  *)
(* before the deactivation issues after it.  One race is excepted: a       *)
(* deactivation that had read an inactive user, who was activated before   *)
(* it committed.                                                           *)
DeactivationIsFinal == ~active => missed \/ current = {}

(* Whatever logins, refreshes, logouts, status and role changes and losses *)
(* overlap, the rows of refresh tokens and the versions in the tokens stay *)
(* such that one session has one live token and a deactivated user, but    *)
(* for the race above, none that serves.                                   *)
TokensAreSound == TypeOK /\ RotationKeepsOne /\ DeactivationIsFinal

(* A tab that tells its user that the session is over is right: no refresh *)
(* of the cookie would succeed.  (Requests that fail at once share one     *)
(* refresh.)  With lost answers, or two tabs, it may be wrong.             *)
ToldRight(b) == (~told[b] /\ told'[b]) => ~Refreshable(cookie)'

(* The provider of a tab never stays at loading.                           *)
LoadingEndsIn(b) == []<>(phase[b] # "loading")
=============================================================================
