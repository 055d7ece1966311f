----------------------------- MODULE MCSessions -----------------------------
(***************************************************************************)
(* An instance of Sessions with five scenarios, one chosen at the start:   *)
(* what runs in the one or two tabs of the browser, and what disturbs it.  *)
(*   refresh: requests of one tab that fail at once while an administrator *)
(*            changes the user's roles and status.                         *)
(*   account: restores, logins and logouts of one tab meanwhile.           *)
(*   overlap: restores and logins while two administrators change roles    *)
(*            and status at once.                                          *)
(*   loading: one tab with lost calls and reloads.                         *)
(*   tabs:    two tabs that share one cookie.                              *)
(***************************************************************************)
EXTENDS Sessions

CONSTANTS tabA, tabB, restoreA, restoreB, loginA, logoutA, queryA, otherA, adminA, adminB

VARIABLE scenario

MCTabs == {tabA, tabB}
MCTasks == {restoreA, restoreB, loginA, logoutA, queryA, otherA}
MCReloadable == {tabA}
Kind(k) ==
    CASE k \in {restoreA, restoreB} -> "restore"
      [] k = loginA -> "login"
      [] k = logoutA -> "logout"
      [] OTHER -> "query"
MCKindOf == [k \in MCTasks |-> Kind(k)]
MCTabOf == [k \in MCTasks |-> IF k = restoreB THEN tabB ELSE tabA]

Scenarios == {"refresh", "account", "overlap", "loading", "tabs"}
Running ==
    CASE scenario = "refresh" -> {restoreA, queryA, otherA}
      [] scenario = "account" -> {restoreA, loginA, logoutA}
      [] scenario = "overlap" -> {restoreA, loginA}
      [] scenario = "loading" -> {restoreA, queryA}
      [] scenario = "tabs" -> {restoreA, restoreB}

(* The steps of Next, without those that have no part in the scenario.     *)
(* (Where only time ends tokens, one that runs out during a refresh might  *)
(* as well have done so before.)                                           *)
MCNext ==
    \/ \E c \in Calls : Serve(c) \/ Deliver(c)
    \/ \E k \in Running : Start(k) \/ Continue(k)
    \/ /\ scenario = "loading" => Busy = {}
       /\ \E t \in Tabs : Expire(t)
    \/ /\ scenario = "loading"
       /\ \/ \E c \in Calls : Lose(c)
          \/ \E k \in Running : Drop(k)
          \/ /\ \A c \in Busy : call[c].tab # NoTab
             /\ \E t \in Tabs : Reload(t)
    \/ /\ scenario \in {"refresh", "account"}
       /\ CommitDeactivation(adminA) \/ (deciding[adminA] = "idle" /\ Administer(adminA))
    \/ scenario = "overlap" /\ \E a \in Admins : Administer(a)

MCInit == Init /\ scenario \in Scenarios

MCSpec ==
    /\ MCInit
    /\ [][MCNext /\ UNCHANGED scenario]_<<vars, scenario>>
    /\ Fairness({restoreA, loginA, logoutA, queryA, otherA})

(* One tab whose calls are not lost is right when it tells its user that   *)
(* the session is over: its refreshes do not refuse each other.  (Where    *)
(* status changes overlap it may be wrong: a refresh is refused while the  *)
(* user is inactive, and the deactivation that was missed is undone.)      *)
ToldIsOver ==
    [][\A t \in Tabs : scenario \in {"refresh", "account"} => ToldRight(t)]_vars

(* The provider of a tab never stays at loading, whatever is lost.         *)
LoadingEnds == LoadingEndsIn(tabA)
=============================================================================
