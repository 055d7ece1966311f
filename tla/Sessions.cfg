\* One user's session: requests that fail at once, the account, losses, two tabs.
SPECIFICATION MCSpec
CONSTANTS
    tabA = tabA
    tabB = tabB
    restoreA = restoreA
    restoreB = restoreB
    loginA = loginA
    logoutA = logoutA
    queryA = queryA
    otherA = otherA
    NoToken = NoToken
    NoTab = NoTab
    NoCall = NoCall
    Idle = Idle
    Tabs <- MCTabs
    Tasks <- MCTasks
    KindOf <- MCKindOf
    TabOf <- MCTabOf
    Reloadable <- MCReloadable
    Tokens = {t1, t2, t3, t4, t5}
    Calls = {c1, c2}
    Lossy = TRUE
    adminA = adminA
    adminB = adminB
    Admins = {adminA, adminB}
INVARIANT
    TokensAreSound
PROPERTIES
    ToldIsOver
    LoadingEnds
\* Without a login nothing is left to do once both tabs are signed out.
CHECK_DEADLOCK FALSE
