\* Detail pages, forms with a key, and lists.
SPECIFICATION MCSpec
CONSTANTS
    i1 = i1
    i2 = i2
    x1 = x1
    x2 = x2
    f1 = f1
    f2 = f2
    mine = mine
    theirs = theirs
    Grants <- TwoGrants
    MaxCalls = 2
    MaxSteps = 2
    Intents = {i1, i2}
    Contents = {x1, x2}
    NoIntent = NoIntent
    MaxClicks = 2
    MaxRequests = 3
    MaxMounts = 2
    Filters = {f1, f2}
    unfiltered = f1
    MaxRows = 2
    MaxMoves = 3
    MaxChanges = 1
INVARIANTS
    PagesAreTrue
    FormsRecordOnce
    ListsAnswer
PROPERTIES
    RefusedIsStale
    OwnWorkIsSeen
    TypedIsAnswered
\* Keystrokes, changes and requests run out with their bounds.
CHECK_DEADLOCK FALSE
