\* Settlement requests that may share a key; one title settled, edited, reported.
SPECIFICATION MCSpec
CONSTANTS
    e1 = e1
    e2 = e2
    k1 = k1
    k2 = k2
    d1 = d1
    d2 = d2
    r1 = r1
    r2 = r2
    Entries = {e1, e2}
    EntryAmounts <- MCAmounts
    Days <- MCDays
    Requests <- MCRequests
    Keys = {k1, k2}
    Bodies <- MCBodies
    Details = {d1, d2}
    NoSettlement = NoSettlement
    Readers = {v1}
    NoReport = NoReport
    MaxSends = 2
INVARIANTS
    BooksAgree
    KeysAreSound
    NothingIsMissed
PROPERTIES
    ImplementsLedger
    SentIsAnswered
\* Clients stop when they have sent their requests and titles are cancelled.
CHECK_DEADLOCK FALSE
