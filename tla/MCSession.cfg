\* Two tabs and two people; forms answered late, sign-outs, writes, losses, a reload.
CONSTANTS
    Undefined = Undefined
    NoSession = NoSession
    Unread = Unread
    NoPage = NoPage
    left = left
    right = right
    alice = alice
    bob = bob
    Tabs <- TwoTabs
    People <- TwoPeople
    Entries <- OnlyHome
    Budgets <- Visits
SPECIFICATION FairSpec
CHECK_DEADLOCK FALSE
INVARIANTS
    TypeOK
    ShownIsOwn
PROPERTIES
    PagesSettle
