CONSTANTS
    p1 = p1
    p2 = p2
    a1 = a1
    a2 = a2
    k1 = k1
    k2 = k2
    author = author
    stranger = stranger
    Plans = {p1}
    Actions = {a1, a2}
    PlanOf <- PlanOfBoth
    Actors = {author, stranger}
    AuthorOf <- Authored
    Keys = {k1, k2}
    MaxRows = 2
    MaxMessages = 2
SPECIFICATION FairSpec
INVARIANTS
    CommandJournalIsSound
PROPERTIES
    AuthorityIsInForce
    ImplementsContract
    PlanGetsAuthorized
CHECK_DEADLOCK FALSE
