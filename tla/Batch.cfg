SPECIFICATION FairSpec
CONSTANTS
    Batches = {1, 2}
    Items <- MCItems
    Damaged = {2}
    Sellers <- TwoSellers
    OwnerOf <- MCOwnerOf
    InitialRole <- OnePartnerOneAdmin
    Pollers = {"p", "q"}
    Leaving = {"q"}
    PageSize = 2
    ItemPageSize = 2
    MaxItemTargets = 6
    MaxOpen = 2
    MaxFaults = 1
    MaxChanges = 1
INVARIANTS
    InitializationIsSound
    CursorPassesOnlySettled
PROPERTIES
    TransferIsKept
    FinalizedIsSettled
CHECK_DEADLOCK FALSE
