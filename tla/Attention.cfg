CONSTANTS
    t1 = t1
    g1 = g1
    g2 = g2
    i1 = i1
    i2 = i2
    a1 = a1
    a2 = a2
    v1 = v1
    v2 = v2
    NoPlan = NoPlan
    NoAction = NoAction
    NoClass = NoClass
    Free = Free
    ThePlan = 1
    Transfers = {t1}
    Items = {i1, i2}
    Vendors = {v1, v2}
    VendorOf <- MCVendorOf
    Actions = {a1, a2}
    TransferOf <- TwoTransferOf
    MembersOf <- TwoMembersOf
    GroupOf <- TwoGroupOf
    ExistingOf <- NothingExists
    MediaItems = {i1}
    Callbacks = {b1, b2}
    Occupied = {v2}
    Checkers = {c1}
    Operators = {o1}
    AttentionLimit = 2
SPECIFICATION FairSpec
INVARIANTS
    RowsAgree
    DecisionsStand
PROPERTIES
    FoundCardLeavesAttention
CHECK_DEADLOCK FALSE
