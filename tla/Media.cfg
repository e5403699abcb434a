CONSTANTS
    t1 = t1
    g1 = g1
    i1 = i1
    i2 = i2
    a1 = a1
    v1 = v1
    v2 = v2
    NoPlan = NoPlan
    NoAction = NoAction
    NoClass = NoClass
    Free = Free
    ThePlan = 1
    Transfers = {t1}
    Items = {i1, i2}
    Vendors = {v1, v2}
    VendorOf <- MCVendorOf
    Actions = {a1}
    TransferOf <- PairTransferOf
    MembersOf <- PairMembersOf
    GroupOf <- PairGroupOf
    ExistingOf <- NothingExists
    MediaItems = {i1, i2}
    Replanned = {i2}
    Files = 2
    Concurrency = 1
    SellerItems = {i2}
    SharedItems = {i1}
    MaxAuths = 1
    MaxCrashes = 1
SPECIFICATION FairSpec
INVARIANTS
    UploadJournalIsSound
    WorkerResultIsAccepted
    MediaOutcomesAgree
PROPERTIES
    UploadEnds
CHECK_DEADLOCK FALSE
