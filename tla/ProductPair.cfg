CONSTANTS
    t1 = t1
    t2 = t2
    g1 = g1
    g2 = g2
    i1 = i1
    i2 = i2
    a1 = a1
    a2 = a2
    v1 = v1
    v2 = v2
    NoPlan = NoPlan
    NoAction = NoAction
    NoClass = NoClass
    Free = Free
    ThePlan = 1
    Actions = {a1}
    Transfers = {t1}
    Items = {i1, i2}
    Vendors = {v1, v2}
    TransferOf <- PairTransferOf
    MembersOf <- PairMembersOf
    ExistingOf <- NothingExists
    GroupOf <- PairGroupOf
    VendorOf <- PairVendorOf
    MediaItems = {i1}
    SellerVendors = {v2}
    SharedVendors = {}
    OtherUploads = {}
    SentAnswers = {"accepted", "rejected", "uncertain", "empty", "unsent"}
    MaxAuths = 1
    MaxCrashes = 1
SPECIFICATION FairSpec
INVARIANTS
    JournalIsSound
    ProjectionFollowsJournal
PROPERTIES
    InFlightEnds
CHECK_DEADLOCK FALSE
