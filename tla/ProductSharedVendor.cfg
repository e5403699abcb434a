CONSTANTS
    t1 = t1
    t2 = t2
    g1 = g1
    g2 = g2
    i1 = i1
    i2 = i2
    a1 = a1
    a2 = a2
    v1 = v1
    v2 = v2
    NoPlan = NoPlan
    NoAction = NoAction
    NoClass = NoClass
    Free = Free
    ThePlan = 1
    Actions = {a1, a2}
    Transfers = {t1, t2}
    Items = {i1, i2}
    Vendors = {v1}
    TransferOf <- SharedTransferOf
    MembersOf <- SharedMembersOf
    ExistingOf <- NothingExists
    GroupOf <- SharedGroupOf
    VendorOf <- SharedVendorOf
    MediaItems = {}
    SellerVendors = {}
    SharedVendors = {v1}
    OtherUploads = {v1}
    SentAnswers = {"accepted", "rejected", "uncertain", "empty", "unsent"}
    MaxAuths = 1
    MaxCrashes = 0
SPECIFICATION Spec
INVARIANTS
    IdentityIsBound
    UncertainStaysBlocked
    RejectedWasNotCreated
CHECK_DEADLOCK FALSE
