CONSTANTS
    t1 = t1
    t2 = t2
    g1 = g1
    g2 = g2
    i1 = i1
    i2 = i2
    a1 = a1
    a2 = a2
    v1 = v1
    v2 = v2
    NoPlan = NoPlan
    NoAction = NoAction
    NoClass = NoClass
    Free = Free
    ThePlan = 1
    Actions = {a1, a2}
    Transfers = {t1}
    Items = {i1, i2}
    Vendors = {v1, v2}
    TransferOf <- OnePlanTransferOf
    MembersOf <- OnePlanMembersOf
    ExistingOf <- NothingExists
    GroupOf <- OnePlanGroupOf
    VendorOf <- OnePlanVendorOf
    MediaItems = {i1}
    SellerVendors = {v2}
    SharedVendors = {}
    OtherUploads = {}
    SentAnswers = {"accepted", "rejected"}
    MaxAuths = 2
    MaxCrashes = 1
SPECIFICATION Spec
INVARIANTS
    ResultsReachProjection
    PlanEndsWithLastAction
CHECK_DEADLOCK FALSE
