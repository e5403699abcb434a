CONSTANTS
    o1 = o1
    o2 = o2
    s1 = s1
    s2 = s2
    n1 = n1
    n2 = n2
    k1 = k1
    k2 = k2
    None = None
    Owners = {o1, o2}
    Sellers = {s1}
    Names = {n1}
    Tokens = {k1, k2}
    Norm <- JustName
    SellerOf <- OneSeller
    ContentTokens = {k1, k2}
    Workers = {w1}
    Restorer = restorer
    Faults = {"transient", "unavailable", "database", "lost"}
    MaxFaults = 2
    MaxDialogs = 2
    MaxCrashes = 1
SPECIFICATION FairSpec
INVARIANTS
    ClientsAreCurrent
PROPERTIES
    StaleWorkIsHarmless
    PendingIsSettled
