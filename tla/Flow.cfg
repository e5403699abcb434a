SPECIFICATION Spec
CONSTANTS
    Callers = {c1, c2}
    Interval = 2
    Burst = 1
    MaxWaiters = 1
    Operations = {"read", "write"}
    ReadAttempts = 2
    Timeout = 3
    BaseDelay = 1
    Statuses = {"success", "limited", "unavailable"}
    Retries = {Absent, Malformed, 3}
    Remainings = {Absent, 0}
    Absent = Absent
    Malformed = Malformed
    Cancels = TRUE
SYMMETRY CallerSymmetry
INVARIANTS
    LimiterIsSound
    RequestsAreBounded
PROPERTIES
    BlockHolds
