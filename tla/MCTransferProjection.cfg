CONSTANTS
    g1 = g1
    g2 = g2
    i1 = i1
    i2 = i2
    i3 = i3
    Groups = {g1, g2}
    Items = {i1, i2, i3}
    GroupOf <- MCGroupOf
    Slots = {"p", "q"}
    MaxPlans = 2
    NoPlan = NoPlan
    NoAction = NoAction
    NoClass = NoClass
SPECIFICATION Spec
INVARIANTS
    FinishedIffNoGroupRuns
    OutcomeAggregatesGroups
    EndedGroupHasEndedItems
    ItemsAreAccountedFor
    CheckConstraints
PROPERTIES
    FinishedIsFinal
    MediaPhaseIsKept
CHECK_DEADLOCK FALSE
