\* Two starts race for one account: both reviewed, or one and the leverage to set.
CONSTANTS
    Runs = {s1, s2}
    Scopes = {main}
    Plans = {s1, s2}
    Intents = {s1, s2}
    PlanOf <- MCIdentity
    ScopeOf <- MCScopeOf
    ClientIds = {s1, s2}
    AttemptIds <- MCAttemptIds
    Orders = {s1, s2}
    None = None
    MaxGrants = 3
    MaxHalts = 3
    MaxResults = 2
    RunOf <- MCOwnRun
    ClientOf <- MCIdentity
    OrderOf <- MCIdentity
    Scope = main
    Beginnings <- MCBeginnings
    s1 = s1
    s2 = s2
    main = main
    r1 = r1
    r2 = r2
SPECIFICATION MCSpec
SYMMETRY MCSymmetry
CHECK_DEADLOCK FALSE
INVARIANTS
    SingleExposure
    OpenGateNoStrayOrder
    FailedIsFinal
    FreeLeaseSettled
