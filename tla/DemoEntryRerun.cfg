\* The same input is started twice, so both starts share a run id: refuted.
CONSTANTS
    Runs = {r1}
    Scopes = {main}
    Plans = {s1, s2}
    Intents = {s1, s2}
    PlanOf <- MCIdentity
    ScopeOf <- MCScopeOf
    ClientIds = {s1, s2}
    AttemptIds <- MCAttemptIds
    Orders = {s1, s2}
    None = None
    MaxGrants = 3
    MaxHalts = 3
    MaxResults = 2
    RunOf <- MCSameRun
    ClientOf <- MCIdentity
    OrderOf <- MCIdentity
    Scope = main
    Beginnings <- MCOneReviewed
    s1 = s1
    s2 = s2
    main = main
    r1 = r1
    r2 = r2
SPECIFICATION Spec
CHECK_DEADLOCK FALSE
INVARIANT
    SingleExposure
