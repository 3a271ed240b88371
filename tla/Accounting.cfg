\* Conflicting versions of facts and one stream's checkpoint, two writers.
CONSTANTS
    Runs = {r1, r2}
    Scopes = {main}
    Plans = {i1}
    Intents = {i1}
    PlanOf <- MCPlanOf
    ScopeOf <- MCScopeOf
    ClientIds = {c1}
    AttemptIds = {a1}
    Orders = {o1}
    None = None
    MaxGrants = 2
    MaxHalts = 5
    MaxResults = 1
    Events = {e1, e2, e3}
    Hashes = {h1, h2, h3}
    Cursors = {k1}
    Scope = main
    MaxTime = 2
    MaxRevision = 2
    main = main
SPECIFICATION MCSpec
SYMMETRY MCSymmetry
CHECK_DEADLOCK FALSE
INVARIANTS
    NoVersionLost
    CoveredFactsStored
PROPERTIES
    ImplementsJournal
