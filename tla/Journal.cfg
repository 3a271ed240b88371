\* Two intents: two runs over one order, and one run over two attempts and orders.
CONSTANTS
    Runs = {r1, r2}
    Scopes = {main}
    Plans = {i1, i2}
    Intents = {i1, i2}
    PlanOf <- MCPlanOf
    ScopeOf <- MCOneScope
    ClientIds = {c1, c2}
    AttemptIds = {a1, a2}
    Orders = {o1, o2}
    None = None
    MaxGrants = 2
    MaxHalts = 4
    MaxResults = 2
    main = main
    other = other
SPECIFICATION MCSpec
SYMMETRY MCSymmetry
CHECK_DEADLOCK FALSE
PROPERTY
    ImplementsGate
INVARIANTS
    OpenGateSettled
    NoForgottenIntent
    OpenGateUndisputed
    OneOrderStory
