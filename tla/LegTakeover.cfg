\* A leg whose run crashed between the call and its attempt, recovered by another.
CONSTANTS
    one = one
    two = two
    three = three
    approval = approval
    mainnet = mainnet
    None = None
    Runs = {one, two}
    Procs = {one, two}
    RunOf <- MCRunOf
    Offered = {"leg", "recover"}
    Scopes = {mainnet}
    Plans = {approval}
    Approval = approval
    Intents = {}
    PlanOf <- NoPlans
    ScopeOf <- Mainnet
    ClientIds = {}
    AttemptIds = {}
    Orders = {}
    NLegs = 1
    Full = 1
    MaxGrants = 2
    MaxHalts = 3
    MaxResults = 0
SPECIFICATION MCSpec
SYMMETRY Symmetric
CHECK_DEADLOCK FALSE
INVARIANTS
    RecoveryRestoresAttempt
