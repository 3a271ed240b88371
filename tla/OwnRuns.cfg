\* A grid of two legs, and one leg that may be filled in part, under two runs with
\* ids of their own.
CONSTANTS
    one = one
    two = two
    three = three
    approval = approval
    mainnet = mainnet
    None = None
    Runs = {one, two}
    Procs = {one, two, three}
    RunOf <- MCRunOf
    Offered = {"grid", "leg", "recover", "cancel"}
    Scopes = {mainnet}
    Plans = {approval}
    Approval = approval
    Intents = {}
    PlanOf <- NoPlans
    ScopeOf <- Mainnet
    ClientIds = {}
    AttemptIds = {}
    Orders = {}
    NLegs = 2
    Full = 2
    MaxGrants = 2
    MaxHalts = 3
    MaxResults = 0
SPECIFICATION MCSpec
SYMMETRY Symmetric
CHECK_DEADLOCK FALSE
INVARIANTS
    OverMeansOver
    NoForgottenLeg
    DoubtKeepsOwnLease
    FillsStayKnownToOwn
    OneCallEach
