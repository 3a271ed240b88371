\* One instance of each part.
CONSTANTS
    None = None
    Quantity = 2
    fills = fills
    h1 = h1
    h2 = h2
    Sources = {fills}
    Immutable = {fills}
    Opening = 2
    End = 4
    MaxWindow = 2
    Replays <- MCReplays
    Syncs = {h1, h2}
    usdt = usdt
    late = late
    Coins = {usdt, late}
    Listed = {usdt}
    BarLengths <- MCBarLengths
    FundingLength = 3
    InterestLength = 2
    Depth = 2
    FirstTick = 8
    LastTick = 11
    Contracts = 3
    Hours = {1}
    BatchSize = 2
    Calls = 3
    Waits = 2
    in = in
    out = out
    part1 = part1
    part2 = part2
    coin = coin
    other = other
    Movements = {in, out, coin, part1, part2}
    MovementOf <- MCMovementOf
    Included = {usdt}
    LastInstant = 7
    Spans <- MCSpans
    Imports = 2
    Reports = 1
    EvidenceAge = 2
    QuoteAge = 1
    InspectionAge = 3
    LastMoment = 4
    target = target
    away = away
    inverse = inverse
    Markets = {target, away, inverse}
    Linear = {target, away}
    LegSizes <- MCLegSizes
    Allocation = 3
    Funds = 7
    ReserveParts = 1
    OutOf = 10
    MaxLeverage = 1
    Fraction <- MCFraction
    Minimum = 1
    Accounts <- MCAccounts
    OwnersOrders <- MCOwnersOrders
    Invocations = {"connect", "setup", "remove"}
    KindOf <- MCKindOf
    Credentials = {"old", "new"}
    AccountFor <- MCAccountFor
    FoundRecords <- MCFoundRecords
    SubaccountLimit = 2
    KeychainFaults = 3
    o1 = o1
    o2 = o2
    o3 = o3
    Openers = {o1, o2, o3}
    Release <- MCRelease
    Environments = {"demo", "mainnet"}
    MainnetOnly = {"mainnet"}
    AccountIds = {"sanitized"}
    Plain = {}
    Unset = Unset
    Preparations = {"first", "second"}
    Consents = {"approve"}
    Holders = {"main", "sub"}
    Skew = 1
    LastSecond = 2
SPECIFICATION RecordsSpec
CHECK_DEADLOCK FALSE
INVARIANTS
    RecordsTypeOK
    VerdictsAreTrue
    TraversedIsStored
    TrueAtTheCutoff
    MarketIsWhole
    ZerosAreTrue
    AcceptedIsTrue
    ScopedNamesAll
    LeavesFresh
    GrossIsTheWorst
    ApprovedLegsFit
    WholeOrTold
    RowsAreOwn
    UpgradeIsWhole
    ConsentIsExact
PROPERTIES
    CompleteIsTrue
