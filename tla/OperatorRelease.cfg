\* A command and the recovery of its source.
CONSTANTS
    c1 = c1
    m1 = m1
    btc = btc
    Foreign = Foreign
    Spent = Spent
    None = None
    c2 = c2
    c3 = c3
    a1 = a1
    a1again = a1again
    eth = eth
    Plans = {c1, m1}
    Commands = {c1}
    Manual = {m1}
    Symbols = {btc}
    SymbolOf <- MCSymbolOf
    Procs = {c1, m1}
    Runs = {c1, m1}
    PlanOf <- MCPlanOf
    Sessions <- MCReleased
    Levered = {}
    Asked = {c1}
SPECIFICATION Spec
CHECK_DEADLOCK FALSE
PROPERTIES
    OverIsReleased
