\* Two commands in two symbols.
CONSTANTS
    c1 = c1
    c2 = c2
    c3 = c3
    a1 = a1
    a1again = a1again
    m1 = m1
    btc = btc
    eth = eth
    Foreign = Foreign
    Spent = Spent
    None = None
    Plans = {c1, c2, c3, a1, m1}
    Commands = {c1, c2, c3}
    Manual = {m1}
    Symbols = {btc, eth}
    SymbolOf <- MCSymbolOf
    Procs = {c1, c2, c3, a1, a1again, m1}
    Runs = {c1, c2, c3, a1, a1again, m1}
    PlanOf <- MCPlanOf
    Sessions <- MCTwoSymbols
    Levered = {eth}
    Asked = {c1}
SPECIFICATION Spec
CHECK_DEADLOCK FALSE
INVARIANTS
    CapacityProven
