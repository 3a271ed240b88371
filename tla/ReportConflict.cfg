\* Two anchors of a small account, and the reports between them.
CONSTANTS
    in = in
    out = out
    part1 = part1
    part2 = part2
    coin = coin
    usdt = usdt
    other = other
    Movements = {in, out, coin, part1, part2}
    MovementOf <- MCMovementOf
    Included = {usdt}
    LastInstant = 7
    Spans <- MCSpans
    Imports = 2
    Reports = 1
SPECIFICATION MCEpochSpec
CHECK_DEADLOCK FALSE
INVARIANT
    ReconciledAgain
