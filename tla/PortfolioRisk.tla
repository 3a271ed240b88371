---------------------------- MODULE PortfolioRisk ----------------------------
(***************************************************************************)
(* What the plan of the day may ask of the account, and what of it is still *)
(* there when its orders go out one by one                                  *)
(* (domain/risk/portfolio-risk-*.ts, application/portfolio-risk-preflight.ts,*)
(* domain/execution/prepared-grid-capacity.ts).                             *)
(* The preflight values everything the account evidence shows and compares  *)
(* what all the legs cost with the available balance; each leg is compared  *)
(* again, alone, with the balance of its own evidence.  Meanwhile the       *)
(* account is traded: orders fill in any order, the owner places and        *)
(* withdraws orders.                                                        *)
(* Prices are one, so a quantity is its value; positions are one-way; the   *)
(* account evidence is what was there when it was gathered.                 *)
(***************************************************************************)
EXTENDS Integers, Sequences, FiniteSets, Folds

CONSTANTS
    target,          \* the symbol of the plan
    Markets,         \* the symbols traded
    Linear,          \* of them, the linear USDT perpetuals the market evidence knows
    LegSizes,        \* the legs of the plan, in the order they are placed
    Allocation,      \* what the plan may cost
    Funds,           \* the equity of the account
    ReserveParts,    \* marginReserveRatio, as parts
    OutOf,           \* of a whole
    MaxLeverage,     \* maxDerivativesLeverage
    Fraction,        \* reductionFraction, as <<parts, of a whole>>
    Minimum,         \* the smallest quantity of an order
    Accounts,        \* the accounts it may find
    OwnersOrders     \* the orders the owner may place, each once under its id

VARIABLES
    holding,   \* the account as it is
    review     \* what has been read of it, and what was decided

riskVars == <<holding, review>>

Legs == 1..Len(LegSizes)
Planned == {"ADD_LONG", "REDUCE_LONG", "HOLD_LONG"}

\* Orders: closing is reduceOnly or closeOnTrigger, limit an order with a price of its
\* own, leg the leg it was placed for.
Order == [id : Nat, symbol : Markets, side : {1, -1}, leaves : Nat \ {0},
          closing : BOOLEAN, limit : BOOLEAN, leg : {0} \cup Legs]

LegOrder(k) ==
    [id |-> 0, symbol |-> target, side |-> 1, leaves |-> LegSizes[k], closing |-> FALSE,
     limit |-> TRUE, leg |-> k]

\* An asset of the wallet beside cash: none of it, valued, or with a fact that blocks.
Assets == {"cash", "valued", "unvalued", "borrowed", "restricted"}

\* An account: rows are the symbols without a position that are shown with their leverage.
AccountState == [held : [Markets -> Int], lever : [Markets -> Nat], rows : SUBSET Linear,
                 orders : SUBSET Order, asset : Assets]

ASSUME RiskAssumption ==
    /\ target \in Linear /\ Linear \subseteq Markets /\ IsFiniteSet(Markets)
    /\ LegSizes \in Seq(Nat \ {0}) /\ LegSizes # <<>> /\ Allocation \in Nat /\ Funds \in Nat
    /\ ReserveParts \in Nat /\ OutOf \in Nat /\ ReserveParts < OutOf
    /\ MaxLeverage \in Nat \ {0} /\ Minimum \in Nat \ {0}
    /\ Fraction \in Nat \X (Nat \ {0})
    /\ OwnersOrders \subseteq Order
    /\ Accounts \subseteq AccountState /\ \A found \in Accounts : IsFiniteSet(found.orders)

\* The sum of a function's values.
TotalOf(f) ==
    MapThenFoldSet(LAMBDA a, b : a + b, 0, LAMBDA x : f[x],
                   LAMBDA s : CHOOSE x \in s : TRUE, DOMAIN f)

Size(amount) == IF amount < 0 THEN 0 - amount ELSE amount
Held(state) == TotalOf([m \in Markets |-> Size(state.held[m])])
Leaves(orders) == TotalOf([o \in orders |-> o.leaves])
Increasing(state) == {o \in state.orders : ~o.closing}

\* The exchange sets aside the value of what is held and of what may still be traded.
Available(state) == Funds - Held(state) - Leaves(Increasing(state))

(***************************************************************************)
(* The projection: what the account evidence shows, valued.                 *)
(***************************************************************************)
PositionReasons(ev) ==
    {"UNSUPPORTED_EXPOSURE" : m \in {n \in Markets \ Linear : ev.held[n] # 0}}

\* A protective order is left out if it can only close what is held.
Closes(ev, o) ==
    /\ o.side * ev.held[o.symbol] < 0
    /\ o.leaves <= Size(ev.held[o.symbol])

OrderBookReasons(ev) ==
    {"CURRENT_STATE_UNVALUABLE" :
        o \in {p \in ev.orders : p.closing /\ (p.symbol \notin Linear \/ ~Closes(ev, p))}}
    \cup {"UNSUPPORTED_EXPOSURE" : o \in {p \in Increasing(ev) : p.symbol \notin Linear}}
    \cup {"CURRENT_STATE_UNVALUABLE" :
            o \in {p \in Increasing(ev) : p.symbol \in Linear /\ ~p.limit}}

\* Variant: an order against a position counts as one that closes it.
PendingSameWay(ev) ==
    Leaves({o \in Increasing(ev) : o.side * ev.held[o.symbol] >= 0})

PendingGross(ev) == Leaves(Increasing(ev))

WalletReasons(ev) ==
    CASE ev.asset = "unvalued" -> {"CURRENT_STATE_UNVALUABLE"}
      [] ev.asset = "borrowed" -> {"ACCOUNT_LIABILITY_UNMODELED"}
      [] ev.asset = "restricted" -> {"ACCOUNT_RESTRICTION_ACTIVE"}
      [] OTHER -> {}
Spot(state) == IF state.asset = "valued" THEN 1 ELSE 0

Projected(ev) == PositionReasons(ev) \cup OrderBookReasons(ev) \cup WalletReasons(ev)
Gross(ev, planned) == Held(ev) + PendingGross(ev) + planned + Spot(ev)

(***************************************************************************)
(* Capacity and leverage.                                                   *)
(***************************************************************************)
\* Variant: the last leg for the whole plan.
LastLegNotional == LegSizes[Len(LegSizes)]

\* What the whole plan asks for.
RequestedNotional == TotalOf([k \in Legs |-> LegSizes[k]])

\* Capacity is what is available less the reserve.
WithinCapacity(ev, requested) ==
    LET available == IF Available(ev) > 0 THEN Available(ev) ELSE 0
    IN OutOf * requested <= (OutOf - ReserveParts) * available

CapacityReasons(ev, requested) ==
    IF WithinCapacity(ev, requested) THEN {} ELSE {"CAPACITY_EXCEEDED"}

RelevantSymbols(ev) ==
    {target} \cup {m \in Linear : ev.held[m] # 0}
    \cup {o.symbol : o \in {p \in Increasing(ev) : p.symbol \in Linear /\ p.limit}}

\* A row of the symbol with its leverage.
HasRow(ev, m) == ev.held[m] # 0 \/ m \in ev.rows

\* A second reading of the target serves only where the evidence has none, and only if
\* the target is still flat.
NeedsTargetRead(ev) == ~HasRow(ev, target)
SupplementReasons(supplement) ==
    IF supplement.read /\ supplement.held # 0
    THEN {"SUPPLEMENTAL_EVIDENCE_CONFLICT"} ELSE {}

LeverageReasons(ev, supplement) ==
    LET supplied == supplement.read /\ SupplementReasons(supplement) = {}
        lever(m) == IF HasRow(ev, m) THEN ev.lever[m]
                    ELSE IF m = target /\ supplied THEN supplement.lever ELSE 0
        levers == {lever(m) : m \in RelevantSymbols(ev)}
    IN SupplementReasons(supplement)
       \cup (IF 0 \in levers THEN {"LEVERAGE_UNKNOWN"} ELSE {})
       \cup (IF \E l \in levers : l > MaxLeverage THEN {"LEVERAGE_EXCEEDS_POLICY"} ELSE {})

(***************************************************************************)
(* Economics and reduction.                                                 *)
(***************************************************************************)
\* What may be the matter with the inputs that are not about the account: their age, the
\* funding rate, a leg that does not pay its fees, the slippage, one funding and the
\* least edge.
Troubles == {"none", "stale account", "stale inputs", "funding unknown", "no profit"}

EconomicsReasons(trouble) ==
    CASE trouble = "funding unknown" -> {"ECONOMICS_INPUT_UNKNOWN"}
      [] trouble = "no profit" -> {"ECONOMICS_INSUFFICIENT"}
      [] OTHER -> {}

\* What a reduction would sell: a share of the long, nothing if that is too little.
Reduction(ev) ==
    LET share == (ev.held[target] * Fraction[1]) \div Fraction[2]
    IN IF ev.held[target] <= 0 \/ share < Minimum THEN 0 ELSE share
ReductionReasons(ev) == IF ev.held[target] < 0 THEN {"REDUCTION_STATE_INVALID"} ELSE {}

(***************************************************************************)
(* The preflight.                                                           *)
(***************************************************************************)
SharedReasons(trouble) ==
    CASE trouble = "stale account" -> {"ACCOUNT_EVIDENCE_STALE"}
      [] trouble = "stale inputs" -> {"REQUIRED_EVIDENCE_STALE"}
      [] OTHER -> {}

PreflightReasons(ev, supplement, plan, trouble) ==
    LET admitted == trouble # "stale account"
    IN SharedReasons(trouble)
       \cup (IF plan = "ADD_LONG" THEN EconomicsReasons(trouble) ELSE {})
       \cup (IF plan = "ADD_LONG" /\ admitted
             THEN Projected(ev) \cup LeverageReasons(ev, supplement)
                  \cup CapacityReasons(ev, RequestedNotional)
             ELSE {})
       \cup (IF plan = "REDUCE_LONG" /\ admitted THEN ReductionReasons(ev) ELSE {})

Proposal(ev, plan, reasons) ==
    CASE reasons # {} -> [kind |-> "none", quantity |-> 0]
      [] reasons = {} /\ plan = "ADD_LONG" ->
            [kind |-> "add-long", quantity |-> RequestedNotional]
      [] reasons = {} /\ plan = "REDUCE_LONG" ->
            [kind |-> IF Reduction(ev) = 0 THEN "reduction-no-op" ELSE "close-long-quantity",
             quantity |-> Reduction(ev)]
      [] OTHER -> [kind |-> "hold-no-action", quantity |-> 0]

FlatAccount ==
    [held |-> [m \in Markets |-> 0], lever |-> [m \in Markets |-> 1], rows |-> Linear,
     orders |-> {}, asset |-> "cash"]
NotRead == [read |-> FALSE, held |-> 0, lever |-> 0]

RiskInit ==
    /\ holding = FlatAccount
    /\ review = [at |-> "new", evidence |-> holding, supplement |-> NotRead,
                 reasons |-> {}, proposal |-> [kind |-> "none", quantity |-> 0], gross |-> 0,
                 leg |-> 1, blocked |-> {}, others |-> FALSE, used |-> {}]

\* The account as it is found.
Suppose(found) ==
    /\ review.at = "new"
    /\ holding' = found
    /\ review' = [review EXCEPT !.at = "idle"]

(***************************************************************************)
(* What happens on the exchange.                                            *)
(***************************************************************************)
\* The owner places an order the account can bear.
OwnerPlaces(o) ==
    /\ review.at # "new"
    /\ o.id \notin review.used
    /\ o.closing \/ o.leaves <= Available(holding)
    /\ holding' = [holding EXCEPT !.orders = @ \cup {o}]
    /\ review' = [review EXCEPT !.others = TRUE, !.used = @ \cup {o.id}]

OwnerWithdraws(o) ==
    /\ o \in holding.orders /\ o.leg = 0
    /\ holding' = [holding EXCEPT !.orders = @ \ {o}]
    /\ UNCHANGED review

\* An order fills, whole or in part; one that closes never opens a position.
Executes(o, quantity) ==
    LET before == holding.held[o.symbol]
    IN /\ o \in holding.orders
       /\ quantity <= o.leaves
       /\ o.closing => (o.side * before < 0 /\ quantity <= Size(before))
       /\ holding' = [holding EXCEPT
                         !.held[o.symbol] = before + o.side * quantity,
                         !.orders = (@ \ {o})
                                    \cup (IF quantity = o.leaves THEN {}
                                          ELSE {[o EXCEPT !.leaves = @ - quantity]})]
       /\ UNCHANGED review

(***************************************************************************)
(* What the process does.                                                   *)
(***************************************************************************)
GatherAccount ==
    /\ review.at = "idle"
    /\ review' = [review EXCEPT !.at = "gathered", !.evidence = holding, !.others = FALSE]
    /\ UNCHANGED holding

\* The target is read again for its leverage; the reading may fail.
ReadTarget(answered) ==
    /\ review.at = "gathered" /\ NeedsTargetRead(review.evidence)
    /\ review' = [review EXCEPT
                     !.at = "supplied",
                     !.supplement = IF answered
                                    THEN [read |-> TRUE, held |-> holding.held[target],
                                          lever |-> holding.lever[target]]
                                    ELSE NotRead]
    /\ UNCHANGED holding

EvaluatePreflight(plan, trouble) ==
    LET ev == review.evidence
        reasons == PreflightReasons(ev, review.supplement, plan, trouble)
    IN /\ IF NeedsTargetRead(ev) /\ plan = "ADD_LONG" THEN review.at = "supplied"
          ELSE review.at = "gathered"
       /\ review' = [review EXCEPT
                        !.at = IF reasons = {} /\ plan = "ADD_LONG" THEN "approved" ELSE "ended",
                        !.reasons = reasons,
                        !.proposal = Proposal(ev, plan, reasons),
                        !.gross = IF plan = "ADD_LONG" /\ reasons = {}
                                  THEN Gross(ev, RequestedNotional) ELSE 0]
       /\ UNCHANGED holding

(***************************************************************************)
(* The legs of an approved plan.                                            *)
(***************************************************************************)
GatherForLeg ==
    /\ review.at = "approved"
    /\ review' = [review EXCEPT !.at = "regathered", !.evidence = holding]
    /\ UNCHANGED holding

\* The orders on the target, and the legs placed before this one, untouched.
TargetOrders(state) == {o \in state.orders : o.symbol = target}
Prefix(state) == {LegOrder(k) : k \in 1..(review.leg - 1)} = TargetOrders(state)

\* The leg against the evidence and against the state of the target read after it.
LegReasons(ev, k) ==
    (IF ev.held[target] # 0 \/ holding.held[target] # 0 THEN {"TARGET_POSITION_NOT_FLAT"} ELSE {})
    \cup (IF holding.lever[target] # MaxLeverage THEN {"LEVERAGE_NOT_ONE_X"} ELSE {})
    \cup (IF Prefix(holding) THEN {} ELSE {"PREFIX_RECONCILIATION_MISMATCH"})
    \cup (IF Prefix(ev) THEN {} ELSE {"ACCOUNT_ORDER_PREFIX_MISMATCH"})
    \cup Projected(ev)
    \cup LeverageReasons(ev, NotRead)
    \cup CapacityReasons(ev, LegSizes[k])
    \cup (IF RequestedNotional <= Allocation THEN {} ELSE {"APPROVED_ALLOCATION_EXCEEDED"})

AdmitLeg ==
    LET reasons == LegReasons(review.evidence, review.leg)
    IN /\ review.at = "regathered"
       /\ review' = [review EXCEPT
                        !.at = IF reasons = {} THEN "admitted" ELSE "ended",
                        !.blocked = reasons]
       /\ UNCHANGED holding

\* The exchange takes an order the account can bear.
PlaceLeg ==
    LET o == LegOrder(review.leg)
        borne == o.leaves <= Available(holding)
    IN /\ review.at = "admitted"
       /\ holding' = [holding EXCEPT !.orders = IF borne THEN @ \cup {o} ELSE @]
       /\ review' = [review EXCEPT
                        !.at = CASE ~borne -> "refused"
                                 [] borne /\ review.leg < Len(LegSizes) -> "approved"
                                 [] OTHER -> "placed",
                        !.leg = IF borne /\ review.leg < Len(LegSizes) THEN @ + 1 ELSE @]

RiskNext ==
    \/ \E found \in Accounts : Suppose(found)
    \/ \E o \in OwnersOrders : OwnerPlaces(o)
    \/ \E o \in holding.orders : OwnerWithdraws(o)
    \/ \E o \in holding.orders : \E quantity \in 1..o.leaves : Executes(o, quantity)
    \/ GatherAccount
    \/ \E answered \in BOOLEAN : ReadTarget(answered)
    \/ \E plan \in Planned, trouble \in Troubles : EvaluatePreflight(plan, trouble)
    \/ GatherForLeg
    \/ AdmitLeg
    \/ PlaceLeg

RiskSpec == RiskInit /\ [][RiskNext]_riskVars

(***************************************************************************)
(* Properties                                                               *)
(***************************************************************************)
RiskTypeOK ==
    /\ holding.held \in [Markets -> Int] /\ holding.lever \in [Markets -> Nat]
    /\ holding.rows \subseteq Linear /\ holding.asset \in Assets
    /\ \A o \in holding.orders : o.leaves > 0 /\ o.symbol \in Markets /\ o.leg \in {0} \cup Legs
    /\ review.at \in {"new", "idle", "gathered", "supplied", "approved", "regathered",
                      "admitted", "placed", "refused", "ended"}
    /\ review.leg \in Legs /\ review.gross \in Nat
    /\ review.others \in BOOLEAN

\* The gross exposure a passing preflight reports is the worst that can come of it: in
\* whatever order the orders then in the book and the legs of the plan fill, what the
\* account holds never comes to more, unless the owner adds to it
\* (projectPositions, projectOrders, projectPlannedOrders, projectWallet).
GrossIsTheWorst ==
    (review.proposal.kind = "add-long" /\ ~review.others) =>
        Held(holding) + Spot(holding) <= review.gross

\* A plan the preflight passed fits the account to its last leg: none is blocked for
\* capacity by its own evidence, which no longer counts the legs before it as requested,
\* and none is refused by the exchange for want of balance, unless the owner adds orders
\* (deriveRequestedNotional against calculatePortfolioRiskIncrementalCapacity).
ApprovedLegsFit ==
    ("CAPACITY_EXCEEDED" \in review.blocked \/ review.at = "refused") => review.others
=============================================================================
