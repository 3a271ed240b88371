----------------------------- MODULE StatusRead -----------------------------
(***************************************************************************)
(* What a status run concludes about one source                            *)
(* (application/mainnet-operator-test-status-composition.ts, observe, and  *)
(* mainnet-operator-test-status.ts, classify).                             *)
(*                                                                         *)
(* The observation is not a snapshot of the exchange: the order is looked  *)
(* up twice, then its fills and the orders of the symbol are read, then    *)
(* the position, then the fills of the take-profit, and the order may be   *)
(* filled, cancelled, closed by its take-profit or by hand between any two *)
(* of these reads.  OperatorTrade takes from this module that a verdict is *)
(* never better than the truth.                                            *)
(***************************************************************************)
EXTENDS Naturals, FiniteSets

CONSTANT Quantity   \* the quantity of the entry order, in steps

ASSUME QuantityAssumption == Quantity \in Nat \ {0}

VARIABLES
    sent,      \* what the journal says of the CREATE when the status run begins
    entry,     \* the entry order at the exchange
    child,     \* its take-profit; quantity 0 means that there is none
    sold,      \* what the operator sold by hand
    declared,  \* the operator has said so (manual action position-closed)
    look       \* the status run

statusVars == <<sent, entry, child, sold, declared, look>>

-----------------------------------------------------------------------------
Sent == [typed : BOOLEAN, attempt : {"none", "accepted", "rejected", "ambiguous"}]

EntryOrder == [arrived : BOOLEAN, live : BOOLEAN, filled : 0 .. Quantity]

Child == [quantity : 0 .. Quantity, live : BOOLEAN, filled : 0 .. Quantity]

Reads == {"realtime", "history", "fills", "symbol realtime", "symbol history",
          "position", "exits"}

\* The reads still to come (todo) and what those behind it showed: the order as
\* the two lookups have it, its fills, the entry and take-profit orders of the
\* symbol, the position and the fills of the take-profit.
Observation == [todo : SUBSET Reads,
                parents : SUBSET EntryOrder,
                fills : 0 .. Quantity,
                entries : SUBSET EntryOrder,
                children : SUBSET Child,
                position : 0 .. Quantity,
                exits : 0 .. Quantity,
                declared : BOOLEAN,
                verdict : {"none", "failed", "known clean", "unknown clean",
                           "pending", "unknown"},
                outcome : {"none", "NOT_EXERCISED", "PARTIAL_EVIDENCE",
                           "MANUAL_CLEANUP", "TP_LIFECYCLE_PASS", "UNKNOWN"}]

Nowhere == [arrived |-> FALSE, live |-> FALSE, filled |-> 0]

NoChild == [quantity |-> 0, live |-> FALSE, filled |-> 0]

Unread == [todo |-> {}, parents |-> {}, fills |-> 0, entries |-> {},
           children |-> {}, position |-> 0, exits |-> 0, declared |-> FALSE,
           verdict |-> "none", outcome |-> "none"]

StatusTypeOK ==
    /\ sent \in Sent
    /\ entry \in EntryOrder
    /\ child \in Child
    /\ sold \in 0 .. Quantity
    /\ declared \in BOOLEAN
    /\ look \in Observation

StatusInit ==
    /\ sent = [typed |-> FALSE, attempt |-> "none"]
    /\ entry = Nowhere
    /\ child = NoChild
    /\ sold = 0
    /\ declared = FALSE
    /\ look = Unread

Position == entry.filled - child.filled - sold

\* It may still add to the account, or has.
StillExposed == entry.live \/ Position > 0

-----------------------------------------------------------------------------
\* The exchange, and the operator at its screen.

Send(typed, attempt) ==
    /\ sent.attempt = "none" /\ ~entry.arrived
    /\ sent' = [typed |-> typed, attempt |-> attempt]
    /\ UNCHANGED <<entry, child, sold, declared, look>>

Arrives ==
    /\ sent.attempt \in {"accepted", "ambiguous"}
    /\ ~entry.arrived
    /\ entry' = [arrived |-> TRUE, live |-> TRUE, filled |-> 0]
    /\ UNCHANGED <<sent, child, sold, declared, look>>

EntryFills ==
    /\ entry.live
    /\ entry' = [entry EXCEPT !.filled = @ + 1,
                              !.live = entry.filled + 1 < Quantity]
    /\ UNCHANGED <<sent, child, sold, declared, look>>

EntryCancelled ==
    /\ entry.live
    /\ entry' = [entry EXCEPT !.live = FALSE]
    /\ UNCHANGED <<sent, child, sold, declared, look>>

\* The take-profit follows what is filled as long as it is alive.
Protect ==
    /\ child.quantity < entry.filled
    /\ child.quantity = 0 \/ child.live
    /\ Position > 0
    /\ child' = [child EXCEPT !.quantity = entry.filled, !.live = TRUE]
    /\ UNCHANGED <<sent, entry, sold, declared, look>>

ChildFills ==
    /\ child.live /\ Position > 0
    /\ child' = [child EXCEPT !.filled = @ + 1,
                              !.live = child.filled + 1 < child.quantity]
    /\ UNCHANGED <<sent, entry, sold, declared, look>>

\* A position closed by hand takes its take-profit with it.
CloseByHand ==
    /\ Position > 0
    /\ sold' = sold + Position
    /\ child' = [child EXCEPT !.live = FALSE]
    /\ UNCHANGED <<sent, entry, declared, look>>

\* The operator says what is true: the position was closed by hand.
Declare ==
    /\ sold > 0 /\ Position = 0 /\ ~declared
    /\ declared' = TRUE
    /\ UNCHANGED <<sent, entry, child, sold, look>>

-----------------------------------------------------------------------------
\* The reads.

\* realtime lists what is live, and what is over as long as it is recent; history
\* lists what is over, later or sooner.
Shows(where, orders) ==
    LET live == {o \in orders : o.live}
    IN  IF where \in {"realtime", "symbol realtime"}
        THEN {live \cup over : over \in SUBSET (orders \ live)}
        ELSE SUBSET (orders \ live)

EntryListed == IF entry.arrived THEN {entry} ELSE {}
ChildListed == IF child.quantity > 0 THEN {child} ELSE {}

Begins ==
    /\ look.todo = {}
    /\ look' = [Unread EXCEPT !.todo = Reads, !.declared = declared]
    /\ UNCHANGED <<sent, entry, child, sold, declared>>

\* The two lookups, then the three reads of the symbol, then one by one.
Ready(read) ==
    /\ read \in look.todo
    /\ read \in {"fills", "symbol realtime", "symbol history"} =>
          look.todo \cap {"realtime", "history"} = {}
    /\ read \in {"position", "exits"} =>
          look.todo \subseteq {"position", "exits"}
    /\ read = "exits" => look.todo = {"exits"}

Failed == [Unread EXCEPT !.verdict = "failed"]

\* deduplicateOrders: two records of one order that differ contradict each other.
Deduplicated(seen) ==
    IF \E records \in {seen.parents, seen.entries, seen.children} :
          Cardinality(records) > 1
    THEN Failed ELSE seen

LookUp(read) ==
    /\ read \in {"realtime", "history"} /\ Ready(read)
    /\ \E shown \in Shows(read, EntryListed) :
          look' = Deduplicated([look EXCEPT !.todo = @ \ {read},
                                            !.parents = @ \cup shown])

ReadEntryFills ==
    /\ Ready("fills")
    /\ look' = [look EXCEPT !.todo = @ \ {"fills"}, !.fills = entry.filled]

ReadSymbol(read) ==
    /\ read \in {"symbol realtime", "symbol history"} /\ Ready(read)
    /\ \E entries \in Shows(read, EntryListed), children \in Shows(read, ChildListed) :
          look' = Deduplicated([look EXCEPT !.todo = @ \ {read},
                                            !.entries = @ \cup entries,
                                            !.children = @ \cup children])

ReadPosition ==
    /\ Ready("position")
    /\ look' = [look EXCEPT !.todo = @ \ {"position"}, !.position = Position]

-----------------------------------------------------------------------------
\* classify.

ParentSeen(seen) == seen.parents # {}
Parent(seen) == CHOOSE o \in seen.parents : TRUE
ChildSeen(seen) == seen.children # {}
ChildOf(seen) == CHOOSE o \in seen.children : TRUE

\* The fills are attributed by the exchange's order id, which is known from the
\* lookups or from the acknowledgement.
FillsAttributed(seen) ==
    ParentSeen(seen) \/ sent.attempt = "accepted" \/ seen.fills = 0

\* executionTimelineIsValid and the sums: what left was there before.
ExitsAttributed(seen) ==
    /\ seen.exits <= seen.fills
    /\ ChildSeen(seen) => seen.exits = ChildOf(seen).filled

ParentMatches(seen) ==
    ParentSeen(seen) =>
        /\ Parent(seen).filled = seen.fills
        /\ seen.fills > 0 => ChildSeen(seen) \/ seen.declared
        /\ ChildSeen(seen) => ChildOf(seen).quantity = Parent(seen).filled

\* Variant: the position is compared with what was bought.
PositionIsBought(seen) == seen.declared \/ seen.position = seen.fills

PositionMatches(seen) ==
    seen.declared \/ seen.position = seen.fills - seen.exits

NoReasons(seen) ==
    /\ FillsAttributed(seen)
    /\ ExitsAttributed(seen)
    /\ ParentMatches(seen)
    /\ PositionMatches(seen)

\* Some order of the source is still open.
StillOpen(seen) ==
    \/ ParentSeen(seen) /\ Parent(seen).live
    \/ ChildSeen(seen) /\ ChildOf(seen).live
    \/ \E o \in seen.entries : o.live

Cleanup(seen) ==
    IF StillOpen(seen) \/ seen.position > 0 THEN "pending" ELSE "clean"

\* Variant: an order that is not listed was not filled.
ZeroFillsListed(seen) ==
    seen.fills = 0 /\ (ParentSeen(seen) => Parent(seen).filled = 0)

ZeroFillsProven(seen) ==
    /\ seen.fills = 0
    /\ IF ParentSeen(seen) THEN Parent(seen).filled = 0
       ELSE sent.attempt = "rejected"

AcceptedNotVisible(seen) ==
    /\ sent.typed /\ sent.attempt = "accepted"
    /\ ~ParentSeen(seen) /\ seen.fills = 0
    /\ Cleanup(seen) = "clean" /\ ~seen.declared

OutcomeOf(seen) ==
    IF ~NoReasons(seen) THEN "UNKNOWN"
    ELSE IF ZeroFillsProven(seen) THEN "NOT_EXERCISED"
    ELSE IF AcceptedNotVisible(seen) THEN "PARTIAL_EVIDENCE"
    ELSE IF seen.declared THEN "MANUAL_CLEANUP"
    ELSE IF seen.fills > 0 /\ ChildSeen(seen)
         THEN IF seen.exits = seen.fills /\ Cleanup(seen) = "clean"
              THEN "TP_LIFECYCLE_PASS" ELSE "PARTIAL_EVIDENCE"
    ELSE "UNKNOWN"

\* Variant: the cleanup status is the verdict, whatever the outcome.
VerdictIsCleanup(seen) == IF NoReasons(seen) THEN Cleanup(seen) ELSE "unknown"

\* hasLatestApiVerifiedCleanReconciliation asks for a clean and known outcome.
VerdictFor(seen) ==
    IF ~NoReasons(seen) THEN "unknown"
    ELSE IF Cleanup(seen) = "pending" \/ AcceptedNotVisible(seen) THEN "pending"
    ELSE IF OutcomeOf(seen) = "UNKNOWN" THEN "unknown clean"
    ELSE "known clean"

\* The fills of the take-profit the symbol listed, and the conclusion.
Conclude ==
    /\ Ready("exits")
    /\ LET seen == [look EXCEPT !.todo = {},
                                !.exits = IF ChildSeen(look) THEN child.filled
                                          ELSE 0]
       IN  look' = [seen EXCEPT !.verdict = VerdictFor(seen),
                                !.outcome = OutcomeOf(seen)]

ReadFails == look.todo # {} /\ look' = Failed

Reading ==
    /\ \/ \E read \in Reads : LookUp(read) \/ ReadSymbol(read)
       \/ ReadEntryFills \/ ReadPosition \/ Conclude \/ ReadFails
    /\ UNCHANGED <<sent, entry, child, sold, declared>>

StatusNext ==
    \/ \E typed \in BOOLEAN, attempt \in {"accepted", "rejected", "ambiguous"} :
          Send(typed, attempt)
    \/ Arrives \/ EntryFills \/ EntryCancelled \/ Protect \/ ChildFills
    \/ CloseByHand \/ Declare
    \/ Begins \/ Reading

StatusSpec == StatusInit /\ [][StatusNext]_statusVars

-----------------------------------------------------------------------------
\* Properties.

\* The lookups found the order, or there was no acknowledgement to rely on.  An
\* acknowledged order that both lookups missed is excluded: one that arrives, is
\* filled in part and closed by its take-profit between the reads that follow
\* passes with its rest still in the books, as classify asks nothing of a missing
\* parent whose fills and exits agree.
Found == ParentSeen(look) \/ look.declared \/ sent.attempt # "accepted"

\* Reads that happen to show the exchange as it is.
Truthful ==
    /\ look.verdict \notin {"none", "failed"}
    /\ look.parents = EntryListed
    /\ look.entries = EntryListed /\ look.children = ChildListed
    /\ look.fills = entry.filled /\ look.exits = child.filled
    /\ look.position = Position

\* The reads behind a verdict belong to different moments, and yet
\* (mainnet-operator-test-status.ts, classify) a source is released only when its
\* order is out of the books and nothing of it is left in the position, now and
\* for good; and TP_LIFECYCLE_PASS, the evidence of the test, says that every unit
\* that was bought left through the take-profit, none by hand.  True reads of an
\* order with its take-profit and no hand on it never end in doubt: doubt raises HALT.
VerdictsAreTrue ==
    /\ Found =>
          /\ look.verdict = "known clean" => ~StillExposed
          /\ look.outcome = "TP_LIFECYCLE_PASS"
                => child.filled = entry.filled /\ sold = 0
    /\ Truthful /\ sold = 0 /\ entry.arrived /\ child.quantity = entry.filled
          => look.verdict \in {"pending", "known clean"}
=============================================================================
