--------------------------- MODULE AccountEvidence ---------------------------
(***************************************************************************)
(* The account evidence that admission rests on                            *)
(* (application/account-evidence-collection.ts, collectAccountEvidence;    *)
(* domain/account/account-evidence-consistency.ts;                         *)
(* application/mainnet-execution-readiness.ts).                            *)
(*                                                                         *)
(* No request returns the whole account at one moment.  The collector      *)
(* reads it twice, pass A before and pass B after the exchange time it     *)
(* calls the cutoff, and believes what both passes agree on; the coins     *)
(* whose rows it has to read are themselves discovered before A and again  *)
(* after B.  Meanwhile orders are placed, filled and cancelled, positions  *)
(* are closed, amounts move and coins are listed.                          *)
(***************************************************************************)
EXTENDS Naturals, FiniteSets

CONSTANTS
    Coins,    \* the settlement coins of linear instruments
    Listed    \* those the catalogue has when the collection begins

ASSUME ListedAssumption == Listed \subseteq Coins

VARIABLES
    account,  \* the account at the exchange
    gather,   \* the collection
    shown     \* what pass A and pass B have read

evidenceVars == <<account, gather, shown>>

-----------------------------------------------------------------------------
Existence == {"never", "there", "gone"}

\* The account: the coins in the catalogue, one order and one position of each
\* coin, and an amount of the wallet.
Account == [listed : SUBSET Coins,
            order : [Coins -> Existence],
            position : [Coins -> Existence],
            amount : 0 .. 1]

\* What one pass has read: the coins with an open order, those with a position,
\* and the amount.
PassReading == [orders : SUBSET Coins, positions : SUBSET Coins, amount : 0 .. 1]

Nothing == [orders |-> {}, positions |-> {}, amount |-> 0]

Partition == {<<"mode-probe">>, <<"wallet">>}
             \cup ({"open-orders", "positions"} \X Coins)

Steps == {"begin", "identity", "discover", "A", "cutoff", "history", "B",
          "rediscover", "close", "ended"}

\* The collection: its step, the partitions of the pass still to read, the coins of
\* the two discoveries, the worst gap of its coverage and what was there at the cutoff.
\* A gap that is "aside" is one admission can attribute to something else.
Gathering == [step : Steps,
              todo : SUBSET Partition,
              first : SUBSET Coins,
              second : SUBSET Coins,
              gap : {"none", "aside", "open"},
              cutoff : SUBSET PassReading]

EvidenceTypeOK ==
    /\ account \in Account
    /\ gather \in Gathering
    /\ shown \in [{"A", "B"} -> PassReading]

EvidenceInit ==
    /\ account = [listed |-> Listed,
                  order |-> [c \in Coins |-> "never"],
                  position |-> [c \in Coins |-> "never"],
                  amount |-> 0]
    /\ gather = [step |-> "begin", todo |-> {}, first |-> {}, second |-> {},
                 gap |-> "none", cutoff |-> {}]
    /\ shown = [pass \in {"A", "B"} |-> Nothing]

-----------------------------------------------------------------------------
(* The account moves while it is read.                                      *)

Moving == gather.step # "ended" /\ UNCHANGED <<gather, shown>>

Place(c) ==
    /\ c \in account.listed
    /\ account.order[c] = "never"
    /\ account' = [account EXCEPT !.order[c] = "there"]

Cancel(c) ==
    /\ account.order[c] = "there"
    /\ account' = [account EXCEPT !.order[c] = "gone"]

\* A fill turns the order into a position and takes its fee from the wallet.
FillAt(c) ==
    /\ account.order[c] = "there"
    /\ account.position[c] = "never"
    /\ \E amount \in account.amount .. 1 :
          account' = [account EXCEPT !.order[c] = "gone",
                                     !.position[c] = "there",
                                     !.amount = amount]

ClosePosition(c) ==
    /\ account.position[c] = "there"
    /\ account' = [account EXCEPT !.position[c] = "gone"]

Accrue ==
    /\ account.amount = 0
    /\ account' = [account EXCEPT !.amount = 1]

List(c) ==
    /\ c \notin account.listed
    /\ account' = [account EXCEPT !.listed = @ \cup {c}]

AccountMoves ==
    /\ Moving
    /\ \/ \E c \in Coins : Place(c) \/ Cancel(c) \/ FillAt(c) \/ ClosePosition(c) \/ List(c)
       \/ Accrue

-----------------------------------------------------------------------------
(* One request.  The transport sends it at most twice, and only when it     *)
(* failed on the way or was told when to come back; every attempt counts    *)
(* against one budget of attempts and one deadline.                         *)

Worse(gap, other) ==
    IF "open" \in {gap, other} THEN "open"
    ELSE IF "aside" \in {gap, other} THEN "aside" ELSE "none"

\* The mode of another symbol is the one partition of a pass whose failure the
\* readiness verdict sets aside; every other gap stays open.
GapOf(partition) == IF partition[1] = "mode-probe" THEN "aside" ELSE "open"

\* The partitions of a pass, as derived from the coins of the first discovery.
PassPartitions(coins) ==
    {<<"mode-probe">>, <<"wallet">>} \cup ({"open-orders", "positions"} \X coins)

\* The order in which a pass reads its partitions (that of their keys).
Rank == [endpoint \in {"mode-probe", "open-orders", "positions", "wallet"} |->
            CASE endpoint = "mode-probe" -> 1
              [] endpoint = "open-orders" -> 2
              [] endpoint = "positions" -> 3
              [] endpoint = "wallet" -> 4]

Earliest(todo) ==
    {partition \in todo : \A other \in todo : Rank[partition[1]] <= Rank[other[1]]}

OpenOrders == {c \in Coins : account.order[c] = "there"}

HeldPositions == {c \in Coins : account.position[c] = "there"}

\* What the mappers make of the rows of a partition.
Mapped(reading, partition) ==
    CASE partition[1] = "open-orders" ->
            [reading EXCEPT !.orders = @ \cup ({partition[2]} \cap OpenOrders)]
      [] partition[1] = "positions" ->
            [reading EXCEPT !.positions = @ \cup ({partition[2]} \cap HeldPositions)]
      [] partition[1] = "wallet" -> [reading EXCEPT !.amount = account.amount]
      [] partition[1] = "mode-probe" -> reading

\* A deadline, the budget of attempts or of rows, or a time the exchange does not
\* give: the collection ends with what it has.
GiveUp ==
    /\ gather.step \notin {"begin", "ended"}
    /\ gather' = [gather EXCEPT !.step = "ended", !.gap = "open", !.todo = {}]
    /\ UNCHANGED <<account, shown>>

-----------------------------------------------------------------------------
Reach(step) == gather' = [gather EXCEPT !.step = step]

\* The identity of the key comes before any other private read; a key that fails it
\* yields no evidence at all.
ReadIdentity ==
    /\ gather.step = "begin"
    /\ Reach("identity") \/ (gather' = [gather EXCEPT !.step = "ended", !.gap = "open"])
    /\ UNCHANGED <<account, shown>>

ReadOpeningTime ==
    /\ gather.step = "identity"
    /\ Reach("discover")
    /\ UNCHANGED <<account, shown>>

\* The coins of the catalogue; a discovery that fails leaves its coverage failed for
\* good, also when the second one succeeds, and keeps the coins it has.
Discover ==
    /\ gather.step \in {"discover", "rediscover"}
    /\ \E gap \in {gather.gap, "open"} :
          LET coins == IF gap = gather.gap THEN account.listed ELSE Listed
          IN IF gather.step = "discover"
             THEN gather' = [gather EXCEPT !.step = "A", !.gap = gap, !.first = coins,
                                           !.todo = PassPartitions(coins)]
             ELSE gather' = [gather EXCEPT !.step = "close", !.gap = gap, !.second = coins]
    /\ UNCHANGED <<account, shown>>

\* One partition of a pass: its rows, or a gap.
ReadPartition ==
    /\ gather.step \in {"A", "B"}
    /\ \E partition \in Earliest(gather.todo) :
          \/ /\ gather' = [gather EXCEPT !.todo = @ \ {partition}]
             /\ shown' = [shown EXCEPT ![gather.step] = Mapped(@, partition)]
          \/ /\ gather' = [gather EXCEPT !.todo = @ \ {partition},
                                         !.gap = Worse(@, GapOf(partition))]
             /\ UNCHANGED shown
    /\ UNCHANGED account

EndPass ==
    /\ gather.step \in {"A", "B"}
    /\ gather.todo = {}
    /\ Reach(IF gather.step = "A" THEN "cutoff" ELSE "rediscover")
    /\ UNCHANGED <<account, shown>>

ReadCutoff ==
    /\ gather.step = "cutoff"
    /\ gather' = [gather EXCEPT
                    !.step = "history",
                    !.cutoff = {[Nothing EXCEPT !.orders = OpenOrders,
                                                !.positions = HeldPositions]}]
    /\ UNCHANGED <<account, shown>>

\* The histories of orders and executions of the hour that ends at the cutoff.  Those
\* that are not linear are set aside when they fail, or left out by the profile
\* operator-execution.
ReadHistory ==
    /\ gather.step = "history"
    /\ \E gap \in {"none", "aside", "open"} :
          gather' = [gather EXCEPT !.step = "B", !.gap = Worse(@, gap),
                                   !.todo = PassPartitions(gather.first)]
    /\ UNCHANGED <<account, shown>>

ReadClosingTime ==
    /\ gather.step = "close"
    /\ Reach("ended")
    /\ UNCHANGED <<account, shown>>

EvidenceNext ==
    \/ AccountMoves
    \/ ReadIdentity \/ ReadOpeningTime \/ Discover
    \/ ReadPartition \/ EndPass \/ ReadCutoff \/ ReadHistory
    \/ ReadClosingTime \/ GiveUp

EvidenceSpec == EvidenceInit /\ [][EvidenceNext]_evidenceVars

-----------------------------------------------------------------------------
(* The verdicts on what was collected.                                      *)

\* A variant that looks for the coins that are no longer in the catalogue.
DiscoveryShrunk(first, second) == first \ second # {}

\* The second discovery found a coin the passes have not read.
DiscoveryExpanded(first, second) == second \ first # {}

PassesDiffer == shown["A"] # shown["B"]

\* accountCriticalDifferenceIsOnlyNumericAssetMovement
OnlyAmountsDiffer ==
    /\ shown["A"].orders = shown["B"].orders
    /\ shown["A"].positions = shown["B"].positions
    /\ shown["A"].amount # shown["B"].amount
    /\ ~DiscoveryExpanded(gather.first, gather.second)

\* The opening, the cutoff and the closing time bracket the two passes.
TimesBracketed == gather.step = "ended" /\ gather.cutoff # {}

\* Every expected partition was traversed.
CoverageWhole == gather.gap = "none"

\* deriveAccountEvidenceCollectionStatus: no reason and no diagnostic.
CollectionComplete ==
    /\ TimesBracketed
    /\ CoverageWhole
    /\ ~PassesDiffer
    /\ ~DiscoveryExpanded(gather.first, gather.second)

\* A gap that touches neither the linear positions and orders nor the target.
GapSetAside == gather.gap \in {"none", "aside"}

\* deriveMainnetExecutionReadiness; only a direct trade lets amounts move.
ReadyFor(direct) ==
    /\ TimesBracketed
    /\ GapSetAside
    /\ ~DiscoveryExpanded(gather.first, gather.second)
    /\ ~PassesDiffer \/ (direct /\ OnlyAmountsDiffer)

EvidenceAdmitted == CollectionComplete \/ ReadyFor(FALSE) \/ ReadyFor(TRUE)

\* Evidence that is complete, or that admission calls ready, is true of its cutoff:
\* the orders and positions it shows were there at the cutoff, and it shows every
\* one that was there at the cutoff and has not gone since, of whatever coin
\* (evaluateAccountEvidenceConsistency, checkAccountFacts).
TrueAtTheCutoff ==
    EvidenceAdmitted =>
        \A then \in gather.cutoff :
            /\ shown["B"].orders \subseteq then.orders
            /\ shown["B"].positions \subseteq then.positions
            /\ (then.orders \cap OpenOrders) \subseteq shown["B"].orders
            /\ (then.positions \cap HeldPositions) \subseteq shown["B"].positions
=============================================================================
