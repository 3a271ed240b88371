------------------------- MODULE LiquidationEvidence --------------------------
(***************************************************************************)
(* The collection of liquidation evidence                                  *)
(* (application/liquidation-evidence-collection.ts and                     *)
(* adapters/coinalyze/coinalyze-client.ts): the provider's catalogue, then *)
(* the history of the eligible contracts in batches, each of which costs   *)
(* calls of a quota that is counted over a window of time.                 *)
(*                                                                         *)
(* The provider leaves out the hours without a liquidation.  An hour that  *)
(* is missing is therefore either a zero or something that was lost on the *)
(* way, and the collection has to tell which.  The hours all closed before *)
(* the cutoff; the provider is taken to have published them by then.       *)
(***************************************************************************)
EXTENDS Naturals, Sequences, FiniteSets

LOCAL INSTANCE Functions

CONSTANTS
    Contracts,  \* how many contracts are eligible, numbered in their order
    Hours,      \* the closed hours before the cutoff
    BatchSize,  \* the contracts of one request
    Calls,      \* the calls of a window of time
    Waits       \* bound: the waits a collection has time for

ASSUME BatchAssumption ==
    BatchSize \in Nat \ {0} /\ Contracts \in Nat /\ Waits \in Nat

VARIABLES
    happened,  \* the contracts and hours with a liquidation
    quota,     \* the charges of the current window, the oldest first
    sweep      \* the collection

liquidationVars == <<happened, quota, sweep>>

-----------------------------------------------------------------------------
Eligible == 1 .. Contracts

Cell == Eligible \X Hours

\* The collection: the contracts the catalogue gave, whether it was whole, those
\* whose history is still to be asked for, the request before it is sent ("quota") and
\* after ("sent"), the rows that came, and whether every answer was valid.
Sweep == [step : {"begin", "catalogue", "quota", "sent", "ended"},
          listed : SUBSET Eligible,
          whole : BOOLEAN,
          left : SUBSET Eligible,
          retried : BOOLEAN,
          waited : 0 .. Waits,
          rows : SUBSET Cell,
          valid : BOOLEAN]

LiquidationTypeOK ==
    /\ happened \subseteq Cell
    /\ quota \in Seq(1 .. Calls)
    /\ sweep \in Sweep

LiquidationInit ==
    /\ happened = {}
    /\ quota = <<>>
    /\ sweep = [step |-> "begin", listed |-> {}, whole |-> FALSE, left |-> {},
                retried |-> FALSE, waited |-> 0, rows |-> {}, valid |-> TRUE]

-----------------------------------------------------------------------------
(* The quota: acquireQuota.                                                 *)

Used == FoldFunction(LAMBDA cost, total : cost + total, 0, quota)

Batch == {contract \in sweep.left :
             Cardinality({other \in sweep.left : other < contract}) < BatchSize}

\* The oldest charge leaves the window while a request is under way.
ChargeExpires ==
    /\ sweep.step = "sent" /\ quota # <<>>
    /\ quota' = Tail(quota)
    /\ UNCHANGED <<happened, sweep>>

AcquireQuota ==
    /\ sweep.step = "quota"
    /\ Used + Cardinality(Batch) <= Calls
    /\ quota' = Append(quota, Cardinality(Batch))
    /\ sweep' = [sweep EXCEPT !.step = "sent"]
    /\ UNCHANGED happened

\* It waits for the oldest charge to leave the window, and tries again.
WaitForQuota ==
    /\ sweep.step = "quota"
    /\ Used + Cardinality(Batch) > Calls
    /\ sweep.waited < Waits
    /\ quota' = Tail(quota)
    /\ sweep' = [sweep EXCEPT !.waited = @ + 1]
    /\ UNCHANGED happened

-----------------------------------------------------------------------------
(* The collection.                                                          *)

\* What the hours brought (a choice made when the collection begins), and the secret.
BeginSweep ==
    /\ sweep.step = "begin"
    /\ happened' \in SUBSET Cell
    /\ UNCHANGED quota
    /\ \/ sweep' = [sweep EXCEPT !.step = "catalogue"]
       \/ sweep' = [sweep EXCEPT !.step = "ended"]

AskFor(listed, whole) ==
    sweep' = [sweep EXCEPT !.step = IF listed = {} THEN "ended" ELSE "quota",
                           !.listed = listed, !.left = listed, !.whole = whole]

\* mapCoinalyzeFutureMarkets: a row that cannot be read, or that says two things of one
\* contract, is left out and the catalogue is not whole.
CatalogueAnswers == {<<Eligible, TRUE>>} \cup ((SUBSET Eligible) \X {FALSE})

ReadCatalogue ==
    /\ sweep.step = "catalogue"
    /\ UNCHANGED happened
    /\ quota' = Append(quota, 1)
    /\ \E answer \in CatalogueAnswers : AskFor(answer[1], answer[2])

\* The rows of a batch are in, or given up: the next batch, or the end.
NextBatch(left, rows, valid) ==
    sweep' = [sweep EXCEPT !.step = IF left = {} THEN "ended" ELSE "quota",
                           !.left = left,
                           !.retried = FALSE,
                           !.rows = @ \cup rows,
                           !.valid = @ /\ valid]

\* mapCoinalyzeLiquidationHistory, normalizeHistory: contracts that are missing from
\* the answer, that come twice or with a row that cannot be read lose what they had.
BatchAnswered ==
    /\ sweep.step = "sent"
    /\ UNCHANGED <<happened, quota>>
    /\ \E intact \in SUBSET Batch :
          NextBatch(sweep.left \ Batch, happened \cap (intact \X Hours), intact = Batch)

\* An error that is the batch's alone: the others are still asked for.
BatchFailed ==
    /\ sweep.step = "sent"
    /\ UNCHANGED <<happened, quota>>
    /\ NextBatch(sweep.left \ Batch, {}, FALSE)

\* The provider asks for a pause, once, and the request is sent again.
RetryAfter ==
    /\ sweep.step = "sent" /\ ~sweep.retried /\ sweep.waited < Waits
    /\ sweep' = [sweep EXCEPT !.step = "quota", !.retried = TRUE, !.waited = @ + 1]
    /\ UNCHANGED <<happened, quota>>

\* Rate limited or unauthorized: nothing more is asked for.
SweepHalted ==
    /\ \/ sweep.step = "sent"
       \/ /\ sweep.step = "quota" /\ sweep.waited = Waits
          /\ Used + Cardinality(Batch) > Calls
    /\ UNCHANGED <<happened, quota>>
    /\ NextBatch({}, {}, FALSE)

LiquidationNext ==
    \/ ChargeExpires \/ AcquireQuota \/ WaitForQuota
    \/ BeginSweep \/ ReadCatalogue
    \/ BatchAnswered \/ BatchFailed \/ RetryAfter \/ SweepHalted

LiquidationSpec == LiquidationInit /\ [][LiquidationNext]_liquidationVars

-----------------------------------------------------------------------------
(* The bundle.                                                              *)

\* A variant of ZerosProven that does not ask whether the answers were valid.
ZerosProvenByCatalogue == sweep.whole

\* A missing hour is a zero when the catalogue is whole and every answer valid.
ZerosProven == sweep.whole /\ sweep.valid

\* fillProvenSparseHistory
ImpliedZeros ==
    IF ZerosProven THEN (sweep.listed \X Hours) \ sweep.rows ELSE {}

\* hasExpectedHistory, for every contract selected.
FullHistory == sweep.listed \X Hours \subseteq sweep.rows \cup ImpliedZeros

HistoryProven == sweep.valid /\ FullHistory

SweepStatus ==
    IF sweep.listed = {} THEN "failed"
    ELSE IF sweep.whole /\ HistoryProven THEN "complete"
    ELSE "incomplete"

\* An hour the bundle calls a zero of the provider was one, and a bundle that is
\* complete shows every liquidation of every eligible contract - whichever contracts
\* were lost on the way, and however the quota cut the batches short
\* (fillProvenSparseHistory, collectLiquidationEvidence).
ZerosAreTrue ==
    sweep.step = "ended" =>
        /\ ImpliedZeros \cap happened = {}
        /\ (SweepStatus = "complete" => happened = sweep.rows)
===============================================================================
