--------------------------- MODULE PreparedReview ----------------------------
(***************************************************************************)
(* The plan of the day: how a run prepares it (createDailyPrepareBoundary), *)
(* what it may become (createPreparedDailyPlanVersion), and how an operator *)
(* approves exactly it (runDailyCommand, createPreparedPlanApproval).       *)
(*                                                                          *)
(* A run goes through its stages while the account is traded, its keys are  *)
(* replaced and time passes; what it has read of the target symbol is old   *)
(* when the plan is made.  Market, liquidation and planning come down to    *)
(* how they end; a plan stands for its content hash.  Two clocks: the       *)
(* exchange's (exchangeTime), which dates the evaluation, and the           *)
(* machine's, which may be off by Skew and dates the approval.              *)
(***************************************************************************)
EXTENDS Naturals

CONSTANTS
    Preparations,   \* runs that prepare a plan
    Consents,       \* approve commands
    Holders,        \* the accounts whose keys the keychain may hold
    Skew,           \* how far the machine's clock may be from the exchange's
    LastSecond      \* bound of the time

ASSUME ReviewTimes == Skew \in Nat /\ LastSecond \in Nat /\ Skew <= LastSecond

Recommendations == {"ADD_LONG", "HOLD", "REDUCE"}

\* The reads of a collection that show the target: each pass asks for the positions and
\* then for the open orders, and the cutoff is taken between the passes.
TargetReads == <<"A.position", "A.orders", "cutoff", "B.position", "B.orders">>
Seen == [position : {"unread", "flat", "held", "unclear"},
         orders : {"unread", "none", "active", "unclear"}]
Unseen == [position |-> "unread", orders |-> "unread"]

PlanStates == {"BLOCKED", "REVIEW", "READY_FOR_APPROVAL"}

VARIABLES
    targeted,       \* of each account: its position and its order in the target symbol
    storedKeys,     \* the account whose keys are stored
    exchangeTime,   \* the exchange's time
    preparation,    \* what each run is doing
    plans,          \* the prepared plans stored
    reports,        \* the runs whose shadow report is stored
    consent,        \* what each approve command is doing
    approvals,      \* the approvals stored
    granted         \* history: <<command, plan>> an operator typed yes to

reviewVars == <<targeted, storedKeys, exchangeTime, preparation, plans, reports, consent,
                approvals, granted>>

\* What a run or a command does not change.
worldVars == <<targeted, storedKeys, exchangeTime>>

Unprepared == [at |-> "new", recommendation |-> "HOLD", keys |-> {}, reads |-> 0,
               A |-> Unseen, B |-> Unseen, complete |-> TRUE, lasting |-> {},
               shadow |-> FALSE]
Unasked == [at |-> "new", plan |-> {}, note |-> "none"]

ReviewInit ==
    /\ targeted = [a \in Holders |-> {}]
    /\ storedKeys \in Holders
    /\ exchangeTime = Skew
    /\ preparation = [p \in Preparations |-> Unprepared]
    /\ plans = {}
    /\ reports = {}
    /\ consent = [c \in Consents |-> Unasked]
    /\ approvals = {}
    /\ granted = {}

----------------------------------------------------------------------------
(* The world *)

\* An order is placed, cancelled or filled; a position is closed.  Of what was there at the
\* cutoff of a collection, only what is never gone until its end is lasting.
Trade(a, now) ==
    /\ targeted' = [targeted EXCEPT ![a] = now]
    /\ preparation' =
           [p \in Preparations |->
               IF preparation[p].at = "account" /\ preparation[p].keys = {a}
               THEN [preparation[p] EXCEPT !.lasting = @ \cap now]
               ELSE preparation[p]]
    /\ UNCHANGED <<storedKeys, exchangeTime, plans, reports, consent, approvals, granted>>

TargetTraded ==
    \E a \in Holders :
        \/ "order" \notin targeted[a] /\ Trade(a, targeted[a] \cup {"order"})
        \/ "order" \in targeted[a] /\ Trade(a, targeted[a] \ {"order"})
        \/ "order" \in targeted[a] /\ Trade(a, (targeted[a] \ {"order"}) \cup {"position"})
        \/ "position" \in targeted[a] /\ Trade(a, targeted[a] \ {"position"})

KeysReplaced ==
    /\ storedKeys' \in Holders \ {storedKeys}
    /\ UNCHANGED <<targeted, exchangeTime, preparation, plans, reports, consent, approvals,
                   granted>>

SecondPasses ==
    /\ exchangeTime < LastSecond
    /\ exchangeTime' = exchangeTime + 1
    /\ UNCHANGED <<targeted, storedKeys, preparation, plans, reports, consent, approvals,
                   granted>>

LocalClock == (exchangeTime - Skew) .. (exchangeTime + Skew)

----------------------------------------------------------------------------
(* A run *)

InStage(p, stage) == preparation[p].at = stage

\* A run gets on, and leaves the stores alone.
Proceed(p, run) ==
    /\ preparation' = [preparation EXCEPT ![p] = run]
    /\ UNCHANGED <<worldVars, plans, reports, consent, approvals, granted>>

\* The input names one of the configured plans.
BeginPreparation(p) ==
    /\ InStage(p, "new")
    /\ Proceed(p, [preparation[p] EXCEPT !.at = "market"])

\* The market evidence is complete and of this run.
CollectMarket(p) ==
    /\ InStage(p, "market")
    /\ Proceed(p, [preparation[p] EXCEPT !.at = "liquidation"])

\* The liquidation evidence is of the asset of the symbol.
CollectLiquidation(p) ==
    /\ InStage(p, "liquidation")
    /\ Proceed(p, [preparation[p] EXCEPT !.at = "analytics"])

\* From here on there may be a shadow report, whatever becomes of the plan.
Analyse(p) ==
    /\ InStage(p, "analytics")
    /\ \E recorded \in BOOLEAN :
          Proceed(p, [preparation[p] EXCEPT !.at = "planning", !.shadow = recorded])

\* The quality of the evidence lets a decision be made.
DecideDay(p) ==
    /\ InStage(p, "planning")
    /\ \E recommendation \in Recommendations :
          Proceed(p, [preparation[p] EXCEPT !.at = "keys",
                                            !.recommendation = recommendation])

\* The credentials are loaded once; both private readers have the same.
CaptureKeys(p) ==
    /\ InStage(p, "keys")
    /\ Proceed(p, [preparation[p] EXCEPT !.at = "account", !.keys = {storedKeys}])

\* What a read of the target may show: a row whose size or status is not understood shows
\* that there is something and not what; a read that fails shows nothing.
PositionShown(a) ==
    IF "position" \in targeted[a] THEN {"held", "unclear"} ELSE {"flat"}
OrdersShown(a) ==
    IF "order" \in targeted[a] THEN {"active", "unclear"} ELSE {"none"}

\* One read of the collection; a read that fails, or another partition that does, leaves
\* the collection incomplete.
ReadPass(p) ==
    LET run == preparation[p]
        next == TargetReads[run.reads + 1]
        read == [run EXCEPT !.reads = @ + 1]
    IN  /\ InStage(p, "account")
        /\ run.reads < 5
        /\ \E a \in run.keys :
              \/ /\ next = "A.position"
                 /\ \E row \in PositionShown(a) : Proceed(p, [read EXCEPT !.A.position = row])
              \/ /\ next = "A.orders"
                 /\ \E row \in OrdersShown(a) : Proceed(p, [read EXCEPT !.A.orders = row])
              \/ /\ next = "cutoff"
                 /\ Proceed(p, [read EXCEPT !.lasting = targeted[a]])
              \/ /\ next = "B.position"
                 /\ \E row \in PositionShown(a) : Proceed(p, [read EXCEPT !.B.position = row])
              \/ /\ next = "B.orders"
                 /\ \E row \in OrdersShown(a) : Proceed(p, [read EXCEPT !.B.orders = row])
              \/ Proceed(p, [read EXCEPT !.complete = FALSE])

\* The bundle is of this environment and this run.
EndAccount(p) ==
    /\ InStage(p, "account")
    /\ preparation[p].reads = 5
    /\ Proceed(p, [preparation[p] EXCEPT !.at = "risk"])

\* Variant: what pass B shows is taken for all there is.
PassBIsAll(run) == TRUE

\* The collection is complete, its passes agree, and pass B traversed the positions and the
\* orders.
RelevantCoverageComplete(run) ==
    /\ run.complete
    /\ run.A = run.B
    /\ run.B.position # "unread" /\ run.B.orders # "unread"

\* An addition is for a target that is known to be free.
TargetGate(run) ==
    IF run.recommendation # "ADD_LONG" THEN "not-applicable"
    ELSE IF run.B.position = "held" \/ run.B.orders = "active" THEN "conflict"
    ELSE IF \/ ~RelevantCoverageComplete(run)
            \/ run.B.position = "unclear" \/ run.B.orders = "unclear"
         THEN "unknown"
         ELSE "clean"

PlanState(run, verdict, needsReview) ==
    IF verdict = "BLOCK" \/ TargetGate(run) \in {"conflict", "unknown"} THEN "BLOCKED"
    ELSE IF needsReview THEN "REVIEW"
    ELSE "READY_FOR_APPROVAL"

\* What the risk boundary answers, once it has admitted the plan and the account and found
\* that account again under the same credentials; anything else ends the run.
RiskVerdicts == {"PASS", "BLOCK"}

\* The preflight is evaluated at the exchange's time, and the plan is stored; closing the
\* store may fail after that.
PrepareAndSave(p) ==
    LET run == preparation[p]
    IN  /\ InStage(p, "risk")
        /\ \E verdict \in RiskVerdicts, needsReview \in BOOLEAN :
              plans' = plans \cup
                  {[run |-> p, account |-> run.keys, recommendation |-> run.recommendation,
                    state |-> PlanState(run, verdict, needsReview),
                    evaluation |-> exchangeTime, lasting |-> run.lasting]}
        /\ preparation' = [preparation EXCEPT ![p].at = "saved"]
        /\ UNCHANGED <<worldVars, reports, consent, approvals, granted>>

\* The run ends, prepared or not: a recorded shadow report is tried once, and whether that
\* works changes nothing.  A run that dies tries none.
EndPreparation(p) ==
    /\ preparation[p].at \notin {"new", "ended"}
    /\ \/ preparation[p].shadow /\ reports' = reports \cup {p}
       \/ UNCHANGED reports
    /\ preparation' = [preparation EXCEPT ![p] = [Unprepared EXCEPT !.at = "ended"]]
    /\ UNCHANGED <<worldVars, plans, consent, approvals, granted>>

----------------------------------------------------------------------------
(* An approve command *)

Step(c, command) ==
    /\ consent' = [consent EXCEPT ![c] = command]
    /\ UNCHANGED <<worldVars, preparation, plans, reports, approvals>>

\* The plan is asked for by its hash and shown, with a note on the command line or without;
\* a blocked one is not approved.
LoadPrepared(c) ==
    /\ consent[c].at = "new"
    /\ \E plan \in plans, note \in {"none", "blank", "text"} :
          /\ plan.state # "BLOCKED"
          /\ Step(c, [at |-> "shown", plan |-> {plan}, note |-> note])
    /\ UNCHANGED granted

NoteRequired(plan) == plan.state = "REVIEW"

\* A note is asked for where there has to be one; without it the command ends.
AskNote(c) ==
    /\ consent[c].at = "shown"
    /\ \E plan \in consent[c].plan :
          IF NoteRequired(plan) /\ consent[c].note # "text"
          THEN Step(c, [consent[c] EXCEPT !.at = "noted", !.note = "text"])
          ELSE Step(c, [consent[c] EXCEPT !.at = "noted"])
    /\ UNCHANGED granted

\* The operator types yes to exactly this hash.
TypeYes(c) ==
    /\ consent[c].at = "noted"
    /\ Step(c, [consent[c] EXCEPT !.at = "granted"])
    /\ granted' = granted \cup {<<c, plan>> : plan \in consent[c].plan}

\* The approval is dated by the machine's clock, refused when that is before the evaluation,
\* and stored when the plan it names is stored.
SaveConsent(c) ==
    /\ consent[c].at = "granted"
    /\ \E plan \in consent[c].plan, approvedAt \in LocalClock :
          /\ plan.state # "BLOCKED"
          /\ approvedAt >= plan.evaluation
          /\ NoteRequired(plan) => (consent[c].note = "text")
          /\ plan \in plans
          /\ approvals' = approvals \cup
                 {[by |-> c, plan |-> plan, approvedAt |-> approvedAt,
                   note |-> IF consent[c].note = "text" THEN "text" ELSE "none"]}
    /\ consent' = [consent EXCEPT ![c] = [Unasked EXCEPT !.at = "ended"]]
    /\ UNCHANGED <<worldVars, preparation, plans, reports, granted>>

\* A refusal, another answer, no terminal, no actor, an error, or the process ends.
EndConsent(c) ==
    /\ consent[c].at # "ended"
    /\ Step(c, [Unasked EXCEPT !.at = "ended"])
    /\ UNCHANGED granted

ReviewNext ==
    \/ TargetTraded \/ KeysReplaced \/ SecondPasses
    \/ \E p \in Preparations :
          \/ BeginPreparation(p) \/ CollectMarket(p) \/ CollectLiquidation(p)
          \/ Analyse(p) \/ DecideDay(p) \/ CaptureKeys(p) \/ ReadPass(p)
          \/ EndAccount(p) \/ PrepareAndSave(p) \/ EndPreparation(p)
    \/ \E c \in Consents :
          \/ LoadPrepared(c) \/ AskNote(c) \/ TypeYes(c) \/ SaveConsent(c) \/ EndConsent(c)

ReviewSpec == ReviewInit /\ [][ReviewNext]_reviewVars

\* Types of what a run, a command and the store hold.
ReviewTypeOK ==
    /\ targeted \in [Holders -> SUBSET {"position", "order"}]
    /\ storedKeys \in Holders
    /\ exchangeTime \in Skew .. LastSecond
    /\ \A p \in Preparations :
          /\ preparation[p].A \in Seen /\ preparation[p].B \in Seen
          /\ preparation[p].keys \subseteq Holders
    /\ reports \subseteq Preparations
    /\ \A plan \in plans : plan.state \in PlanStates

----------------------------------------------------------------------------
(* Properties *)

\* A stored approval is exactly one consent: to a stored plan that is not blocked, that its
\* operator typed yes to, with a note where review was asked for, and not before the
\* exchange's time of the evaluation; and a consent to add is to a target of which nothing
\* that was there at the cutoff, and still there when the reading ended, was missed
\* (createPreparedPlanApproval, targetGate).
ConsentIsExact ==
    \A approval \in approvals :
        LET plan == approval.plan
        IN  /\ plan \in plans /\ plan.state # "BLOCKED"
            /\ <<approval.by, plan>> \in granted
            /\ (plan.state = "REVIEW") => (approval.note = "text")
            /\ plan.evaluation <= approval.approvedAt
            /\ (plan.recommendation = "ADD_LONG") => (plan.lasting = {})

=============================================================================
