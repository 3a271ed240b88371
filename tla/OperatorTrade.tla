--------------------------- MODULE OperatorTrade ----------------------------
(***************************************************************************)
(* Operator trades on Mainnet over one OperatorStore and one account:      *)
(* application/mainnet-operator-trade.ts (a typed command, from receipt to *)
(* execution), mainnet-operator-test.ts and -composition.ts (one admission *)
(* and one POST), mainnet-operator-test-status.ts (GET-only status) and    *)
(* the person who attests, declares and grants.                            *)
(*                                                                         *)
(* A process runs one plan.  The id of a command is drawn when it starts,  *)
(* so a command has one process; an approved plan can be executed twice.   *)
(* One action is one store transaction with the synchronous code around    *)
(* it, or one await of the exchange.  Processes share no lease and no      *)
(* lock.  Nothing makes a process go on: one that never acts again has     *)
(* crashed, or was refused and returned.                                   *)
(***************************************************************************)
EXTENDS OperatorStore

CONSTANTS
    Procs,      \* processes, each with a run id of its own
    PlanOf,     \* the plan a process executes
    Sessions,   \* the sets of writers that are active together
    Levered,    \* the symbols whose leverage is 1x to begin with
    Asked       \* the sources the operator keeps asking about

ASSUME TradeAssumption ==
    /\ PlanOf \in [Procs -> Plans]
    /\ Runs = Procs
    /\ \A c \in Commands : Cardinality({q \in Procs : PlanOf[q] = c}) <= 1
    /\ Sessions \subseteq SUBSET (Procs \cup {Foreign})
    /\ Levered \subseteq Symbols
    /\ Asked \subseteq Plans

VARIABLES
    run,      \* where each process is, and what it remembers
    status,   \* the operator's status run
    venue,    \* what became of each plan's order at the exchange
    levered,  \* the symbols whose leverage at the exchange is 1x
    session,  \* the writers that are active
    mistaken  \* the plans recorded rejected whose order the exchange had taken

vars == <<storeVars, run, status, venue, levered, session, mistaken>>

-----------------------------------------------------------------------------
\* The step a process is at, the grant it found, the orders the exchange had
\* answered when the process read its balance, and the plans whose target state
\* was read before its own.
Run == [pc : {"idle", "state", "leverage", "balance", "prepare", "admit",
              "collect", "intend", "post", "answer", "record", "done"},
        grant : Grant \cup {None},
        counted : SUBSET Plans,
        known : SUBSET Plans,
        answer : Attempt \cup {"misnamed"}]

\* A status run: its source, what it concludes if the reads do not show the order,
\* which is settled by the snapshot it began with, and the verdict it reached.
Look == [pc : {"idle", "look", "append", "raise"},
         of : Plans \cup {None},
         unseen : Verdict,
         verdict : Verdict]

\* An order: not sent, on its way, refused, live (resting, or filled with its
\* take-profit open), over by itself (cancelled without a fill, or closed by its
\* take-profit), closed by hand; or sent a second time.
Venue == {"absent", "inflight", "refused", "live", "over", "hand", "twice"}

\* It may still add to the account, or has.
ExposedIn == {"inflight", "live", "twice"}

\* It is in the exchange's books and over.
OverIn == {"over", "hand"}

Begun(step) == 
    [pc |-> step, grant |-> None, counted |-> {}, known |-> {}, answer |-> "none"]

NotLooking == [pc |-> "idle", of |-> None, unseen |-> "none", verdict |-> "none"]

TradeTypeOK ==
    /\ StoreTypeOK
    /\ run \in [Procs -> Run]
    /\ status \in Look
    /\ venue \in [Plans -> Venue]
    /\ levered \subseteq Symbols
    /\ session \in Sessions
    /\ mistaken \subseteq Plans

Init ==
    /\ StoreInit
    /\ session \in Sessions
    /\ run = [q \in Procs |-> Begun(IF q \in session THEN "idle" ELSE "done")]
    /\ status = NotLooking
    /\ venue = [p \in Plans |-> "absent"]
    /\ levered = Levered
    /\ mistaken = {}

At(q, step) == run[q].pc = step

Go(q, memory, step) ==
    run' = [run EXCEPT ![q] = IF step = "done" THEN Begun("done")
                              ELSE [memory EXCEPT !.pc = step]]

Goto(q, step) == Go(q, run[q], step)

Typed(q) == PlanOf[q] \in Commands

Elsewhere == <<status, venue, levered, session, mistaken>>

\* The exchange shows no position and no open order in a symbol.
FlatAndOrderless(symbol) ==
    \A p \in Plans : SymbolOf[p] = symbol => venue[p] # "live"

\* The orders the exchange has answered, so that a balance it shows has room
\* taken off for them.
Answered == {p \in Plans : venue[p] \notin {"absent", "inflight"}}

\* The plans whose target state has been read: their process goes by it, or their
\* source was created with its time.
Evidenced ==
    {p \in Plans : Exists(p)}
        \cup {PlanOf[r] : r \in {s \in Procs : run[s].pc \in
                {"admit", "collect", "intend", "post", "answer", "record"}}}

\* readState: the time the exchange gives the target state is the time of the
\* whole evidence.  It is later than that of every plan that has its evidence,
\* until such a plan, still without a source, reads again.
ReadEvidence(q, memory, step) ==
    run' = [r \in Procs |->
              IF r = q THEN [memory EXCEPT !.pc = step,
                                           !.known = Evidenced \ {PlanOf[q]}]
              ELSE IF Exists(PlanOf[q]) THEN run[r]
              ELSE [run[r] EXCEPT !.known = @ \ {PlanOf[q]}]]

\* A command that is refused before it has an intent records it.  A refusal that
\* is not recorded, and that of an approved plan, is a process that stops.
Refuse(q) ==
    /\ Typed(q)
    /\ AppendOutcome(PlanOf[q], "refused")
    /\ Goto(q, "done")
    /\ UNCHANGED Elsewhere

-----------------------------------------------------------------------------
\* runMainnetOperatorTrade: receipt, leverage, preparation.

SaveReceipt(q) ==
    /\ At(q, "idle") /\ Typed(q)
    /\ PersistReceipt(PlanOf[q])
    /\ Goto(q, "state")
    /\ UNCHANGED Elsewhere

\* The symbol has to be flat and orderless.  At 1x that is recorded and the run
\* goes on; otherwise the change is recorded before it is sent.
ReadTargetState(q) ==
    /\ At(q, "state")
    /\ \/ /\ FlatAndOrderless(SymbolOf[PlanOf[q]])
          /\ \/ /\ SymbolOf[PlanOf[q]] \in levered
                /\ AppendOutcome(PlanOf[q], "already")
                /\ Goto(q, "balance")
             \/ /\ SymbolOf[PlanOf[q]] \notin levered
                /\ AppendOutcome(PlanOf[q], "attempted")
                /\ Goto(q, "leverage")
          /\ UNCHANGED Elsewhere
       \/ Refuse(q)

\* setLeverage is sent once and read back; only a proof of both lets the run go
\* on, and only if the symbol is still flat and orderless.
SetLeverage(q) ==
    /\ At(q, "leverage")
    /\ \/ /\ FlatAndOrderless(SymbolOf[PlanOf[q]])
          /\ levered' = levered \cup {SymbolOf[PlanOf[q]]}
          /\ AppendOutcome(PlanOf[q], "verified")
          /\ Goto(q, "balance")
          /\ UNCHANGED <<status, venue, session, mistaken>>
       \/ Refuse(q)

\* prepareMainnetOperatorTest: identity, instrument, quote, then the balance the
\* capacity is computed from.
ReadBalance(q) ==
    /\ At(q, "balance")
    /\ \/ /\ Go(q, [run[q] EXCEPT !.counted = Answered], "prepare")
          /\ UNCHANGED <<storeVars, Elsewhere>>
       \/ Refuse(q)

\* Fee and target state follow.  The evidence is handed on to the execution, and
\* the command is bound to the plan and payload derived from it.
Prepare(q) ==
    /\ At(q, "prepare")
    /\ \/ /\ FlatAndOrderless(SymbolOf[PlanOf[q]])
          /\ Bind(PlanOf[q])
          /\ ReadEvidence(q, run[q], "admit")
          /\ UNCHANGED Elsewhere
       \/ Refuse(q)

-----------------------------------------------------------------------------
\* executeMainnetOperatorTest.

\* Everything up to the first await, for a command: no source of its own, its
\* authority not used, HALT down, no other source pending in its symbol.
AdmitCommand(q) ==
    /\ Typed(q) /\ At(q, "admit")
    /\ ~Exists(PlanOf[q]) /\ OutcomesPermit(PlanOf[q]) /\ ~Halted
    /\ \A p \in PendingSources : SymbolOf[p] # SymbolOf[PlanOf[q]]
    /\ Goto(q, "collect")

\* The same for an approved plan: any pending source has to be the one its grant
\* was given for, and a plan issued for an attestation needs its grant.
AdmitApproval(q) ==
    /\ ~Typed(q) /\ At(q, "idle")
    /\ ~Exists(PlanOf[q]) /\ ~Halted
    /\ \E grant \in Findable(PlanOf[q]) \cup {None} :
          /\ grant = None => Findable(PlanOf[q]) = {}
          /\ PlanOf[q] \in Manual => grant # None /\ grant.manual
          /\ PendingSources # {} =>
                grant # None /\ grant.source \in PendingSources
          /\ Go(q, [run[q] EXCEPT !.grant = grant], "collect")

Admit(q) ==
    \/ /\ AdmitCommand(q) \/ AdmitApproval(q)
       /\ UNCHANGED <<storeVars, Elsewhere>>
    \/ At(q, "admit") /\ Refuse(q)

\* The admission evidence.  A command goes by what its preparation handed on and
\* reads again only what has become too old: the balance before the target state.
Collect(q) ==
    /\ At(q, "collect")
    /\ \/ /\ \/ /\ FlatAndOrderless(SymbolOf[PlanOf[q]])
                /\ ReadEvidence(q, [run[q] EXCEPT !.counted = Answered], "intend")
             \/ Typed(q) /\ Go(q, [run[q] EXCEPT !.counted = Answered], "intend")
             \/ Typed(q) /\ Goto(q, "intend")
          /\ UNCHANGED <<storeVars, Elsewhere>>
       \/ Refuse(q)

\* prepareCreateIntent; the store refuses whatever changed since the admission.
Intend(q) ==
    /\ At(q, "intend")
    /\ \/ /\ \/ /\ Typed(q)
                /\ PrepareTradeCommandCreate(PlanOf[q], q, run[q].known)
             \/ /\ ~Typed(q)
                /\ PrepareCreate(PlanOf[q], q, run[q].grant)
          /\ Goto(q, "post")
          /\ UNCHANGED Elsewhere
       \/ Refuse(q)

\* The recheck behind the intent and sourceIsCurrent, the last look at the
\* journal before the POST leaves.  A source whose recheck fails keeps its
\* intent and gets no attempt.
SourceIsCurrent(q) ==
    /\ ~Halted
    /\ Exists(PlanOf[q])
    /\ source[PlanOf[q]].run = q
    /\ source[PlanOf[q]].attempt = "none"

\* createOrder: the one POST, or a failure before it that throws and so counts as
\* an ambiguous answer.
Post(q) ==
    /\ At(q, "post")
    /\ \/ /\ SourceIsCurrent(q)
          /\ venue' = [venue EXCEPT ![PlanOf[q]] =
                          IF @ = "absent" THEN "inflight" ELSE "twice"]
          /\ Goto(q, "answer")
       \/ /\ Go(q, [run[q] EXCEPT !.answer = "ambiguous"], "record")
          /\ UNCHANGED venue
    /\ UNCHANGED <<storeVars, status, levered, session, mistaken>>

\* What createOrder comes back with: the refusal of an order refused, of which
\* classifyRetCode tells the codes that do not say, or, of one the exchange took,
\* its acknowledgement or one that names another orderLinkId; or an answer that
\* is lost.
Answers(p) ==
    {"ambiguous"}
        \cup (IF venue[p] = "refused" THEN {"rejected"} ELSE {})
        \cup (IF venue[p] \in {"live"} \cup OverIn THEN {"accepted", "misnamed"}
              ELSE {})

Answer(q) ==
    /\ At(q, "answer")
    /\ \E answer \in Answers(PlanOf[q]) :
          Go(q, [run[q] EXCEPT !.answer = answer], "record")
    /\ UNCHANGED <<storeVars, Elsewhere>>

\* classifyAttempt: a precondition error is a known rejection, and so is, made one
\* by mapOrderAcknowledgement, an acknowledgement that names another orderLinkId:
\* the ambiguous outcome classifyAttempt has for such a name is never reached.
Classified(answer) == IF answer = "misnamed" THEN "rejected" ELSE answer

\* recordAttempt, and a HALT of its own when the attempt cannot be recorded.
Record(q) ==
    /\ At(q, "record")
    /\ \/ /\ RecordAttempt(PlanOf[q], q, Classified(run[q].answer))
          /\ mistaken' = mistaken \cup
                           {p \in {PlanOf[q]} : run[q].answer = "misnamed"}
       \/ RaiseSourceHalt(PlanOf[q]) /\ UNCHANGED mistaken
    /\ Goto(q, "done")
    /\ UNCHANGED <<status, venue, levered, session>>

-----------------------------------------------------------------------------
\* The exchange and the hand of the operator at its screen.

Becomes(p, from, to) == /\ venue[p] = from
                        /\ venue' = [venue EXCEPT ![p] = to]

Trade(p) ==
    /\ \/ Becomes(p, "inflight", "live")
       \/ Becomes(p, "inflight", "refused")
       \/ Becomes(p, "live", "over")
       \/ Becomes(p, "live", "hand")
    /\ UNCHANGED <<storeVars, run, status, levered, session, mistaken>>

-----------------------------------------------------------------------------
\* runMainnetOperatorTestStatus: snapshot, observation, row, HALT.

Quiet == UNCHANGED <<run, venue, levered, session, mistaken>>

\* The status run of a source at a step.
Asks(p, step) == status.of = p /\ status.pc = step

\* Variant: an intent without an attempt counts as never sent.
VerdictUnsentIsClean(p) ==
    CASE source[p].attempt \in {"none", "rejected"} -> "clean"
      [] source[p].attempt = "accepted" /\ p \in Commands -> "pending"
      [] OTHER -> "unknown"

\* classify, for an order the exchange does not show: a rejected attempt is over,
\* an accepted command waits, all else is unknown.
VerdictUnseen(p) ==
    CASE source[p].attempt = "rejected" -> "clean"
      [] source[p].attempt = "accepted" /\ p \in Commands -> "pending"
      [] OTHER -> "unknown"

\* The operator who closed a position by hand may say so with the status call.  A
\* status run that died is begun anew.
BeginStatus(p) ==
    /\ Exists(p)
    /\ \E declare \in {FALSE, venue[p] = "hand"} :
          IF declare THEN AppendManualAction(p) ELSE UNCHANGED storeVars
    /\ status' = [pc |-> "look", of |-> p, unseen |-> VerdictUnseen(p),
                   verdict |-> "none"]
    /\ Quiet

\* Variant: what the operator declared is not taken into account.
VerdictUndeclared(p) ==
    CASE venue[p] = "live" -> "pending"
      [] venue[p] = "over" -> "clean"
      [] OTHER -> "unknown"

\* classify, for an order the exchange shows.
VerdictOf(p) ==
    CASE venue[p] = "live" -> "pending"
      [] venue[p] = "over" -> "clean"
      [] venue[p] = "hand" /\ source[p].declared -> "clean"
      [] OTHER -> "unknown"

Saw(p, verdict) == /\ Asks(p, "look")
                   /\ status' = [status EXCEPT !.pc = "append",
                                               !.verdict = verdict]
                   /\ UNCHANGED storeVars
                   /\ Quiet

\* The order is in the exchange's books and the reads show it.
SeeOrder(p) ==
    venue[p] \in {"live", "twice"} \cup OverIn /\ Saw(p, VerdictOf(p))

\* The order is not in the books, or not in them yet as far as the reads show.
SeeNothing(p) == Saw(p, status.unseen)

\* A read fails, or the facts contradict each other.
SeeDoubt(p) == Saw(p, "unknown")

AppendVerdict(p) ==
    /\ Asks(p, "append")
    /\ AppendReconciliation(p, status.verdict)
    /\ status' = IF status.verdict = "unknown"
                 THEN [status EXCEPT !.pc = "raise"] ELSE NotLooking
    /\ Quiet

\* HALT goes up with an unknown verdict unless it is up.
RaiseForStatus(p) ==
    /\ Asks(p, "raise")
    /\ \/ Halted /\ UNCHANGED storeVars
       \/ ~Halted /\ RaiseSourceHalt(p)
    /\ status' = NotLooking
    /\ Quiet

-----------------------------------------------------------------------------
\* Recovery.  The person attests what the screen shows: the source's order is
\* over, and no order or position is open in the account.  The plan is issued
\* afterwards.

Attest(p, s) ==
    /\ \A q \in Procs : PlanOf[q] = p => At(q, "idle")
    /\ venue[s] \in OverIn
    /\ \A q \in Plans : venue[q] # "live"
    /\ PersistAttestation(p, s)
    /\ UNCHANGED <<run, Elsewhere>>

GrantRecovery(p, s) ==
    /\ \E manual \in BOOLEAN : CreateRecoveryGrant(p, s, manual)
    /\ UNCHANGED <<run, Elsewhere>>

OtherHalt == /\ Foreign \in session
             /\ RaiseForeignHalt
             /\ UNCHANGED <<run, Elsewhere>>

-----------------------------------------------------------------------------

CommandStep(q) ==
    \/ SaveReceipt(q) \/ ReadTargetState(q) \/ SetLeverage(q)
    \/ ReadBalance(q) \/ Prepare(q)

ExecuteStep(q) ==
    \/ Admit(q) \/ Collect(q) \/ Intend(q)
    \/ Post(q) \/ Answer(q) \/ Record(q)

StatusStep(p) ==
    \/ BeginStatus(p) \/ SeeOrder(p) \/ SeeNothing(p) \/ SeeDoubt(p)
    \/ AppendVerdict(p) \/ RaiseForStatus(p)

RecoveryStep ==
    \/ \E p \in Manual, s \in Plans : Attest(p, s)
    \/ \E p \in Plans \ Commands, s \in Plans : GrantRecovery(p, s)

Next ==
    \/ \E q \in Procs : CommandStep(q) \/ ExecuteStep(q)
    \/ \E p \in Plans : Trade(p) \/ StatusStep(p)
    \/ RecoveryStep
    \/ OtherHalt

\* The code schedules no status run: the operator has to ask.  Of the sources in
\* Asked the operator asks again and again, at last says what was closed by hand,
\* is not always answered by a failed read, and does not always kill the status
\* run that was answered.
Fairness ==
    \A p \in Asked :
        /\ SF_vars(BeginStatus(p) /\ (venue[p] = "hand" => source'[p].declared))
        /\ SF_vars(SeeOrder(p))
        /\ SF_vars(AppendVerdict(p) /\ status.verdict = VerdictOf(p))

Spec == Init /\ [][Next]_vars /\ Fairness

-----------------------------------------------------------------------------
\* Properties.  A misnamed acknowledgement makes a rejection of an order that may
\* trade, and from then on the journal is wrong of it.  The properties that need
\* the journal to be right are stated of the understood plans.  The others need
\* no such thing: an order that was sent twice, or whose attempt is not recorded
\* or ambiguous, is not a mistaken one.

Understood == Plans \ mistaken

Exposed(p) == venue[p] \in ExposedIn

\* No order is sent twice: not by a second execution of the same approved plan,
\* not after a crash, whatever the first POST came to
\* (mainnet-operator-test.ts:793, "the sole dispatch site").
NeverResent == \A p \in Plans : venue[p] # "twice"

\* A symbol never holds two orders or positions of the operator, although the
\* gate is looked at, left for the evidence reads and looked at again.
OneExposurePerSymbol ==
    \A p, q \in Understood : p # q /\ SymbolOf[p] = SymbolOf[q]
                            => ~(Exposed(p) /\ Exposed(q))

\* At no time are there two orders whose fate the journal does not know: the
\* second intent waits until the first attempt is recorded and unambiguous.
UnknownOutcome(p) == Exposed(p) /\ source[p].attempt \in {"none", "ambiguous"}

OneUnknownOutcome ==
    \A p, q \in Plans : p # q => ~(UnknownOutcome(p) /\ UnknownOutcome(q))

\* When a command's order leaves, its target state was read after that of every
\* other order that may still cost money: of two commands that were prepared side
\* by side only the one with the younger evidence may follow the other.
EvidenceInOrder ==
    \A q \in Procs : Typed(q) /\ At(q, "answer") /\ Exposed(PlanOf[q])
        => \A p \in Understood \ {PlanOf[q]} : Exposed(p) => p \in run[q].known

\* "the new account-capacity evidence is strictly newer than that attempt"
\* (docs/operator-runbook.md): when a command's order leaves, every other order
\* that may still cost money had been answered before its balance was read.
CapacityProven ==
    \A q \in Procs : Typed(q) /\ At(q, "answer") /\ Exposed(PlanOf[q])
        => \A p \in Understood \ {PlanOf[q]} :
              Exposed(p) => p \in run[q].counted

\* A source stops blocking only when its order is over or was never one, however
\* old the snapshot and the observation behind the verdict are.
ReleasedMeansOver ==
    \A p \in Understood : Exists(p) /\ p \notin PendingSources => ~Exposed(p)

\* An order of unknown fate keeps HALT up until it is over: no other source's
\* recovery, and no status run of its own, lowers it before.
DoubtHoldsHalt ==
    \A p \in Plans : Exposed(p) /\ source[p].attempt = "ambiguous" => Halted

\* An approved plan that spent a recovery grant did so after the source it
\* released was over: proof, attestation, clearance and intent are four
\* transactions with anything between them.
RecoveryAfterExposure ==
    \A p \in Plans : Exists(p) /\ source[p].recovers \in Understood
        => ~Exposed(source[p].recovers)

\* An approved plan's order leaves only when no other source may be live or is
\* waiting for its reconciliation (docs/operator-runbook.md, account-wide gate).
ApprovalStandsAlone ==
    \A q \in Procs : ~Typed(q) /\ At(q, "answer") /\ Exposed(PlanOf[q])
        => \A p \in Understood \ {PlanOf[q]} : ~Exposed(p)

\* A HALT that names no operator source is never lowered by an operator's
\* recovery, also not together with one that does.
ForeignHaltStays == [][(Foreign \in raisedBy) => (Foreign \in raisedBy')]_vars

\* A source whose order is over does not block the account for ever: whatever
\* failed on the way, reading its status long enough releases it.
OverIsReleased ==
    \A p \in Asked : venue[p] \in OverIn ~> p \notin PendingSources
=============================================================================
