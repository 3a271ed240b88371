----------------------------- MODULE DemoEntry ------------------------------
(***************************************************************************)
(* Starts of the Demo entry (application/demo-entry-use-case.ts) and the   *)
(* recovery each of them runs first (application/demo-recovery.ts), over   *)
(* one ExecutionJournal and one exchange account.                          *)
(*                                                                         *)
(* A start carries one plan with one order intent, so a start is named by  *)
(* its intent.  It prepares a review, waits for the operator, and executes *)
(* the review; both halves take the lease and recover every prior lineage  *)
(* before anything else.  Several starts may be alive at once: another     *)
(* terminal, a scheduler, or a process that was suspended and replaced.    *)
(*                                                                         *)
(* One action is one store transaction or one await of the exchange, so    *)
(* every other start, the exchange and the clock may act between any two.  *)
(* A start may crash, or stall for good, between any two of its actions.   *)
(***************************************************************************)
EXTENDS ExecutionJournal

CONSTANTS
    RunOf,      \* the run id of a start: a digest of its input
    ClientOf,   \* the client order id of its plan
    OrderOf,    \* the exchange order id its order would get
    Scope,      \* the one scope the Demo entry trades in
    Beginnings  \* which starts begin with a reviewed plan and no lease, and
                \* whether the account's leverage is 1x to begin with

ASSUME StartAssumption ==
    /\ RunOf \in [Intents -> Runs]
    /\ ClientOf \in [Intents -> ClientIds]
    /\ OrderOf \in [Intents -> Orders]
    /\ Scope \in Scopes
    /\ Beginnings \subseteq [reviewed : SUBSET Intents, levered : BOOLEAN]
    /\ AttemptIds = Intents \X {"entry", "recovery"}

VARIABLES
    start,     \* where each start of the program is, and what it remembers
    venue,     \* what became of each order at the exchange
    levered,   \* whether the account's leverage at the exchange is 1x
    mistaken   \* history: the intents declared failed although the exchange had
               \* taken their order, because it answered under another order id

vars == <<journalVars, start, venue, levered, mistaken>>

-----------------------------------------------------------------------------
\* A start: the step it is at (pc), which recovery it is in (phase), its lease
\* grant, the lineages its recovery still has to reconcile (todo), the one at
\* hand (at), whether one stayed unresolved (blocked), what its last call to the
\* exchange returned (seen), the write its fence is for (write), and the
\* evidence its clearance will present (noted).

Start == [pc : {"idle", "list", "next", "bind", "prove", "record", "halted",
                "judge", "verdict", "plan", "yield", "reviewed", "check",
                "refuse", "lineage", "fence", "renew", "leverage", "intend", "order",
                "answer", "append", "rejected", "release", "done"},
          phase : {"prepare", "before", "after"},
          grant : Nat,
          todo : SUBSET Intents,
          at : Intents \cup {None},
          blocked : BOOLEAN,
          seen : {"none", "open", "partial", "filled", "closed", "dead",
                  "deadpartial", "proven", "unproven", "accepted", "rejected",
                  "misnamed"},
          write : {"leverage", "order"},
          noted : [halt : Nat, lineages : SUBSET Plans,
                   results : [Intents -> Nat]]]

\* An order at the exchange: not sent, on its way, refused, live (open, partial),
\* over without or with a part fill, filled with its take-profit open, and
\* filled with the take-profit gone too.
Venue == {"absent", "inflight", "refused", "open", "partial", "dead",
          "deadpartial", "filled", "closed"}

\* The exchange can show these for a client order id.
Visible == {"open", "partial", "dead", "deadpartial", "filled", "closed"}

\* An order that may still add exposure.
Live == {"inflight", "open", "partial"}

NothingNoted == [halt |-> 0, lineages |-> {}, results |-> [i \in Intents |-> 0]]

\* A start at a step, with nothing to remember yet or any more.
Fresh(step) ==
    [pc |-> step, phase |-> "prepare", grant |-> 0, todo |-> {}, at |-> None,
     blocked |-> FALSE, seen |-> "none", write |-> "order",
     noted |-> NothingNoted]

EntryTypeOK ==
    /\ TypeOK
    /\ start \in [Intents -> Start]
    /\ venue \in [Intents -> Venue]
    /\ levered \in BOOLEAN
    /\ mistaken \subseteq Intents

Init ==
    /\ JournalInit
    /\ \E beginning \in Beginnings :
          /\ start = [p \in Intents |-> Fresh(IF p \in beginning.reviewed
                                              THEN "reviewed" ELSE "idle")]
          /\ levered = beginning.levered
    /\ venue = [i \in Intents |-> "absent"]
    /\ mistaken = {}

At(p, step) == start[p].pc = step

\* The start moves on to a step, with a changed memory; one that is done keeps
\* none.
Go(p, memory, step) ==
    start' = [start EXCEPT ![p] = IF step = "done" THEN Fresh("done")
                                  ELSE [memory EXCEPT !.pc = step]]

Goto(p, step) == Go(p, start[p], step)

\* The start returns an outcome or an error.  Its lease, if it has one, stays
\* in the journal until it expires.
Stop(p) == /\ Goto(p, "done")
           /\ UNCHANGED journalVars

\* The authority the start works under is gone: the store refuses its write.
Fenced(p) == ~Authoritative(start[p].grant)

\* releaseLease refuses a lease that a clearance has not settled yet.
StillToReconcile == lease # None /\ lease.recon

\* The exchange, and what was mistaken of it.
Exchange == <<venue, levered, mistaken>>

-----------------------------------------------------------------------------
\* acquireAndRecover: the lease.  While another start holds it the call fails
\* with RUN_LEASE_HELD and the operator may come back later.

Acquire(p) ==
    /\ At(p, "idle") \/ At(p, "reviewed")
    /\ AcquireFreeLease(RunOf[p]) \/ TakeOverLease(RunOf[p])
    /\ Go(p, [start[p] EXCEPT !.grant = Len(grants) + 1,
                              !.phase = IF At(p, "idle") THEN "prepare"
                                        ELSE "before"],
          "list")
    /\ UNCHANGED Exchange

-----------------------------------------------------------------------------
\* recoverPriorDemoRuns: every lineage of the scope, the ones that already
\* failed excepted, is reconciled against the exchange again.

Attempts(i) == {a \in AttemptIds : attempt[a] # None /\ attempt[a].intent = i}

TheAttempt(i) == CHOOSE a \in Attempts(i) : TRUE

ListRuns(p) ==
    /\ At(p, "list")
    /\ Go(p, [start[p] EXCEPT
                !.todo = {i \in Intents :
                            /\ lineage[PlanOf[i]] # None
                            /\ ~(owned[i] # None /\ latest[i].status = "FAILED")},
                !.blocked = FALSE],
          "next")
    /\ UNCHANGED <<journalVars, Exchange>>

\* A lineage without an owned intent never reached the exchange with an order;
\* it is safe when the exchange shows the leverage at 1x.
RecoverUnintended(p, i) ==
    /\ At(p, "next")
    /\ i \in start[p].todo
    /\ owned[i] = None
    /\ \E readable \in BOOLEAN :
          Go(p, [start[p] EXCEPT !.todo = @ \ {i},
                                 !.blocked = @ \/ ~(readable /\ levered)],
             "next")
    /\ UNCHANGED <<journalVars, Exchange>>

\* An owned intent without an attempt may or may not have been sent: recovery
\* records a pending attempt of its own, under another attempt id.
RecoverMissingAttempt(p, i) ==
    /\ At(p, "next")
    /\ i \in start[p].todo
    /\ owned[i] # None
    /\ Attempts(i) = {}
    /\ \/ /\ AppendAttempt(start[p].grant, <<i, "recovery">>,
                           [intent |-> i, client |-> owned[i], order |-> None])
          /\ UNCHANGED start
       \/ Fenced(p) /\ Stop(p)
    /\ UNCHANGED Exchange

\* observeOrder by client order id: not found, unreadable or inconsistent
\* evidence is no observation.  An attempt that has no exchange order yet is
\* bound to the observed one before anything is concluded from it.
AfterBinding(seen) == IF seen \in {"filled", "closed"} THEN "prove" ELSE "record"

AfterObservation(i, seen) ==
    CASE seen = "none" -> "record"
      [] seen # "none" /\ EffectiveOrder(TheAttempt(i)) = None -> "bind"
      [] OTHER -> AfterBinding(seen)

ObserveOrder(p, i) ==
    /\ At(p, "next")
    /\ i \in start[p].todo
    /\ owned[i] # None
    /\ Attempts(i) # {}
    /\ IF \E a, b \in Attempts(i) : a # b
       THEN Goto(p, "done")     \* recovery gives up, now and on every later start
       ELSE \E seen \in {"none"} \cup ({venue[i]} \cap Visible) :
               Go(p, [start[p] EXCEPT !.at = i, !.seen = seen],
                  AfterObservation(i, seen))
    /\ UNCHANGED <<journalVars, Exchange>>

\* The exchange gives every client order id an order id of its own, so with one
\* attempt for each intent the binding never contradicts another one.
BindObserved(p) ==
    /\ At(p, "bind")
    /\ LET i == start[p].at IN
       \/ /\ BindIdentity(start[p].grant, TheAttempt(i), OrderOf[i])
          /\ Goto(p, AfterBinding(start[p].seen))
       \/ Fenced(p) /\ Stop(p)
    /\ UNCHANGED Exchange

\* A filled order: its attached protection and its fills are read and recorded
\* as facts.  The result counts as proven when both could be read, the fills add
\* up and every take-profit child is still open and untouched.  Facts of a read
\* that proves less are left out: they are only ever consulted for an intent
\* whose latest result is RECONCILED, and that takes a proof.
ProveFilled(p) ==
    /\ At(p, "prove")
    /\ LET i == start[p].at IN
       \/ /\ venue[i] = "filled"
          /\ IngestEvidence(i, OrderOf[i])
          /\ Go(p, [start[p] EXCEPT !.seen = "proven"], "record")
       \/ /\ Go(p, [start[p] EXCEPT !.seen = "unproven"], "record")
          /\ UNCHANGED journalVars
    /\ UNCHANGED Exchange

\* A variant of StatusOf that takes an order it cannot find for one that was
\* never placed.
UnseenIsFailed(seen) ==
    CASE seen \in {"none", "dead"} -> "FAILED"
      [] seen = "deadpartial" -> "PARTIAL"
      [] seen \in {"open", "partial"} -> "PENDING"
      [] seen = "proven" -> "RECONCILED"
      [] OTHER -> "UNRESOLVED"

\* What reconcileRun concludes from what it saw.
StatusOf(seen) ==
    CASE seen = "dead" -> "FAILED"
      [] seen = "deadpartial" -> "PARTIAL"
      [] seen \in {"open", "partial"} -> "PENDING"
      [] seen = "proven" -> "RECONCILED"
      [] OTHER -> "UNRESOLVED"

RecordResult(p) ==
    /\ At(p, "record")
    /\ LET i == start[p].at
           status == StatusOf(start[p].seen)
       IN \/ /\ AppendReconciliation(start[p].grant, TheAttempt(i),
                   [status |-> status, order |-> EffectiveOrder(TheAttempt(i))])
             /\ Go(p, [start[p] EXCEPT !.todo = @ \ {i}, !.at = None,
                                       !.seen = "none",
                                       !.blocked = @ \/ status \notin Final],
                   "next")
          \/ Fenced(p) /\ Stop(p)
    /\ UNCHANGED Exchange

-----------------------------------------------------------------------------
\* clearHaltIfSafe: the HALT revision is read first, the journal and the facts
\* next, the exchange after that, and the clearance presents all of it to the
\* store, which refuses it when its own rows have moved on.

ReadHalt(p) ==
    /\ At(p, "next")
    /\ start[p].todo = {}
    /\ IF halt.active
       THEN Go(p, [start[p] EXCEPT !.noted.halt = halt.revision], "halted")
       ELSE Goto(p, "verdict")
    /\ UNCHANGED <<journalVars, Exchange>>

\* expectedAccounting and expectedProtection: the parent, its fills, their
\* ledger entries and the take-profit are durable facts, which evidenced stands
\* for as a whole.
Accounted(i) == <<i, latest[i].order>> \in evidenced

\* allLineagesSafe: every owned intent failed, or was filled and is accounted
\* for, and where there is a lineage without an owned intent the exchange can
\* be read and shows 1x.
AllLineagesSafe(readable) ==
    \A i \in Intents :
        lineage[PlanOf[i]] # None =>
            IF owned[i] = None THEN readable /\ levered
            ELSE \/ latest[i].status = "FAILED"
                 \/ latest[i].status = "RECONCILED" /\ Accounted(i)

ReadRuns(p) ==
    /\ At(p, "halted")
    /\ \E readable \in BOOLEAN :
          IF AllLineagesSafe(readable)
          THEN Go(p, [start[p] EXCEPT
                        !.noted = [ClearanceEvidence(Scope) EXCEPT
                                     !.halt = start[p].noted.halt]],
                  "judge")
          ELSE Go(p, [start[p] EXCEPT !.noted = NothingNoted], "verdict")
    /\ UNCHANGED <<journalVars, Exchange>>

Clear(p) ==
    /\ At(p, "judge")
    /\ \/ /\ ClearHalt(start[p].grant, Scope, start[p].noted)
          /\ Go(p, [start[p] EXCEPT !.noted = NothingNoted], "verdict")
       \/ /\ ~ClearanceAccepted(start[p].grant, Scope, start[p].noted)
          /\ Stop(p)
    /\ UNCHANGED Exchange

\* Recovery is safe when nothing stayed unresolved and HALT is down.
SafeToProceed(p) == ~start[p].blocked /\ ~halt.active

\* What the caller of recoverPriorDemoRuns does with the summary.  After the
\* order was sent, only a filled and proven order ends in a release.
AfterRecovery(p) ==
    /\ At(p, "verdict")
    /\ LET filled == latest[p].status = "RECONCILED"
       IN Goto(p, CASE start[p].phase = "prepare" /\ SafeToProceed(p) -> "plan"
                    [] start[p].phase = "before" /\ SafeToProceed(p) -> "check"
                    [] start[p].phase = "after" /\ SafeToProceed(p) /\ filled
                          -> "release"
                    [] OTHER -> "done")
    /\ UNCHANGED <<journalVars, Exchange>>

-----------------------------------------------------------------------------
\* prepare: a plan is built from a fresh read while the lease is held, and the
\* lease released whether that works or not.  A lease already lost is as good.

Plan(p) ==
    /\ At(p, "plan")
    /\ Goto(p, IF halt.active THEN "done" ELSE "yield")
    /\ UNCHANGED <<journalVars, Exchange>>

YieldLease(p) ==
    /\ At(p, "yield")
    /\ \/ /\ \/ ReleaseLease(start[p].grant)
             \/ Fenced(p) /\ UNCHANGED journalVars
          /\ \E step \in {"reviewed", "done"} : Go(p, Fresh(step), step)
       \/ ~Fenced(p) /\ StillToReconcile /\ Stop(p)
    /\ UNCHANGED Exchange

-----------------------------------------------------------------------------
\* execute: from the approved review to the order

\* The state is read again.  It may be unreadable or changed, which raises
\* HALT; the approval may have run out, which does not.
CheckState(p) ==
    /\ At(p, "check")
    /\ \/ Goto(p, "refuse")
       \/ Goto(p, IF live[PlanOf[p]] THEN "lineage" ELSE "done")
    /\ UNCHANGED <<journalVars, Exchange>>

RefuseState(p) ==
    /\ At(p, "refuse")
    /\ \/ RaiseHalt(start[p].grant) /\ Goto(p, "done")
       \/ Fenced(p) /\ Stop(p)
    /\ UNCHANGED Exchange

CommitLineage(p) ==
    /\ At(p, "lineage")
    /\ \/ /\ live[PlanOf[p]]
          /\ PrepareLineage(PlanOf[p], RunOf[p])
          /\ IF levered THEN Goto(p, "intend")
             ELSE Go(p, [start[p] EXCEPT !.write = "leverage"], "fence")
       \/ ~live[PlanOf[p]] /\ Stop(p)
    /\ UNCHANGED Exchange

\* fenceForWrite, before every exchange write: the approval by the local clock,
\* HALT, and then a renewal of the lease, each read on its own.
FenceHalt(p) ==
    /\ At(p, "fence")
    /\ Goto(p, IF live[PlanOf[p]] /\ ~halt.active THEN "renew" ELSE "done")
    /\ UNCHANGED <<journalVars, Exchange>>

FenceLease(p) ==
    /\ At(p, "renew")
    /\ Goto(p, IF ~Fenced(p) /\ ~StillToReconcile THEN start[p].write ELSE "done")
    /\ UNCHANGED <<journalVars, Exchange>>

\* setLeverage with its readback and a further read of the state.  Whatever does
\* not prove 1x raises HALT, except a last read that fails.
SetLeverage(p) ==
    /\ At(p, "leverage")
    /\ \/ levered' = TRUE /\ (Goto(p, "intend") \/ Goto(p, "done"))
       \/ levered' \in {levered, TRUE} /\ Goto(p, "refuse")
    /\ UNCHANGED <<journalVars, venue, mistaken>>

IntentAccepted(p) ==
    /\ OwnsLineage(start[p].grant, p)
    /\ GatesOpen(p)
    /\ ~ClientTaken(p, ClientOf[p])

OwnIntent(p) ==
    /\ At(p, "intend")
    /\ \/ /\ PrepareOwnedIntent(start[p].grant, p, ClientOf[p])
          /\ Go(p, [start[p] EXCEPT !.write = "order"], "fence")
       \/ ~IntentAccepted(p) /\ Stop(p)
    /\ UNCHANGED Exchange

\* createOrder leaves the program.
SendOrder(p) ==
    /\ At(p, "order")
    /\ venue' = [venue EXCEPT ![p] = "inflight"]
    /\ Goto(p, "answer")
    /\ UNCHANGED <<journalVars, levered, mistaken>>

\* A variant of Answers in which every error is a rejection.
ErrorsReject(fate) ==
    IF fate \in Visible THEN {"rejected", "accepted", "misnamed"} ELSE {"rejected"}

\* mapOrderAcknowledgement, normalizeBybitFailure: an order that was taken may be
\* acknowledged under another client order id, which arrives as a precondition.
Answers(fate) ==
    {"none"} \cup (IF fate \in Visible THEN {"accepted", "misnamed"} ELSE {})
             \cup (IF fate = "refused" THEN {"rejected"} ELSE {})

\* The kinds of answer that execute counts as knownRejected.
KnownRejected == {"rejected", "misnamed"}

\* createOrder returns: an acknowledgement, a known rejection, or nothing that
\* tells the two apart (a timeout, an unclassified code, a duplicate id).
ReadAnswer(p) ==
    /\ At(p, "answer")
    /\ \E seen \in Answers(venue[p]) :
          Go(p, [start[p] EXCEPT !.seen = seen], "append")
    /\ UNCHANGED <<journalVars, Exchange>>

RecordAttempt(p) ==
    /\ At(p, "append")
    /\ \/ /\ AppendAttempt(start[p].grant, <<p, "entry">>,
                [intent |-> p, client |-> ClientOf[p],
                 order |-> IF start[p].seen = "accepted" THEN OrderOf[p]
                           ELSE None])
          /\ IF start[p].seen \in KnownRejected THEN Goto(p, "rejected")
             ELSE Go(p, [start[p] EXCEPT !.seen = "none", !.phase = "after"],
                     "list")
       \/ Fenced(p) /\ Stop(p)
    /\ UNCHANGED Exchange

RecordRejection(p) ==
    /\ At(p, "rejected")
    /\ \/ /\ AppendReconciliation(start[p].grant, <<p, "entry">>,
                                  [status |-> "FAILED", order |-> None])
          /\ Goto(p, "release")
          /\ mistaken' = IF start[p].seen = "misnamed" THEN mistaken \cup {p}
                         ELSE mistaken
       \/ Fenced(p) /\ Stop(p) /\ UNCHANGED mistaken
    /\ UNCHANGED <<venue, levered>>

Release(p) ==
    /\ At(p, "release")
    /\ \/ ReleaseLease(start[p].grant) /\ Goto(p, "done")
       \/ (Fenced(p) \/ StillToReconcile) /\ Stop(p)
    /\ UNCHANGED Exchange

-----------------------------------------------------------------------------
\* What happens around the starts

\* The operator declines, or the process dies.
Crash(p) ==
    /\ ~At(p, "done")
    /\ Stop(p)
    /\ UNCHANGED Exchange

\* The exchange accepts or refuses an order some time after it was sent.
Arrive(i) ==
    /\ venue[i] = "inflight"
    /\ \E s \in {"open", "refused"} : venue' = [venue EXCEPT ![i] = s]
    /\ UNCHANGED <<journalVars, start, levered, mistaken>>

\* It fills in part or in full, is cancelled, or loses its take-profit.
Trade(i) ==
    /\ \/ venue[i] = "open"
             /\ \E s \in {"partial", "filled", "dead"} :
                   venue' = [venue EXCEPT ![i] = s]
       \/ venue[i] = "partial"
             /\ \E s \in {"filled", "deadpartial"} :
                   venue' = [venue EXCEPT ![i] = s]
       \/ venue[i] = "filled" /\ venue' = [venue EXCEPT ![i] = "closed"]
    /\ UNCHANGED <<journalVars, start, levered, mistaken>>

\* Time passes for the lease, and for a review from the moment it is shown until
\* the order is sent; after that nothing reads it any more.
TimePasses ==
    /\ \/ ExpireLease
       \/ \E p \in Intents : /\ At(p, "reviewed") \/ start[p].phase = "before"
                             /\ ExpireApproval(PlanOf[p])
    /\ UNCHANGED <<start, Exchange>>

\* Another process ingests accounting facts, without a lease.
IngestElsewhere ==
    /\ IngestConflictingFact(Scope) \/ IngestCorrection(Scope)
    /\ UNCHANGED <<start, Exchange>>

-----------------------------------------------------------------------------
Recover(p) ==
    \/ ListRuns(p)
    \/ \E i \in Intents : \/ RecoverUnintended(p, i)
                          \/ RecoverMissingAttempt(p, i)
                          \/ ObserveOrder(p, i)
    \/ BindObserved(p) \/ ProveFilled(p) \/ RecordResult(p)
    \/ ReadHalt(p) \/ ReadRuns(p) \/ Clear(p) \/ AfterRecovery(p)

Prepare(p) == Plan(p) \/ YieldLease(p)

Execute(p) ==
    \/ CheckState(p) \/ RefuseState(p) \/ CommitLineage(p)
    \/ FenceHalt(p) \/ FenceLease(p) \/ SetLeverage(p)
    \/ OwnIntent(p) \/ SendOrder(p) \/ ReadAnswer(p)
    \/ RecordAttempt(p) \/ RecordRejection(p) \/ Release(p)

Next ==
    \/ \E p \in Intents : \/ Acquire(p) \/ Recover(p) \/ Prepare(p) \/ Execute(p)
                          \/ Crash(p) \/ Arrive(p) \/ Trade(p)
    \/ TimePasses
    \/ IngestElsewhere

Spec == Init /\ [][Next]_vars

-----------------------------------------------------------------------------
\* Correctness.  The code takes an acknowledgement under another client order id
\* for a rejection (order-mappers.ts:263, demo-entry-use-case.ts:802) and declares
\* the intent failed, whatever became of its order.  The properties are of the
\* intents it did not so mistake, beside any that it did.

Understood == Intents \ mistaken

\* At most one order of the account may still add exposure, however many starts
\* there are, wherever they stall or crash, and however late the exchange
\* answers.  No single fence gives this: the lease, HALT, the takeover's demand
\* for reconciliation and the write-ahead intent do together.
SingleExposure ==
    \A i, j \in Understood : venue[i] \in Live /\ venue[j] \in Live => i = j

\* While HALT is down, an order that may still add exposure is the newest lease
\* grant's own: nobody has taken over from the start that sent it.
OpenGateNoStrayOrder ==
    \A i \in Understood :
        ~halt.active /\ venue[i] \in Live => admitted[i] = Len(grants)

\* No intent is declared failed while its order may still fill or has filled,
\* whatever the exchange failed to answer or to show: a FAILED lineage is never
\* looked at again, so its position would be lost to every later recovery
\* ("Never blind-retry an ambiguous create", docs/operator-runbook.md).
FailedIsFinal ==
    \A i \in Understood :
        latest[i].status = "FAILED" => venue[i] \in {"refused", "dead"}

\* A start that finds no lease row gets one without a look at HALT and without
\* the demand to reconcile, so the row may only be absent when the account is
\* settled: every owned intent has a final result and no order may still add
\* exposure.  A start that ends in any other way leaves its lease to expire.
FreeLeaseSettled ==
    lease = None =>
        \A i \in Intents :
            /\ owned[i] # None => latest[i].status \in Final
            /\ i \in Understood => venue[i] \notin Live
=============================================================================
