---------------------------- MODULE PreparedGrid ----------------------------
(***************************************************************************)
(* The Mainnet boundary over the prepared-leg store: sequential creation   *)
(* of an approved grid (application/mainnet-prepared-grid-boundary.ts),    *)
(* creation and recovery of a single leg                                   *)
(* (mainnet-prepared-leg-boundary.ts) and cancellation of one order        *)
(* (mainnet-prepared-leg-cancel.ts), with the exchange they call.          *)
(*                                                                         *)
(* A process carries out one operation at a time.  One action is one store *)
(* transaction or one await, so that the other processes, the exchange and *)
(* the passing of time may act between any two; a process may also crash   *)
(* between any two.  Processes with the same run id share its lease: a     *)
(* restart under the old run id is a second process of that run.           *)
(***************************************************************************)
EXTENDS PreparedLegStore

CONSTANTS
    Procs,     \* processes
    RunOf,     \* the run id a process was started with
    Offered    \* the operations started in this instance

ASSUME ProcessAssumption ==
    /\ RunOf \in [Procs -> Runs]
    /\ Offered \subseteq {"grid", "leg", "recover", "cancel"}

VARIABLES
    proc,      \* where each process is, and what it remembers
    order,     \* the order of each leg at the exchange
    posted,    \* history: create calls sent to the exchange, by leg
    revoked    \* history: cancel calls sent to the exchange, by leg

vars == <<journalVars, legVars, proc, order, posted, revoked>>

-----------------------------------------------------------------------------
\* Processes

\* What a process remembers: its operation (op), its lease grant, the leg at
\* hand (at), the legs a recovery-only sweep still has to visit (todo) and found
\* (found), whether one of them stayed in doubt (doubt), whether the leg is
\* reconciled as one of a grid (inGrid) and was just created, or is proven for a
\* cancel (fresh), whether the result may not be better than unresolved (force),
\* whether a cancel is on record (pending), the account state it read (seen), its
\* proof of the order (proof) and the result it is about to record, or goes by
\* (verdict).
Step == {"idle", "gone", "lease", "scan", "check", "evidence", "prepare",
         "revalidate", "dispatch", "ack", "read", "observe", "fills", "record",
         "release", "settle", "revoke", "withdraw", "reassure", "send", "reply",
         "degrade"}

Proc == [step : Step,
         op : {"none", "grid", "sweep", "leg", "recover", "cancel"},
         grant : Nat,
         at : Legs \cup {None},
         todo : SUBSET Legs, found : SUBSET Legs, doubt : BOOLEAN,
         inGrid : BOOLEAN, fresh : BOOLEAN, force : BOOLEAN, pending : BOOLEAN,
         seen : [Legs -> Order], proof : Order,
         verdict : LegStatus \cup {"none"}]

Nothing == [l \in Legs |-> NoOrder]

Resting(step) ==
    [step |-> step, op |-> "none", grant |-> 0, at |-> None, todo |-> {},
     found |-> {}, doubt |-> FALSE, inGrid |-> FALSE, fresh |-> FALSE,
     force |-> FALSE, pending |-> FALSE, seen |-> Nothing, proof |-> NoOrder,
     verdict |-> "none"]

GridTypeOK ==
    /\ LegTypeOK
    /\ proc \in [Procs -> Proc]
    /\ order \in [Legs -> Order]
    /\ posted \in [Legs -> Nat]
    /\ revoked \in [Legs -> Nat]

Init ==
    /\ JournalInit
    /\ LegInit
    /\ proc = [p \in Procs |-> Resting("idle")]
    /\ order = Nothing
    /\ posted = [l \in Legs |-> 0]
    /\ revoked = [l \in Legs |-> 0]

At(p, step) == proc[p].step = step

Leg(p) == proc[p].at

GrantOf(p) == proc[p].grant

\* The process moves on to a step with a changed memory; at rest it keeps none.
Go(p, memory, step) ==
    proc' = [proc EXCEPT ![p] = IF step = "idle" THEN Resting("idle")
                                ELSE [memory EXCEPT !.step = step]]

Goto(p, step) == Go(p, proc[p], step)

\* What it read of the exchange is dropped once a result has been recorded.
Forgetful(memory) ==
    [memory EXCEPT !.fresh = FALSE, !.force = FALSE, !.pending = FALSE,
                   !.inGrid = FALSE, !.seen = Nothing, !.proof = NoOrder,
                   !.verdict = "none"]

\* The result is all that is left of a reconciliation until it is recorded, with
\* the proof of the order where it protects fills.
Decided(memory, status) ==
    [Forgetful(memory) EXCEPT
        !.fresh = memory.fresh, !.verdict = status,
        !.proof = IF status = "PROTECTED" THEN memory.proof ELSE NoOrder]

Exchange == <<order, posted, revoked>>
Journals == <<journalVars, legVars>>

\* Nothing in the Mainnet scope lifts the demand of a takeover, so a lease
\* demands reconciliation exactly when it was granted by a takeover.
Reconciling(p) == grants[GrantOf(p)].takeover

-----------------------------------------------------------------------------
\* Where an operation goes on

\* A recovery-only sweep visits the next leg, or is over; it keeps the lease if
\* a leg stayed in doubt.
NextOfSweep(p, doubt) ==
    LET memory == [Forgetful(proc[p]) EXCEPT !.doubt = doubt]
        todo == proc[p].todo
    IN  \/ /\ todo # {}
           /\ \E l \in todo :
                 /\ \A k \in todo : l <= k
                 /\ Go(p, [memory EXCEPT !.at = l, !.todo = todo \ {l}],
                       "lease")
        \/ todo = {} /\ doubt /\ Goto(p, "idle")
        \/ todo = {} /\ ~doubt /\ Go(p, memory, "release")

\* The status a grid reports for a leg whose creation failed.
FailedStatus(l) ==
    IF outcome[l] # "none" THEN outcome[l]
    ELSE IF createIntent[l] # None THEN "UNRESOLVED" ELSE "BLOCKED"

\* The operation on the leg at hand returns an error.
Fail(p) ==
    \/ /\ proc[p].op = "grid"
       /\ \/ FailedStatus(Leg(p)) \in Doubtful /\ Goto(p, "idle")
          \/ /\ FailedStatus(Leg(p)) \notin Doubtful
             /\ Go(p, Forgetful(proc[p]), "release")
    \/ proc[p].op = "sweep" /\ NextOfSweep(p, TRUE)
    \/ proc[p].op \in {"leg", "recover", "cancel"} /\ Goto(p, "idle")

\* A reconciliation without a result: a cancel then falls back on the last
\* protected result, if there is one.
FailReconciling(p) ==
    \/ proc[p].op = "cancel" /\ shield[Leg(p)] # None /\ Goto(p, "degrade")
    \/ proc[p].op # "cancel" /\ Fail(p)
    \/ proc[p].op = "cancel" /\ shield[Leg(p)] = None /\ Goto(p, "idle")

\* Only a leg this very invocation created, confirmed open and unfilled, lets a
\* grid go on.
GoesOn(p, status) ==
    proc[p].op = "grid" /\ proc[p].fresh /\ status = "CONFIRMED_OPEN"

\* A variant of InDoubt that looks at the last leg only.
LastInDoubt(p, status) == status \in Doubtful

\* Whether any leg the sweep has visited stayed in doubt.
InDoubt(p, status) == proc[p].doubt \/ status \in Doubtful

\* readRemainderCancelProof: the result vouches for the partial fill, the
\* take-profits and the siblings that a cancel has just read, and for no more.
Vouching(p) == proc[p].op = "cancel" /\ proc[p].fresh

\* After the recorded result of the leg at hand.
Continue(p, status) ==
    \/ /\ GoesOn(p, status)
       /\ Leg(p) < NLegs
       /\ Go(p, [Forgetful(proc[p]) EXCEPT !.at = Leg(p) + 1], "lease")
    \/ /\ proc[p].op = "grid"
       /\ ~GoesOn(p, status) \/ Leg(p) = NLegs
       /\ IF status \in Doubtful THEN Goto(p, "idle")
          ELSE Go(p, Forgetful(proc[p]), "release")
    \/ /\ proc[p].op = "sweep"
       /\ NextOfSweep(p, InDoubt(p, status))
    \/ /\ proc[p].op \in {"leg", "recover", "cancel"}
       /\ \/ status \in ZeroFill /\ Go(p, Forgetful(proc[p]), "release")
          \/ status = "UNRESOLVED" /\ FailReconciling(p)
          \/ status \in {"PROTECTED", "PROTECTION_PENDING"}
             /\ ~Vouching(p)
             /\ Goto(p, "idle")
    \/ /\ Vouching(p) /\ status = "PROTECTED"
       /\ Go(p, [Forgetful(proc[p]) EXCEPT !.proof = proc[p].proof], "withdraw")

-----------------------------------------------------------------------------
\* acquireOrReuseMainnetLease: an unexpired lease of the run's own is renewed,
\* by whichever of its processes asks; otherwise the account lease is acquired.

HeldByRun(p) == lease # None /\ ~lease.expired /\ lease.owner = RunOf[p]

HoldLease(p, memory, step) ==
    \/ /\ HeldByRun(p)
       /\ Go(p, [memory EXCEPT !.grant = Len(grants)], step)
       /\ UNCHANGED journalVars
    \/ /\ ~HeldByRun(p)
       /\ AcquireFreeLease(RunOf[p]) \/ TakeOverLease(RunOf[p])
       /\ Go(p, [memory EXCEPT !.grant = Len(grants) + 1], step)

\* createMainnetPreparedGrid, and the single-leg operations.  A recovery and a
\* cancel name a source that exists.
Start(p) ==
    /\ At(p, "idle")
    /\ \/ /\ "grid" \in Offered
          /\ HoldLease(p, [Resting("idle") EXCEPT !.op = "grid"], "scan")
       \/ \E l \in Legs, op \in Offered \cap {"leg", "recover", "cancel"} :
             /\ op # "leg" => createIntent[l] # None
             /\ HoldLease(p, [Resting("idle") EXCEPT !.op = op, !.at = l],
                   CASE op = "leg" -> "check"
                     [] op = "recover" -> "read"
                     [] op = "cancel" -> "settle")
    /\ UNCHANGED <<legVars, Exchange>>

\* The lease of the next leg of a grid or of a sweep.
Relet(p) ==
    /\ At(p, "lease")
    /\ \/ HoldLease(p, [proc[p] EXCEPT !.inGrid = TRUE],
             IF proc[p].op = "grid" THEN "check" ELSE "read")
       \/ /\ ~HeldByRun(p)
          /\ lease # None /\ ~lease.expired
          /\ Fail(p)
          /\ UNCHANGED journalVars
    /\ UNCHANGED <<legVars, Exchange>>

\* releaseLease, whose refusal changes nothing.
Release(p) ==
    /\ At(p, "release")
    /\ \/ ReleaseLease(GrantOf(p))
       \/ /\ ~(Authoritative(GrantOf(p)) /\ ~lease.recon)
          /\ UNCHANGED journalVars
    /\ Goto(p, "idle")
    /\ UNCHANGED <<legVars, Exchange>>

-----------------------------------------------------------------------------
\* createMainnetPreparedGrid: any source at all makes the invocation a sweep
\* that creates nothing.

Sources == {l \in Legs : createIntent[l] # None}

Scan(p) ==
    /\ At(p, "scan")
    /\ \/ \E l \in Sources :
             /\ \A k \in Sources : l <= k
             /\ Go(p, [proc[p] EXCEPT !.op = "sweep", !.at = l,
                          !.found = Sources, !.todo = Sources \ {l}], "lease")
       \/ /\ Sources = {}
          /\ \/ Reconciling(p) /\ Goto(p, "idle")
             \/ ~Reconciling(p) /\ halt.active /\ Goto(p, "release")
             \/ /\ ~Reconciling(p) /\ ~halt.active
                /\ Go(p, [proc[p] EXCEPT !.at = 1], "lease")
    /\ UNCHANGED <<Journals, Exchange>>

-----------------------------------------------------------------------------
\* createMainnetPreparedLegInternal

\* validateGridJournalPosition: every earlier leg was created under this very
\* lease, is answered, not being cancelled, and confirmed open.
PrefixConfirmed(p) ==
    \A k \in 1 .. Leg(p) - 1 :
        /\ createIntent[k] = [run |-> RunOf[p],
                              epoch |-> grants[GrantOf(p)].epoch]
        /\ k \in answered
        /\ cancelIntent[k] = None
        /\ outcome[k] = "CONFIRMED_OPEN"

Check(p) ==
    LET known == createIntent[Leg(p)] # None
        blocked == \/ Reconciling(p)
                   \/ proc[p].inGrid /\ ~PrefixConfirmed(p)
                   \/ halt.active
    IN  /\ At(p, "check")
        /\ \/ known /\ Go(p, [proc[p] EXCEPT !.inGrid = FALSE], "read")
           \/ known /\ Fail(p)   \* the account cannot be verified
           \/ ~known /\ ~blocked /\ Goto(p, "evidence")
           \/ ~known /\ blocked /\ Fail(p)
        /\ UNCHANGED <<Journals, Exchange>>

\* The exchange lists an order as open while it may still be filled.
Visible(o) == o.state = "open" /\ ~Filled(o)

\* validateCurrentEvidence and createPreparedGridCapacity: the open orders are
\* the untouched orders of the earlier legs of the grid and no others, and the
\* position is flat.  Fills may have been closed again by their take-profits.
TargetClean(p) ==
    LET prefix == IF proc[p].inGrid THEN 1 .. Leg(p) - 1 ELSE {}
    IN  \A l \in Legs : IF l \in prefix THEN Untouched(order[l])
                        ELSE ~Visible(order[l])

\* Fresh evidence, then the separate authorization; each may fail.
Collect(p) ==
    /\ At(p, "evidence")
    /\ \/ TargetClean(p) /\ Goto(p, "prepare")
       \/ Fail(p)
    /\ UNCHANGED <<Journals, Exchange>>

\* A variant of AfterPrepare that takes any committed intent for its own.
DispatchEither(p) == {"revalidate"}

\* Where preparePreparedLegCreate leads: an intent it created is revalidated and
\* sent, a source it found is reconciled.
AfterPrepare(p) == IF NewSource(Leg(p)) THEN {"revalidate"} ELSE {"read"}

Prepare(p) ==
    /\ At(p, "prepare")
    /\ \/ /\ PreparePreparedLegCreate(GrantOf(p), Leg(p))
          /\ \E step \in AfterPrepare(p) : Goto(p, step)
       \/ /\ CreateAllowed(GrantOf(p))
          /\ createIntent[Leg(p)] # None
          /\ \E step \in AfterPrepare(p) :
                Go(p, [proc[p] EXCEPT !.inGrid = FALSE], step)
          /\ UNCHANGED legVars
       \/ /\ ~CreateAllowed(GrantOf(p))
          /\ Fail(p)
          /\ UNCHANGED legVars
    /\ UNCHANGED <<journalVars, Exchange>>

\* The last look before the call: lease, approval, HALT, evidence age and
\* authorization.  The intent is durable, so a refusal raises HALT.
Revalidate(p) ==
    /\ At(p, "revalidate")
    /\ \/ /\ CreateAllowed(GrantOf(p))
          /\ Goto(p, "dispatch")
          /\ UNCHANGED Journals
       \/ /\ TryHalt(GrantOf(p))
          /\ Fail(p)
          /\ UNCHANGED legVars
    /\ UNCHANGED Exchange

\* exchange.createOrder.  The client order id is a function of the leg, and the
\* exchange takes an order id once.
Dispatch(p) ==
    LET l == Leg(p) IN
    /\ At(p, "dispatch")
    /\ posted' = [posted EXCEPT ![l] = @ + 1]
    /\ order' = IF order[l] = NoOrder
                THEN [order EXCEPT ![l].state = "flying"] ELSE order
    /\ Goto(p, "ack")
    /\ UNCHANGED <<Journals, revoked>>

\* The call returns, with an acknowledgement or without knowing; the attempt is
\* recorded, and a leg whose attempt cannot be recorded raises HALT.
Acknowledge(p) ==
    /\ At(p, "ack")
    /\ \/ \E force \in BOOLEAN :
             /\ AppendCreateAttempt(GrantOf(p), Leg(p))
             /\ Go(p, [proc[p] EXCEPT !.fresh = TRUE, !.force = force], "read")
             /\ UNCHANGED journalVars
       \/ /\ ~Authoritative(GrantOf(p)) \/ Leg(p) \in answered
          /\ TryHalt(GrantOf(p))
          /\ Fail(p)
          /\ UNCHANGED legVars
    /\ UNCHANGED Exchange

-----------------------------------------------------------------------------
\* reconcilePreparedLegSource

\* readState, with the source as it is now.  A recovery verifies the account
\* before it, which may fail without a trace; the read itself fails with HALT.
ReadState(p) ==
    /\ At(p, "read")
    /\ \/ /\ Go(p, [proc[p] EXCEPT !.seen = order,
                       !.pending = cancelIntent[Leg(p)] # None], "observe")
          /\ UNCHANGED journalVars
       \/ /\ FailReconciling(p)
          /\ TryHalt(GrantOf(p))
       \/ /\ proc[p].op \in {"recover", "sweep"}
          /\ Fail(p)
          /\ UNCHANGED journalVars
    /\ UNCHANGED <<legVars, Exchange>>

\* A variant of Shown that takes an order nobody can find for one that is over.
ShownOrMissing(o) == TRUE

\* What the exchange knows of, it can show.
Shown(o) == o.state \notin {"none", "flying"}

\* observeOrder: an order that cannot be shown, or not with its approved terms,
\* leaves the leg unresolved.
Observe(p) ==
    LET o == order[Leg(p)] IN
    /\ At(p, "observe")
    /\ \/ /\ Shown(o)
          /\ Go(p, [proc[p] EXCEPT !.proof = o], "fills")
       \/ Go(p, Decided(proc[p], "UNRESOLVED"), "record")
    /\ UNCHANGED <<Journals, Exchange>>

\* The other legs whose orders may be there as well: the earlier legs while a
\* grid is created; for a sweep the legs it found, unless cancelled or rejected.
Siblings(p) ==
    IF ~proc[p].inGrid THEN {}
    ELSE IF proc[p].op = "grid" THEN 1 .. Leg(p) - 1
    ELSE {k \in proc[p].found \ {Leg(p)} :
             outcome[k] \notin {"CANCELLED", "REJECTED"}}

\* gridTargetStateConflict on one sibling: its last result stands and the order
\* is as recorded there, or is over with its fills protected.
SiblingAgrees(p, k) ==
    LET now == proc[p].seen[k] IN
    \/ outcome[k] = "CONFIRMED_OPEN" /\ Untouched(now)
    \/ /\ outcome[k] = "PROTECTED"
       /\ \/ Visible(now) /\ now = shield[k]
          \/ ~Visible(now) /\ ~Visible(shield[k])

\* targetStateConflict for an unfilled order, against the account state read
\* before the order was observed.
Contradicted(p) ==
    LET l == Leg(p)
        own == proc[p].seen[l]
        o == proc[p].proof
    IN  \/ \E k \in Siblings(p) : ~SiblingAgrees(p, k)
        \/ \E k \in Legs \ ({l} \cup Siblings(p)) : Visible(proc[p].seen[k])
        \/ Visible(own) /\ own # o
        \/ proc[p].inGrid /\ Untouched(o) /\ ~Visible(own)

\* With fills in the account the position may or may not agree.
Exposed(p) == \E k \in Legs : proc[p].seen[k].filled > 0

\* The proof stands: nothing forces doubt, the create attempt is durable, and
\* the executions read add up to the fills of the order.
Sound(p, fills, attempted) ==
    ~proc[p].force /\ attempted /\ fills = proc[p].proof.filled

\* A variant of ZeroFillStatus that does not ask about fills.
StatusByState(o) ==
    CASE o.state = "dead" -> {"CANCELLED"}
      [] o.state = "open" -> {"CONFIRMED_OPEN"}
      [] OTHER -> {"REJECTED"}

ZeroFillStatus(o) ==
    IF o.filled > 0 THEN {} ELSE StatusByState(o)

\* What reconcilePreparedLegSource may conclude.  Whether the take-profits cover
\* the fills, and have closed them, is the exchange's answer.
Verdicts(p, fills, attempted) ==
    LET o == proc[p].proof
        sound == Sound(p, fills, attempted)
        unsettled == proc[p].pending /\ Visible(o)
    IN  {s \in {"PROTECTED"} : o.filled > 0 /\ sound /\ ~unsettled}
        \cup {s \in {"PROTECTION_PENDING"} : o.filled > 0}
        \cup {s \in ZeroFillStatus(o) :
                 sound /\ ~unsettled /\ ~Contradicted(p)}
        \cup {s \in {"UNRESOLVED"} :
                 /\ o.filled = 0
                 /\ ~sound \/ unsettled \/ Contradicted(p) \/ Exposed(p)}

\* listFills; a create attempt nobody recorded is recorded now, unless its
\* intent is of another epoch; the verdict is reached.
ListFills(p) ==
    LET l == Leg(p)
        restorable == /\ ~proc[p].force
                      /\ l \notin answered
                      /\ AttemptAllowed(GrantOf(p), createIntent[l])
        attempted == l \in answered \/ restorable
    IN  /\ At(p, "fills")
        /\ IF restorable THEN AppendCreateAttempt(GrantOf(p), l)
           ELSE UNCHANGED legVars
        /\ \E fills \in {order[l].filled, None}, status \in LegStatus :
              /\ status \in Verdicts(p, fills, attempted)
              /\ Go(p, Decided(proc[p], status), "record")
        /\ UNCHANGED <<journalVars, Exchange>>

\* The result becomes durable, if the lease still holds.
Record(p) ==
    /\ At(p, "record")
    /\ \/ /\ AppendLegReconciliation(GrantOf(p), Leg(p), proc[p].verdict,
                                     proc[p].proof)
          /\ Continue(p, proc[p].verdict)
       \/ /\ ~Authoritative(GrantOf(p))
          /\ FailReconciling(p)
          /\ UNCHANGED Journals
    /\ UNCHANGED Exchange

-----------------------------------------------------------------------------
\* cancelMainnetPreparedLeg

\* An existing cancel intent is only ever reconciled, in doubt unless its call
\* was acknowledged; without the account verified, the fills at stake are put
\* in doubt.
Settle(p) ==
    LET l == Leg(p) IN
    /\ At(p, "settle")
    /\ \/ /\ cancelIntent[l] # None
          /\ \/ Go(p, [proc[p] EXCEPT
                          !.force = cancelAttempt[l] # "accepted"], "read")
             \/ cancelIntent[l].filled > 0 /\ Goto(p, "degrade")
             \/ cancelIntent[l].filled = 0 /\ Goto(p, "idle")
       \/ /\ cancelIntent[l] = None
          /\ \/ /\ ~Reconciling(p)
                /\ outcome[l] \in {"PROTECTED", "CONFIRMED_OPEN"}
                /\ Go(p, [proc[p] EXCEPT !.verdict = outcome[l]], "revoke")
             \/ /\ \/ Reconciling(p)
                   \/ outcome[l] \notin {"PROTECTED", "CONFIRMED_OPEN"}
                /\ Goto(p, "idle")
    /\ UNCHANGED <<Journals, Exchange>>

\* The proof a cancel needs, by the result it started from.  Without one the
\* cancel of an untouched order fails; with fills at stake the last protected
\* result is withdrawn, or the order that filled meanwhile is reconciled.  If
\* fills, take-profits and position agree with a part-filled order,
\* readRemainderCancelProof records its protection afresh (Record) before the
\* cancel is authorized.
Prove(p) ==
    LET o == order[Leg(p)]
        remainder == proc[p].verdict = "PROTECTED"
    IN  /\ At(p, "revoke")
        /\ \/ /\ ~remainder /\ Untouched(o)
              /\ Go(p, [Forgetful(proc[p]) EXCEPT !.proof = o], "withdraw")
           \/ ~remainder /\ Goto(p, "idle")
           \/ /\ remainder /\ Partial(o)
              /\ Go(p, Decided([proc[p] EXCEPT !.fresh = TRUE, !.proof = o],
                               "PROTECTED"), "record")
           \/ remainder /\ Filled(o) /\ Go(p, Forgetful(proc[p]), "read")
           \/ remainder /\ Goto(p, "degrade")
        /\ UNCHANGED <<Journals, Exchange>>

\* preparePreparedLegCancel.  Another process of the run may have been first.
Withdraw(p) ==
    LET l == Leg(p)
        proof == proc[p].proof
    IN  /\ At(p, "withdraw")
        /\ \/ /\ PreparePreparedLegCancel(GrantOf(p), l, proof)
              /\ Goto(p, "reassure")
           \/ /\ CancelAllowed(GrantOf(p), l, proof)
              /\ cancelIntent[l] # None
              /\ cancelIntent[l].filled = proof.filled
              /\ Go(p, Forgetful(proc[p]), "read")
              /\ UNCHANGED legVars
           \/ Goto(p, "idle") /\ UNCHANGED legVars   \* refused, or too old
        /\ UNCHANGED <<journalVars, Exchange>>

\* The last look before the cancel call, which HALT does not stop.
Reassure(p) ==
    /\ At(p, "reassure")
    /\ \/ /\ Authoritative(GrantOf(p))
          /\ ~lease.recon
          /\ Goto(p, "send")
          /\ UNCHANGED journalVars
       \/ /\ TryHalt(GrantOf(p))
          /\ Goto(p, "idle")
    /\ UNCHANGED <<legVars, Exchange>>

Send(p) ==
    /\ At(p, "send")
    /\ revoked' = [revoked EXCEPT ![Leg(p)] = @ + 1]
    /\ Goto(p, "reply")
    /\ UNCHANGED <<Journals, order, posted>>

Reply(p) ==
    /\ At(p, "reply")
    /\ \/ \E result \in {"accepted", "ambiguous"} :
             /\ AppendCancelAttempt(GrantOf(p), Leg(p), result)
             /\ Go(p, [Forgetful(proc[p]) EXCEPT
                          !.force = result # "accepted"], "read")
             /\ UNCHANGED journalVars
       \/ /\ ~Authoritative(GrantOf(p))
          /\ TryHalt(GrantOf(p))
          /\ Goto(p, "idle")
          /\ UNCHANGED legVars
    /\ UNCHANGED Exchange

\* persistProtectionPending: the last protected result is put in doubt again.
Degrade(p) ==
    LET l == Leg(p) IN
    /\ At(p, "degrade")
    /\ \/ /\ shield[l] # None
          /\ AppendLegReconciliation(GrantOf(p), l, "PROTECTION_PENDING",
                                     shield[l])
       \/ /\ shield[l] = None \/ ~Authoritative(GrantOf(p))
          /\ UNCHANGED Journals
    /\ Goto(p, "idle")
    /\ UNCHANGED Exchange

-----------------------------------------------------------------------------
\* The exchange, time and crashes

\* A create call that was sent arrives, or never does.
Arrive(l) ==
    /\ order[l].state = "flying"
    /\ \E state \in {"open", "rejected"} :
          order' = [order EXCEPT ![l].state = state]

\* A fill, of a part or of all that is left.
Fill(l) ==
    /\ Visible(order[l])
    /\ \E filled \in order[l].filled + 1 .. Full :
          order' = [order EXCEPT ![l].filled = filled]

\* The order ends before it is filled, by a cancel call or without one.
End(l) ==
    /\ Visible(order[l])
    /\ order' = [order EXCEPT ![l].state = "dead"]

ExchangeStep ==
    /\ \E l \in Legs : Arrive(l) \/ Fill(l) \/ End(l)
    /\ UNCHANGED <<Journals, proc, posted, revoked>>

TimeStep ==
    /\ ExpireLease \/ ExpireApproval(Approval)
    /\ UNCHANGED <<legVars, proc, Exchange>>

\* A process dies; what it sent and what it recorded stay.
Crash(p) ==
    /\ proc[p].step \notin {"idle", "gone"}
    /\ proc' = [proc EXCEPT ![p] = Resting("gone")]
    /\ UNCHANGED <<Journals, Exchange>>

CreateStep(p) ==
    \/ Start(p) \/ Relet(p) \/ Release(p) \/ Scan(p) \/ Check(p) \/ Collect(p)
    \/ Prepare(p) \/ Revalidate(p) \/ Dispatch(p) \/ Acknowledge(p)

ReconcileStep(p) ==
    ReadState(p) \/ Observe(p) \/ ListFills(p) \/ Record(p)

CancelStep(p) ==
    \/ Settle(p) \/ Prove(p) \/ Withdraw(p) \/ Reassure(p) \/ Send(p) \/ Reply(p)
    \/ Degrade(p)

Next ==
    \/ \E p \in Procs : CreateStep(p) \/ ReconcileStep(p) \/ CancelStep(p)
                        \/ Crash(p)
    \/ ExchangeStep
    \/ TimeStep

Spec == Init /\ [][Next]_vars

-----------------------------------------------------------------------------
\* Correctness

\* Whoever retries, restarts or takes over: at most one create call and at most
\* one cancel call are ever sent for a leg (the recovery branches of
\* createMainnetPreparedLegInternal and cancelMainnetPreparedLeg).
OneCallEach == \A l \in Legs : posted[l] <= 1 /\ revoked[l] <= 1

\* A result that says an order is over and unfilled is final: from then on the
\* exchange has no order of that leg that is live or filled.
OverMeansOver ==
    \A l \in Legs : outcome[l] \in {"CANCELLED", "REJECTED"} =>
        order[l].state \in {"dead", "rejected"} /\ order[l].filled = 0

\* A fill that was recorded is never forgotten: no later result of the leg says
\* that its order is unfilled.
FillsStayKnown ==
    \A l \in Legs : shield[l] # None => outcome[l] \notin ZeroFill

Accounted(l) == outcome[l] \in {"PROTECTED"} \cup ZeroFill

\* While HALT is down, a leg that was ever intended is either accounted for or
\* still under the lease of the run that intended it: a crash between the
\* intent, the call and the answer cannot end in an open gate and a free lease.
NoForgottenLeg ==
    ~halt.active =>
        \A l \in Legs : createIntent[l] # None =>
            \/ Accounted(l)
            \/ /\ lease # None
               /\ lease.owner = createIntent[l].run
               /\ lease.epoch = createIntent[l].epoch

\* A leg in doubt keeps the account leased, so that only a takeover, which shuts
\* the gate, can bring in another run: neither a grid that ends early nor a sweep
\* that resolves its last leg forgets the doubtful one before it
\* (createMainnetPreparedGrid).
DoubtKeepsLease == (\E l \in Legs : outcome[l] \in Doubtful) => lease # None

\* "recovery creates one deterministic attempt identity after
\* dispatch-before-attempt interruption" (tests/application-mainnet-prepared-
\* leg.test.ts): a leg whose order was proven in a recovery has its attempt.
RecoveryRestoresAttempt ==
    \A l \in Legs : outcome[l] = "PROTECTION_PENDING" => l \in answered
=============================================================================
