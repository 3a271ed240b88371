----------------------- MODULE ExecutionJournalProofs -----------------------
(***************************************************************************)
(* What the execution journal promises for every number of runs, plans,    *)
(* intents, attempts and orders, and for every bound.                      *)
(*                                                                         *)
(* The argument: a step that leaves an intent without a final result also  *)
(* raises HALT, in the same transaction; HALT falls only in ClearHalt,     *)
(* which finds a final result for every owned intent of its scope; and a   *)
(* new intent is admitted only while HALT is down.                         *)
(***************************************************************************)
EXTENDS ExecutionJournal, TLAPS

-----------------------------------------------------------------------------
\* Type correctness

\* The row that a grant writes is a lease, and its trace in the history a grant.
LEMMA NewLeaseType ==
    ASSUME NEW r \in Runs, NEW e \in Epoch, NEW b \in BOOLEAN
    PROVE  /\ [owner |-> r, epoch |-> e, expired |-> FALSE, recon |-> b] \in Lease
           /\ [owner |-> r, epoch |-> e, takeover |-> b] \in Grant
    BY DEF Lease, Grant

\* The history of grants grows by grants.
LEMMA AppendType ==
    ASSUME NEW s \in Seq(Grant), NEW x \in Grant
    PROVE  Append(s, x) \in Seq(Grant)
    OBVIOUS

\* A lease row keeps its type when it expires and when a clearance lifts its
\* reconciliation demand.
LEMMA LeaseUpdateType ==
    ASSUME NEW l \in Lease
    PROVE  /\ [l EXCEPT !.expired = TRUE] \in Lease
           /\ [l EXCEPT !.recon = FALSE] \in Lease
    BY DEF Lease

\* TypeOK is inductive: no operation of the store writes a row that its readers
\* would reject, the epoch and every revision included.
LEMMA TypeStep == TypeOK /\ [JournalNext]_journalVars => TypeOK'
<1> SUFFICES ASSUME TypeOK, [JournalNext]_journalVars PROVE TypeOK'
    OBVIOUS
<1>1. CASE LeaseStep
  <2>1. ASSUME NEW r \in Runs, AcquireFreeLease(r) PROVE TypeOK'
    <3>1. FirstEpoch \in Epoch
        BY DEF Epoch, FirstEpoch
    <3>2. /\ [owner |-> r, epoch |-> FirstEpoch, expired |-> FALSE,
              recon |-> FALSE] \in Lease
          /\ [owner |-> r, epoch |-> FirstEpoch, takeover |-> FALSE] \in Grant
        BY <3>1, NewLeaseType
    <3>3. lease' \in Lease /\ grants' \in Seq(Grant)
        BY <2>1, <3>2, AppendType DEF AcquireFreeLease, TypeOK
    <3> QED
        BY <2>1, <3>3 DEF AcquireFreeLease, TypeOK
  <2>2. ASSUME NEW r \in Runs, TakeOverLease(r) PROVE TypeOK'
    <3>1. lease \in Lease /\ lease.epoch \in Epoch
        BY <2>2 DEF TakeOverLease, TypeOK, Lease
    <3>2. lease.epoch + 1 \in Epoch
        BY <3>1 DEF Epoch
    <3>3. /\ [owner |-> r, epoch |-> lease.epoch + 1, expired |-> FALSE,
              recon |-> TRUE] \in Lease
          /\ [owner |-> r, epoch |-> lease.epoch + 1, takeover |-> TRUE]
                \in Grant
        BY <3>2, NewLeaseType
    <3>5. lease' \in Lease /\ grants' \in Seq(Grant)
        BY <2>2, <3>3, AppendType DEF TakeOverLease, TypeOK
    <3>4. halt' \in [active : BOOLEAN, revision : Nat]
        BY <2>2 DEF TakeOverLease, RaiseHaltRow, TypeOK
    <3> QED
        BY <2>2, <3>4, <3>5 DEF TakeOverLease, TypeOK
  <2>3. CASE ExpireLease
        BY <2>3, LeaseUpdateType DEF ExpireLease, TypeOK
  <2>4. ASSUME NEW g \in 1 .. Len(grants), ReleaseLease(g) PROVE TypeOK'
        BY <2>4 DEF ReleaseLease, TypeOK
  <2> QED
        BY <1>1, <2>1, <2>2, <2>3, <2>4 DEF LeaseStep
<1>2. CASE IntentStep
  <2>1. ASSUME NEW p \in Plans, NEW r \in Runs, PrepareLineage(p, r)
        PROVE  TypeOK'
        BY <2>1 DEF PrepareLineage, TypeOK
  <2>2. ASSUME NEW p \in Plans, ExpireApproval(p) PROVE TypeOK'
        BY <2>2 DEF ExpireApproval, TypeOK
  <2>3. ASSUME NEW g \in 1 .. Len(grants), NEW i \in Intents,
               NEW c \in ClientIds, PrepareOwnedIntent(g, i, c)
        PROVE  TypeOK'
        BY <2>3 DEF PrepareOwnedIntent, TypeOK
  <2>4. ASSUME NEW g \in 1 .. Len(grants), NEW i \in Intents,
               NEW c \in ClientIds, ConflictingOwnedIntent(g, i, c)
        PROVE  TypeOK'
        BY <2>4 DEF ConflictingOwnedIntent, RaiseHaltRow, TypeOK
  <2> QED
        BY <1>2, <2>1, <2>2, <2>3, <2>4 DEF IntentStep
<1>3. CASE RecordStep
  <2> SUFFICES ASSUME NEW g \in 1 .. Len(grants), NEW a \in AttemptIds,
                 \/ \E row \in Attempt : \/ AppendAttempt(g, a, row)
                                         \/ ConflictingAttempt(g, a, row)
                 \/ \E o \in Orders : BindIdentity(g, a, o)
                 \/ \E candidates \in SUBSET Orders :
                        ConflictingBinding(g, a, candidates)
                 \/ \E verdict \in Verdict :
                        \/ AppendReconciliation(g, a, verdict)
                        \/ ConflictingReconciliation(g, a, verdict)
               PROVE TypeOK'
        BY <1>3 DEF RecordStep
  <2>1. ASSUME NEW row \in Attempt, AppendAttempt(g, a, row) PROVE TypeOK'
        BY <2>1 DEF AppendAttempt, TypeOK
  <2>2. ASSUME NEW row \in Attempt, ConflictingAttempt(g, a, row)
        PROVE  TypeOK'
        BY <2>2 DEF ConflictingAttempt, RaiseHaltRow, TypeOK
  <2>3. ASSUME NEW o \in Orders, BindIdentity(g, a, o) PROVE TypeOK'
        BY <2>3 DEF BindIdentity, TypeOK
  <2>4. ASSUME NEW candidates \in SUBSET Orders,
               ConflictingBinding(g, a, candidates)
        PROVE  TypeOK'
        BY <2>4 DEF ConflictingBinding, RaiseHaltRow, TypeOK
  <2>5. ASSUME NEW verdict \in Verdict, AppendReconciliation(g, a, verdict)
        PROVE  TypeOK'
    <3> DEFINE i == attempt[a].intent
    <3>1. i \in Intents
        BY <2>5 DEF AppendReconciliation, TypeOK, Attempt
    <3>2. verdict.status \in Status /\ verdict.order \in Orders \cup {None}
        BY DEF Verdict, Status
    <3>3. latest[i].revision \in Nat
        BY <3>1 DEF TypeOK, Result
    <3>4. [attempt |-> a, status |-> verdict.status, order |-> verdict.order,
           revision |-> latest[i].revision + 1] \in Result
        BY <3>2, <3>3 DEF Result
    <3>5. latest' \in [Intents -> Result]
        BY <2>5, <3>4 DEF AppendReconciliation, TypeOK
    <3>6. halt' \in [active : BOOLEAN, revision : Nat]
      <4>1. RaiseHaltRow \/ UNCHANGED halt
        BY <2>5 DEF AppendReconciliation
      <4>2. ASSUME RaiseHaltRow
            PROVE  halt' \in [active : BOOLEAN, revision : Nat]
        BY <4>2 DEF RaiseHaltRow, TypeOK
      <4> QED
        BY <4>1, <4>2 DEF TypeOK
    <3> QED
        BY <2>5, <3>5, <3>6 DEF AppendReconciliation, TypeOK
  <2>6. ASSUME NEW verdict \in Verdict, ConflictingReconciliation(g, a, verdict)
        PROVE  TypeOK'
        BY <2>6 DEF ConflictingReconciliation, RaiseHaltRow, TypeOK
  <2> QED
        BY <2>1, <2>2, <2>3, <2>4, <2>5, <2>6
<1>4. CASE HaltStep
  <2>1. ASSUME NEW g \in 1 .. Len(grants), RaiseHalt(g) PROVE TypeOK'
        BY <2>1 DEF RaiseHalt, RaiseHaltRow, TypeOK
  <2>2. ASSUME NEW g \in 1 .. Len(grants), NEW s \in Scopes,
               ClearHalt(g, s, ClearanceEvidence(s))
        PROVE  TypeOK'
    <3>1. lease \in Lease
        BY <2>2 DEF ClearHalt, ClearanceAccepted, Authoritative, TypeOK
    <3>2. lease' \in Lease
        BY <2>2, <3>1, LeaseUpdateType DEF ClearHalt, LeaseAfterClearance
    <3>3. halt' \in [active : BOOLEAN, revision : Nat]
        BY <2>2 DEF ClearHalt, TypeOK
    <3> QED
        BY <2>2, <3>2, <3>3 DEF ClearHalt, TypeOK
  <2> QED
        BY <1>4, <2>1, <2>2 DEF HaltStep
<1>5. CASE FactStep
  <2>1. ASSUME NEW i \in Intents, NEW o \in Orders, IngestEvidence(i, o)
        PROVE  TypeOK'
        BY <2>1 DEF IngestEvidence, TypeOK
  <2>2. ASSUME NEW s \in Scopes, IngestConflictingFact(s) PROVE TypeOK'
        BY <2>2 DEF IngestConflictingFact, RaiseHaltRow, TypeOK
  <2>3. ASSUME NEW s \in Scopes, IngestCorrection(s) PROVE TypeOK'
        BY <2>3 DEF IngestCorrection, TypeOK
  <2> QED
        BY <1>5, <2>1, <2>2, <2>3 DEF FactStep
<1>6. CASE UNCHANGED journalVars
        BY <1>6 DEF journalVars, TypeOK
<1> QED
        BY <1>1, <1>2, <1>3, <1>4, <1>5, <1>6 DEF JournalNext

\* The journal holds well-formed rows in every reachable state.
THEOREM TypeCorrect == JournalSpec => []TypeOK
<1>1. JournalInit => TypeOK
    BY DEF JournalInit, TypeOK, NoResult, Result, Status
<1> QED
    BY <1>1, TypeStep, PTL DEF JournalSpec

-----------------------------------------------------------------------------
\* Orders and intents

\* Every attempt was made for an owned intent, under its client order id.
AttemptsOwned ==
    \A a \in AttemptIds :
        attempt[a] # None => owned[attempt[a].intent] = attempt[a].client

\* A step that writes no intent, attempt, binding, result or grant, and that
\* can only put HALT up.
Bystander ==
    /\ UNCHANGED <<owned, attempt, binding, latest, admitted, grants>>
    /\ RaiseHaltRow \/ UNCHANGED halt
    /\ \/ lease' \in {lease, None}
       \/ lease # None /\ lease' = [lease EXCEPT !.expired = TRUE]

\* The kinds of step that are bystanders to the invariants below, and the seven
\* that are not.
LEMMA StepKinds ==
    ASSUME [JournalNext]_journalVars
    PROVE  \/ Bystander
           \/ \E r \in Runs : AcquireFreeLease(r) \/ TakeOverLease(r)
           \/ \E g \in 1 .. Len(grants), i \in Intents, c \in ClientIds :
                 PrepareOwnedIntent(g, i, c)
           \/ \E g \in 1 .. Len(grants), a \in AttemptIds :
                 \/ \E row \in Attempt : AppendAttempt(g, a, row)
                 \/ \E o \in Orders : BindIdentity(g, a, o)
                 \/ \E verdict \in Verdict : AppendReconciliation(g, a, verdict)
           \/ \E g \in 1 .. Len(grants), s \in Scopes :
                 ClearHalt(g, s, ClearanceEvidence(s))
<1>1. ExpireLease => Bystander
    BY DEF ExpireLease, Bystander
<1>2. ASSUME NEW g \in 1 .. Len(grants) PROVE ReleaseLease(g) => Bystander
    BY DEF ReleaseLease, Bystander
<1>3. ASSUME NEW p \in Plans, NEW r \in Runs
      PROVE  PrepareLineage(p, r) => Bystander
    BY DEF PrepareLineage, Bystander
<1>4. ASSUME NEW p \in Plans PROVE ExpireApproval(p) => Bystander
    BY DEF ExpireApproval, Bystander
<1>5. ASSUME NEW g \in 1 .. Len(grants), NEW i \in Intents, NEW c \in ClientIds
      PROVE  ConflictingOwnedIntent(g, i, c) => Bystander
    BY DEF ConflictingOwnedIntent, Bystander
<1>6. ASSUME NEW g \in 1 .. Len(grants), NEW a \in AttemptIds
      PROVE  /\ \A row \in Attempt : ConflictingAttempt(g, a, row) => Bystander
             /\ \A candidates \in SUBSET Orders :
                    ConflictingBinding(g, a, candidates) => Bystander
             /\ \A verdict \in Verdict :
                    ConflictingReconciliation(g, a, verdict) => Bystander
    BY DEF ConflictingAttempt, ConflictingBinding, ConflictingReconciliation,
           Bystander
<1>7. ASSUME NEW g \in 1 .. Len(grants) PROVE RaiseHalt(g) => Bystander
    BY DEF RaiseHalt, Bystander
<1>8. ASSUME NEW i \in Intents, NEW o \in Orders
      PROVE  IngestEvidence(i, o) => Bystander
    BY DEF IngestEvidence, Bystander
<1>9. ASSUME NEW s \in Scopes
      PROVE  /\ IngestConflictingFact(s) => Bystander
             /\ IngestCorrection(s) => Bystander
    BY DEF IngestConflictingFact, IngestCorrection, Bystander
<1>10. UNCHANGED journalVars => Bystander
    BY DEF journalVars, Bystander
<1>11. CASE LeaseStep
    BY <1>1, <1>2, <1>11 DEF LeaseStep
<1>12. CASE IntentStep
    BY <1>3, <1>4, <1>5, <1>12 DEF IntentStep
<1>13. CASE RecordStep
    BY <1>6, <1>13 DEF RecordStep
<1>14. CASE HaltStep
    BY <1>7, <1>14 DEF HaltStep
<1>15. CASE FactStep
    BY <1>8, <1>9, <1>15 DEF FactStep
<1> QED
    BY <1>10, <1>11, <1>12, <1>13, <1>14, <1>15 DEF JournalNext

OrderInv == AttemptsOwned /\ ResultsFollowAttempts

\* An attempt row is written once, for the client order id its intent owns, and
\* an intent keeps the client order id it was given.
LEMMA AttemptsOwnedStep ==
    ASSUME TypeOK, TypeOK', AttemptsOwned, [JournalNext]_journalVars
    PROVE  AttemptsOwned'
<1>1. CASE Bystander
    BY <1>1 DEF Bystander, AttemptsOwned
<1>2. ASSUME NEW r \in Runs, AcquireFreeLease(r) \/ TakeOverLease(r)
      PROVE  AttemptsOwned'
    BY <1>2 DEF AcquireFreeLease, TakeOverLease, AttemptsOwned
<1>3. ASSUME NEW g \in 1 .. Len(grants), NEW i \in Intents, NEW c \in ClientIds,
             PrepareOwnedIntent(g, i, c)
      PROVE  AttemptsOwned'
  <2> SUFFICES ASSUME NEW a \in AttemptIds, attempt[a] # None
               PROVE  owned'[attempt[a].intent] = attempt[a].client
    BY <1>3 DEF PrepareOwnedIntent, AttemptsOwned
  <2>1. attempt[a] \in Attempt
    BY DEF TypeOK
  <2>2. owned[attempt[a].intent] = attempt[a].client /\ attempt[a].client # None
    BY <2>1, NoneAssumption DEF AttemptsOwned, Attempt
  <2>3. attempt[a].intent # i
    BY <1>3, <2>2 DEF PrepareOwnedIntent, GatesOpen
  <2> QED
    BY <1>3, <2>2, <2>3 DEF PrepareOwnedIntent, TypeOK
<1>4. ASSUME NEW g \in 1 .. Len(grants), NEW a \in AttemptIds,
             NEW row \in Attempt, AppendAttempt(g, a, row)
      PROVE  AttemptsOwned'
    BY <1>4 DEF AppendAttempt, AttemptsOwned, TypeOK
<1>5. ASSUME NEW g \in 1 .. Len(grants), NEW a \in AttemptIds,
             \/ \E o \in Orders : BindIdentity(g, a, o)
             \/ \E verdict \in Verdict : AppendReconciliation(g, a, verdict)
      PROVE  AttemptsOwned'
    BY <1>5 DEF BindIdentity, AppendReconciliation, AttemptsOwned
<1>6. ASSUME NEW g \in 1 .. Len(grants), NEW s \in Scopes,
             ClearHalt(g, s, ClearanceEvidence(s))
      PROVE  AttemptsOwned'
    BY <1>6 DEF ClearHalt, AttemptsOwned
<1> QED
    BY <1>1, <1>2, <1>3, <1>4, <1>5, <1>6, StepKinds

\* A result is recorded for an attempt's own intent and order, and the order an
\* attempt stands for is known once and for all when it becomes known.
LEMMA ResultsFollowAttemptsStep ==
    ASSUME TypeOK, TypeOK', OrderInv, [JournalNext]_journalVars
    PROVE  ResultsFollowAttempts'
<1>1. CASE Bystander
    BY <1>1 DEF Bystander, OrderInv, ResultsFollowAttempts, EffectiveOrder
<1>2. ASSUME NEW r \in Runs, AcquireFreeLease(r) \/ TakeOverLease(r)
      PROVE  ResultsFollowAttempts'
    BY <1>2 DEF AcquireFreeLease, TakeOverLease, OrderInv, ResultsFollowAttempts,
                EffectiveOrder
<1>3. ASSUME NEW g \in 1 .. Len(grants), NEW i \in Intents, NEW c \in ClientIds,
             PrepareOwnedIntent(g, i, c)
      PROVE  ResultsFollowAttempts'
  <2> SUFFICES ASSUME NEW j \in Intents, latest[j].status # "none"
               PROVE  attempt[latest[j].attempt].client = owned'[j]
    BY <1>3 DEF PrepareOwnedIntent, OrderInv, ResultsFollowAttempts, EffectiveOrder
  <2>1. /\ attempt[latest[j].attempt] \in Attempt
        /\ attempt[latest[j].attempt].client = owned[j]
    BY DEF OrderInv, ResultsFollowAttempts, TypeOK
  <2>2. owned[j] # None
    BY <2>1, NoneAssumption DEF Attempt
  <2>3. j # i
    BY <1>3, <2>2 DEF PrepareOwnedIntent, GatesOpen, TypeOK
  <2> QED
    BY <1>3, <2>3 DEF PrepareOwnedIntent, OrderInv, ResultsFollowAttempts, TypeOK
<1>4. ASSUME NEW g \in 1 .. Len(grants), NEW a \in AttemptIds,
             NEW row \in Attempt, AppendAttempt(g, a, row)
      PROVE  ResultsFollowAttempts'
    BY <1>4 DEF AppendAttempt, OrderInv, ResultsFollowAttempts, EffectiveOrder, TypeOK
<1>5. ASSUME NEW g \in 1 .. Len(grants), NEW a \in AttemptIds,
             NEW o \in Orders, BindIdentity(g, a, o)
      PROVE  ResultsFollowAttempts'
    BY <1>5, NoneAssumption
    DEF BindIdentity, OrderInv, ResultsFollowAttempts, EffectiveOrder, TypeOK
<1>6. ASSUME NEW g \in 1 .. Len(grants), NEW a \in AttemptIds,
             NEW verdict \in Verdict, AppendReconciliation(g, a, verdict)
      PROVE  ResultsFollowAttempts'
    BY <1>6, NoneAssumption
    DEF AppendReconciliation, OrderMatches, OrderInv, ResultsFollowAttempts,
        AttemptsOwned, EffectiveOrder, Verdict, TypeOK
<1>7. ASSUME NEW g \in 1 .. Len(grants), NEW s \in Scopes,
             ClearHalt(g, s, ClearanceEvidence(s))
      PROVE  ResultsFollowAttempts'
    BY <1>7 DEF ClearHalt, OrderInv, ResultsFollowAttempts, EffectiveOrder
<1> QED
    BY <1>1, <1>2, <1>3, <1>4, <1>5, <1>6, <1>7, StepKinds

\* Attempts and results agree on intents, client order ids and exchange orders.
THEOREM ResultsFollow == JournalSpec => []ResultsFollowAttempts
<1>1. JournalInit => OrderInv
    BY NoneAssumption
    DEF JournalInit, OrderInv, AttemptsOwned, ResultsFollowAttempts, NoResult
<1>2. TypeOK /\ TypeOK' /\ OrderInv /\ [JournalNext]_journalVars => OrderInv'
    BY AttemptsOwnedStep, ResultsFollowAttemptsStep DEF OrderInv
<1>3. OrderInv => ResultsFollowAttempts
    BY DEF OrderInv
<1> QED
    BY <1>1, <1>2, <1>3, TypeCorrect, PTL DEF JournalSpec

-----------------------------------------------------------------------------
\* HALT, takeover and clearance

\* A lease demands reconciliation only while HALT is up: the takeover raises
\* both, the clearance lowers both, a first grant demands nothing.
LEMMA TakeoverFencedStep ==
    ASSUME TypeOK, TakeoverFenced, [JournalNext]_journalVars
    PROVE  TakeoverFenced'
<1>1. CASE Bystander
  <2>1. RaiseHaltRow => TakeoverFenced'
    BY DEF RaiseHaltRow, TakeoverFenced
  <2>2. (lease' # None /\ lease'.recon) => lease # None /\ lease.recon
    BY <1>1 DEF Bystander, TypeOK, Lease
  <2> QED
    BY <1>1, <2>1, <2>2 DEF Bystander, TakeoverFenced
<1>2. ASSUME NEW r \in Runs, AcquireFreeLease(r) \/ TakeOverLease(r)
      PROVE  TakeoverFenced'
    BY <1>2 DEF AcquireFreeLease, TakeOverLease, RaiseHaltRow, TakeoverFenced
<1>3. ASSUME NEW g \in 1 .. Len(grants), NEW i \in Intents, NEW c \in ClientIds,
             PrepareOwnedIntent(g, i, c)
      PROVE  TakeoverFenced'
    BY <1>3 DEF PrepareOwnedIntent, TakeoverFenced
<1>4. ASSUME NEW g \in 1 .. Len(grants), NEW a \in AttemptIds,
             \/ \E row \in Attempt : AppendAttempt(g, a, row)
             \/ \E o \in Orders : BindIdentity(g, a, o)
      PROVE  TakeoverFenced'
    BY <1>4 DEF AppendAttempt, BindIdentity, TakeoverFenced
<1>5. ASSUME NEW g \in 1 .. Len(grants), NEW a \in AttemptIds,
             NEW verdict \in Verdict, AppendReconciliation(g, a, verdict)
      PROVE  TakeoverFenced'
  <2>1. lease' = lease /\ (RaiseHaltRow \/ UNCHANGED halt)
    BY <1>5 DEF AppendReconciliation
  <2> QED
    BY <2>1 DEF RaiseHaltRow, TakeoverFenced
<1>6. ASSUME NEW g \in 1 .. Len(grants), NEW s \in Scopes,
             ClearHalt(g, s, ClearanceEvidence(s))
      PROVE  TakeoverFenced'
    BY <1>6 DEF ClearHalt, ClearanceAccepted, LeaseAfterClearance, Authoritative,
                TakeoverFenced, TypeOK, Lease
<1> QED
    BY <1>1, <1>2, <1>3, <1>4, <1>5, <1>6, StepKinds

\* HALT and the lease's demand for reconciliation move together.
THEOREM TakeoversAreFenced == JournalSpec => []TakeoverFenced
<1>1. JournalInit => TakeoverFenced
    BY DEF JournalInit, TakeoverFenced
<1> QED
    BY <1>1, TakeoverFencedStep, TypeCorrect, PTL DEF JournalSpec

\* The trader uses one category and one position mode per account: the account
\* lease and HALT then guard exactly the rows that a clearance inspects.
OneScope == \A s, t \in Scopes : s = t

\* A clearance in the account's only scope finds every owned intent final.
LEMMA ClearanceSettles ==
    ASSUME TypeOK, OneScope, NEW g \in 1 .. Len(grants), NEW s \in Scopes,
           ClearHalt(g, s, ClearanceEvidence(s)),
           NEW i \in Intents, owned[i] # None
    PROVE  latest[i].status \in Final
<1>1. ScopeOfIntent(i) = s
    BY MappingAssumption DEF OneScope, ScopeOfIntent
<1>2. Cleared(i)
    BY <1>1 DEF ClearHalt, ClearanceAccepted
<1> QED
    BY <1>2 DEF Cleared, Final

\* Only an owned intent has results.
LEMMA ResultsOwned ==
    ASSUME TypeOK, ResultsFollowAttempts, NEW i \in Intents, latest[i].status # "none"
    PROVE  owned[i] # None
<1>1. /\ attempt[latest[i].attempt] \in Attempt
      /\ attempt[latest[i].attempt].client = owned[i]
    BY DEF ResultsFollowAttempts, TypeOK
<1> QED
    BY <1>1, NoneAssumption DEF Attempt

\* A result that is not final puts HALT up; HALT falls when none is left.
LEMMA OpenGateStep ==
    ASSUME OneScope, TypeOK, TypeOK', ResultsFollowAttempts, OpenGateSettled,
           [JournalNext]_journalVars
    PROVE  OpenGateSettled'
<1>1. CASE Bystander
    BY <1>1 DEF Bystander, RaiseHaltRow, OpenGateSettled
<1>2. ASSUME NEW r \in Runs, AcquireFreeLease(r) \/ TakeOverLease(r)
      PROVE  OpenGateSettled'
    BY <1>2 DEF AcquireFreeLease, TakeOverLease, RaiseHaltRow, OpenGateSettled
<1>3. ASSUME NEW g \in 1 .. Len(grants), NEW i \in Intents, NEW c \in ClientIds,
             PrepareOwnedIntent(g, i, c)
      PROVE  OpenGateSettled'
    BY <1>3 DEF PrepareOwnedIntent, OpenGateSettled
<1>4. ASSUME NEW g \in 1 .. Len(grants), NEW a \in AttemptIds,
             \/ \E row \in Attempt : AppendAttempt(g, a, row)
             \/ \E o \in Orders : BindIdentity(g, a, o)
      PROVE  OpenGateSettled'
    BY <1>4 DEF AppendAttempt, BindIdentity, OpenGateSettled
<1>5. ASSUME NEW g \in 1 .. Len(grants), NEW a \in AttemptIds,
             NEW verdict \in Verdict, AppendReconciliation(g, a, verdict)
      PROVE  OpenGateSettled'
  <2>1. CASE RaisesHalt(verdict.status)
    <3>1. RaiseHaltRow
      BY <1>5, <2>1 DEF AppendReconciliation
    <3> QED
      BY <3>1 DEF RaiseHaltRow, OpenGateSettled
  <2>2. CASE ~RaisesHalt(verdict.status)
    <3>1. UNCHANGED halt
      BY <1>5, <2>2 DEF AppendReconciliation
    <3>2. verdict.status \in Final
      BY <2>2 DEF RaisesHalt, Verdict, Final
    <3>3. attempt[a].intent \in Intents
      BY <1>5 DEF AppendReconciliation, TypeOK, Attempt
    <3> QED
      BY <1>5, <3>1, <3>2, <3>3
      DEF AppendReconciliation, OpenGateSettled, TypeOK
  <2> QED
    BY <2>1, <2>2
<1>6. ASSUME NEW g \in 1 .. Len(grants), NEW s \in Scopes,
             ClearHalt(g, s, ClearanceEvidence(s))
      PROVE  OpenGateSettled'
  <2>1. latest' = latest
    BY <1>6 DEF ClearHalt
  <2> QED
    BY <1>6, <2>1, ClearanceSettles, ResultsOwned DEF OpenGateSettled
<1> QED
    BY <1>1, <1>2, <1>3, <1>4, <1>5, <1>6, StepKinds

\* While HALT is down every known order of the account is settled.
THEOREM OpenGateIsSettled ==
    ASSUME OneScope PROVE JournalSpec => []OpenGateSettled
<1>1. JournalInit => OpenGateSettled
    BY DEF JournalInit, OpenGateSettled, NoResult
<1>2. TypeOK /\ TypeOK' /\ ResultsFollowAttempts /\ OpenGateSettled
        /\ [JournalNext]_journalVars => OpenGateSettled'
    BY OpenGateStep
<1> QED
    BY <1>1, <1>2, TypeCorrect, ResultsFollow, PTL DEF JournalSpec

\* A takeover puts HALT up; while it is up an intent without a result cannot slip
\* through a clearance, and no intent is admitted.
LEMMA NoForgottenStep ==
    ASSUME OneScope, TypeOK, TypeOK', NoForgottenIntent,
           [JournalNext]_journalVars
    PROVE  NoForgottenIntent'
<1>1. CASE Bystander
    BY <1>1 DEF Bystander, RaiseHaltRow, NoForgottenIntent
<1>2. ASSUME NEW r \in Runs, AcquireFreeLease(r) PROVE NoForgottenIntent'
  <2>1. ASSUME NEW k \in 1 .. Len(grants'), grants'[k].takeover
        PROVE  k \in 1 .. Len(grants) /\ grants'[k] = grants[k]
    BY <1>2, <2>1 DEF AcquireFreeLease, TypeOK
  <2> QED
    BY <1>2, <2>1 DEF AcquireFreeLease, NoForgottenIntent
<1>3. ASSUME NEW r \in Runs, TakeOverLease(r) PROVE NoForgottenIntent'
    BY <1>3 DEF TakeOverLease, RaiseHaltRow, NoForgottenIntent
<1>4. ASSUME NEW g \in 1 .. Len(grants), NEW i \in Intents, NEW c \in ClientIds,
             PrepareOwnedIntent(g, i, c)
      PROVE  NoForgottenIntent'
  <2> SUFFICES ASSUME NEW j \in Intents, NEW k \in 1 .. Len(grants),
                      owned'[j] # None, grants[k].takeover, admitted'[j] < k,
                      ~halt.active
               PROVE  latest[j].status \in Final
    BY <1>4 DEF PrepareOwnedIntent, NoForgottenIntent
  <2>1. Len(grants) \in Nat
    BY DEF TypeOK
  <2>2. j # i
    BY <1>4, <2>1 DEF PrepareOwnedIntent, TypeOK
  <2> QED
    BY <1>4, <2>2 DEF PrepareOwnedIntent, NoForgottenIntent, TypeOK
<1>5. ASSUME NEW g \in 1 .. Len(grants), NEW a \in AttemptIds,
             \/ \E row \in Attempt : AppendAttempt(g, a, row)
             \/ \E o \in Orders : BindIdentity(g, a, o)
      PROVE  NoForgottenIntent'
    BY <1>5 DEF AppendAttempt, BindIdentity, NoForgottenIntent
<1>6. ASSUME NEW g \in 1 .. Len(grants), NEW a \in AttemptIds,
             NEW verdict \in Verdict, AppendReconciliation(g, a, verdict)
      PROVE  NoForgottenIntent'
  <2>1. CASE RaisesHalt(verdict.status)
    <3>1. RaiseHaltRow
      BY <1>6, <2>1 DEF AppendReconciliation
    <3> QED
      BY <3>1 DEF RaiseHaltRow, NoForgottenIntent
  <2>2. CASE ~RaisesHalt(verdict.status)
    <3>1. UNCHANGED halt
      BY <1>6, <2>2 DEF AppendReconciliation
    <3>2. verdict.status \in Final
      BY <2>2 DEF RaisesHalt, Verdict, Final
    <3>3. attempt[a].intent \in Intents
      BY <1>6 DEF AppendReconciliation, TypeOK, Attempt
    <3> QED
      BY <1>6, <3>1, <3>2, <3>3
      DEF AppendReconciliation, NoForgottenIntent, TypeOK
  <2> QED
    BY <2>1, <2>2
<1>7. ASSUME NEW g \in 1 .. Len(grants), NEW s \in Scopes,
             ClearHalt(g, s, ClearanceEvidence(s))
      PROVE  NoForgottenIntent'
  <2>1. UNCHANGED <<latest, owned, grants, admitted>>
    BY <1>7 DEF ClearHalt
  <2> QED
    BY <1>7, <2>1, ClearanceSettles DEF NoForgottenIntent
<1> QED
    BY <1>1, <1>2, <1>3, <1>4, <1>5, <1>6, <1>7, StepKinds

\* No takeover loses sight of an order intended before it.
THEOREM NothingForgotten ==
    ASSUME OneScope PROVE JournalSpec => []NoForgottenIntent
<1>1. JournalInit => NoForgottenIntent
    BY DEF JournalInit, NoForgottenIntent
<1>2. TypeOK /\ TypeOK' /\ NoForgottenIntent /\ [JournalNext]_journalVars
        => NoForgottenIntent'
    BY NoForgottenStep
<1> QED
    BY <1>1, <1>2, TypeCorrect, PTL DEF JournalSpec

-----------------------------------------------------------------------------
\* Late identity bindings

BoundAttemptsExist ==
    \A a \in AttemptIds : binding[a] # None => attempt[a] # None

\* A late binding takes an order that no other attempt of the scope has, for a
\* client order id that no other attempt was bound under.
LEMMA BindingsUniqueStep ==
    ASSUME TypeOK, BoundAttemptsExist, BindingsUnique, [JournalNext]_journalVars
    PROVE  BoundAttemptsExist' /\ BindingsUnique'
<1>1. CASE UNCHANGED <<attempt, binding>>
    BY <1>1 DEF BoundAttemptsExist, BindingsUnique, SameScope
<1>2. ASSUME NEW g \in 1 .. Len(grants), NEW a \in AttemptIds,
             NEW row \in Attempt, AppendAttempt(g, a, row)
      PROVE  BoundAttemptsExist' /\ BindingsUnique'
  <2>1. binding[a] = None
    BY <1>2 DEF AppendAttempt, BoundAttemptsExist
  <2>2. \A b \in AttemptIds : binding'[b] # None =>
            /\ binding'[b] = binding[b]
            /\ attempt'[b] = attempt[b]
    BY <1>2, <2>1 DEF AppendAttempt, TypeOK
  <2> QED
    BY <2>2 DEF BoundAttemptsExist, BindingsUnique, SameScope
<1>3. ASSUME NEW g \in 1 .. Len(grants), NEW a \in AttemptIds,
             NEW o \in Orders, BindIdentity(g, a, o)
      PROVE  BoundAttemptsExist' /\ BindingsUnique'
  <2>1. \A b \in AttemptIds \ {a} : binding'[b] = binding[b]
    BY <1>3 DEF BindIdentity, TypeOK
  <2>2. binding'[a] = o /\ attempt' = attempt /\ attempt[a] # None
    BY <1>3 DEF BindIdentity, TypeOK
  <2>3. \A b \in AttemptIds \ {a} :
            binding[b] # None /\ SameScope(a, b) =>
                binding[b] # o /\ attempt[b].client # attempt[a].client
    BY <1>3 DEF BindIdentity, BoundElsewhere, ClientBoundElsewhere
  <2> QED
    BY <2>1, <2>2, <2>3 DEF BoundAttemptsExist, BindingsUnique, SameScope
<1>4. ASSUME NEW g \in 1 .. Len(grants), NEW a \in AttemptIds,
             NEW verdict \in Verdict, AppendReconciliation(g, a, verdict)
      PROVE  UNCHANGED <<attempt, binding>>
    BY <1>4 DEF AppendReconciliation
<1>5. ASSUME NEW r \in Runs, AcquireFreeLease(r) \/ TakeOverLease(r)
      PROVE  UNCHANGED <<attempt, binding>>
    BY <1>5 DEF AcquireFreeLease, TakeOverLease
<1>6. ASSUME NEW g \in 1 .. Len(grants), NEW i \in Intents, NEW c \in ClientIds,
             PrepareOwnedIntent(g, i, c)
      PROVE  UNCHANGED <<attempt, binding>>
    BY <1>6 DEF PrepareOwnedIntent
<1>7. ASSUME NEW g \in 1 .. Len(grants), NEW s \in Scopes,
             ClearHalt(g, s, ClearanceEvidence(s))
      PROVE  UNCHANGED <<attempt, binding>>
    BY <1>7 DEF ClearHalt
<1>8. CASE Bystander
    BY <1>1, <1>8 DEF Bystander
<1> QED
    BY <1>1, <1>2, <1>3, <1>4, <1>5, <1>6, <1>7, <1>8, StepKinds

\* One exchange order is bound to one attempt, one client order id once.
THEOREM BindingsAreUnique == JournalSpec => []BindingsUnique
<1>1. JournalInit => BoundAttemptsExist /\ BindingsUnique
    BY DEF JournalInit, BoundAttemptsExist, BindingsUnique
<1> QED
    BY <1>1, BindingsUniqueStep, TypeCorrect, PTL DEF JournalSpec

\* Results, attempts and late bindings tell one story about exchange orders.
THEOREM OrdersTellOneStory == JournalSpec => []OneOrderStory
<1>1. ResultsFollowAttempts /\ BindingsUnique => OneOrderStory
    BY DEF OneOrderStory
<1> QED
    BY <1>1, ResultsFollow, BindingsAreUnique, PTL

-----------------------------------------------------------------------------
\* Accounting conflicts

\* Only a conflicting fact opens a dispute, and it raises HALT as it does.
LEMMA DisputeRaisesHalt ==
    ASSUME [JournalNext]_journalVars
    PROVE  disputed' \subseteq disputed \/ halt'.active
<1>1. CASE LeaseStep
    BY <1>1 DEF LeaseStep, AcquireFreeLease, TakeOverLease, ExpireLease,
                ReleaseLease
<1>2. CASE IntentStep
    BY <1>2 DEF IntentStep, PrepareLineage, ExpireApproval, PrepareOwnedIntent,
                ConflictingOwnedIntent
<1>3. CASE RecordStep
  <2>1. UNCHANGED disputed
    BY <1>3 DEF RecordStep, AppendAttempt, ConflictingAttempt, BindIdentity,
                ConflictingBinding, AppendReconciliation,
                ConflictingReconciliation
  <2> QED
    BY <2>1
<1>4. CASE HaltStep
    BY <1>4 DEF HaltStep, RaiseHalt, ClearHalt
<1>5. CASE FactStep
  <2>1. ASSUME NEW i \in Intents, NEW o \in Orders, IngestEvidence(i, o)
        PROVE  disputed' \subseteq disputed
    BY <2>1 DEF IngestEvidence
  <2>2. ASSUME NEW s \in Scopes, IngestConflictingFact(s) PROVE halt'.active
    BY <2>2 DEF IngestConflictingFact, RaiseHaltRow
  <2>3. ASSUME NEW s \in Scopes, IngestCorrection(s)
        PROVE  disputed' \subseteq disputed
    BY <2>3 DEF IngestCorrection
  <2> QED
    BY <1>5, <2>1, <2>2, <2>3 DEF FactStep
<1>6. CASE UNCHANGED journalVars
    BY <1>6 DEF journalVars
<1> QED
    BY <1>1, <1>2, <1>3, <1>4, <1>5, <1>6 DEF JournalNext

\* HALT falls in a clearance and nowhere else.
LEMMA OnlyClearanceReopens ==
    ASSUME [JournalNext]_journalVars, ~halt'.active, halt.active
    PROVE  \E g \in 1 .. Len(grants), s \in Scopes :
               ClearHalt(g, s, ClearanceEvidence(s))
<1>1. CASE Bystander
    BY <1>1 DEF Bystander, RaiseHaltRow
<1>2. ASSUME NEW r \in Runs, AcquireFreeLease(r) \/ TakeOverLease(r)
      PROVE  FALSE
    BY <1>2 DEF AcquireFreeLease, TakeOverLease, RaiseHaltRow
<1>3. ASSUME NEW g \in 1 .. Len(grants), NEW i \in Intents, NEW c \in ClientIds,
             PrepareOwnedIntent(g, i, c)
      PROVE  FALSE
    BY <1>3 DEF PrepareOwnedIntent
<1>4. ASSUME NEW g \in 1 .. Len(grants), NEW a \in AttemptIds,
             \/ \E row \in Attempt : AppendAttempt(g, a, row)
             \/ \E o \in Orders : BindIdentity(g, a, o)
      PROVE  FALSE
    BY <1>4 DEF AppendAttempt, BindIdentity
<1>5. ASSUME NEW g \in 1 .. Len(grants), NEW a \in AttemptIds,
             NEW verdict \in Verdict, AppendReconciliation(g, a, verdict)
      PROVE  FALSE
  <2>1. RaiseHaltRow \/ UNCHANGED halt
    BY <1>5 DEF AppendReconciliation
  <2> QED
    BY <2>1 DEF RaiseHaltRow
<1> QED
    BY <1>1, <1>2, <1>3, <1>4, <1>5, StepKinds

\* A clearance passes in an undisputed scope only, and it is the only one.
LEMMA OpenGateUndisputedStep ==
    ASSUME OneScope, TypeOK, OpenGateUndisputed, [JournalNext]_journalVars
    PROVE  OpenGateUndisputed'
<1> SUFFICES ASSUME ~halt'.active PROVE disputed' = {}
    BY DEF OpenGateUndisputed
<1>1. disputed' \subseteq disputed
    BY DisputeRaisesHalt
<1>2. ASSUME halt.active PROVE disputed = {}
  <2>1. PICK g \in 1 .. Len(grants), s \in Scopes :
            ClearHalt(g, s, ClearanceEvidence(s))
    BY <1>2, OnlyClearanceReopens
  <2>2. s \notin disputed
    BY <2>1 DEF ClearHalt, ClearanceAccepted, Uncontested
  <2> QED
    BY <2>2 DEF OneScope, TypeOK
<1> QED
    BY <1>1, <1>2 DEF OpenGateUndisputed

\* While HALT is down no accounting conflict waits for its correction.
THEOREM OpenGateIsUndisputed ==
    ASSUME OneScope PROVE JournalSpec => []OpenGateUndisputed
<1>1. JournalInit => OpenGateUndisputed
    BY DEF JournalInit, OpenGateUndisputed
<1>2. TypeOK /\ OpenGateUndisputed /\ [JournalNext]_journalVars
        => OpenGateUndisputed'
    BY OpenGateUndisputedStep
<1> QED
    BY <1>1, <1>2, TypeCorrect, PTL DEF JournalSpec

-----------------------------------------------------------------------------
\* The exposure gate, which the journal implements

\* A step that moves neither intents nor results shuts the gate or leaves it.
LEMMA BystanderShuts ==
    ASSUME UNCHANGED <<owned, latest>>, RaiseHaltRow \/ UNCHANGED halt
    PROVE  Gate!Shut \/ UNCHANGED <<GateState, Fates>>
<1>1. Fates' = Fates
    BY DEF Fates, FateOf
<1>2. CASE RaiseHaltRow
    BY <1>1, <1>2 DEF RaiseHaltRow, Gate!Shut, GateState
<1>3. CASE UNCHANGED halt
    BY <1>1, <1>3 DEF GateState
<1> QED
    BY <1>2, <1>3

\* A new owned intent passes the gate, which its transaction found open.
LEMMA IntentAdmits ==
    ASSUME TypeOK, ResultsFollowAttempts, NEW g \in 1 .. Len(grants), NEW i \in Intents,
           NEW c \in ClientIds, PrepareOwnedIntent(g, i, c)
    PROVE  Gate!Admit(i)
<1>1. owned[i] = None /\ ~halt.active /\ UNCHANGED <<halt, latest>>
    BY DEF PrepareOwnedIntent, GatesOpen
<1>2. latest[i].status = "none"
    BY <1>1, ResultsOwned
<1>3. owned' = [owned EXCEPT ![i] = c] /\ c # None
    BY NoneAssumption DEF PrepareOwnedIntent
<1>4. FateOf(i) = "none" /\ FateOf(i)' = "admitted"
    BY <1>1, <1>2, <1>3 DEF FateOf, TypeOK
<1>5. \A j \in Intents \ {i} : FateOf(j)' = FateOf(j)
    BY <1>1, <1>3 DEF FateOf, TypeOK
<1>6. Fates' = [Fates EXCEPT ![i] = "admitted"]
    BY <1>4, <1>5 DEF Fates
<1> QED
    BY <1>1, <1>4, <1>6 DEF Gate!Admit, GateState, Fates

\* A result settles the intent, or makes it doubtful and shuts the gate.
LEMMA ResultSettlesOrDoubts ==
    ASSUME TypeOK, AttemptsOwned, NEW g \in 1 .. Len(grants),
           NEW a \in AttemptIds, NEW verdict \in Verdict,
           AppendReconciliation(g, a, verdict)
    PROVE  \E i \in Intents : Gate!Settle(i) \/ Gate!Doubt(i)
<1>1. attempt[a] \in Attempt
    BY DEF AppendReconciliation, TypeOK
<1>2. PICK i \in Intents : i = attempt[a].intent /\ owned[i] # None
    BY <1>1, NoneAssumption DEF AttemptsOwned, Attempt, AppendReconciliation
<1>3. /\ UNCHANGED owned
      /\ latest' = [latest EXCEPT ![i] =
            [attempt |-> a, status |-> verdict.status, order |-> verdict.order,
             revision |-> latest[i].revision + 1]]
    BY <1>2 DEF AppendReconciliation
<1>4. latest'[i].status = verdict.status
    BY <1>2, <1>3 DEF TypeOK
<1>5. \A j \in Intents \ {i} : FateOf(j)' = FateOf(j)
    BY <1>3 DEF FateOf, TypeOK
<1>6. FateOf(i) # "none"
    BY <1>2 DEF FateOf
<1>7. CASE verdict.status \in Final
  <2>1. FateOf(i)' = "settled"
    BY <1>2, <1>3, <1>4, <1>7 DEF FateOf, Final
  <2>2. Fates' = [Fates EXCEPT ![i] = "settled"]
    BY <1>2, <1>5, <2>1 DEF Fates
  <2>3. UNCHANGED halt
    BY <1>7 DEF AppendReconciliation, RaisesHalt, Final
  <2>4. Gate!Settle(i)
    BY <1>2, <1>6, <2>2, <2>3 DEF Gate!Settle, GateState, Fates
  <2> QED
    BY <1>2, <2>4
<1>8. CASE verdict.status \notin Final
  <2>1. verdict.status # "none" /\ RaisesHalt(verdict.status)
    BY <1>8 DEF Verdict, Final, RaisesHalt
  <2>2. FateOf(i)' = "doubtful"
    BY <1>2, <1>3, <1>4, <1>8, <2>1 DEF FateOf
  <2>3. Fates' = [Fates EXCEPT ![i] = "doubtful"]
    BY <1>2, <1>5, <2>2 DEF Fates
  <2>4. RaiseHaltRow
    BY <2>1 DEF AppendReconciliation
  <2>5. Gate!Doubt(i)
    BY <1>2, <1>6, <2>3, <2>4 DEF Gate!Doubt, RaiseHaltRow, GateState, Fates
  <2> QED
    BY <1>2, <2>5
<1> QED
    BY <1>7, <1>8

\* A clearance reopens the gate over settled intents.
LEMMA ClearanceReopens ==
    ASSUME OneScope, TypeOK, NEW g \in 1 .. Len(grants), NEW s \in Scopes,
           ClearHalt(g, s, ClearanceEvidence(s))
    PROVE  Gate!Reopen
<1>1. halt.active /\ ~halt'.active /\ UNCHANGED <<owned, latest>>
    BY DEF ClearHalt, ClearanceAccepted
<1>2. ASSUME NEW i \in Intents PROVE FateOf(i) \in {"none", "settled"}
  <2>1. owned[i] # None => latest[i].status \in Final
    BY ClearanceSettles
  <2> QED
    BY <2>1 DEF FateOf, Final
<1>3. Fates' = Fates
    BY <1>1 DEF Fates, FateOf
<1> QED
    BY <1>1, <1>2, <1>3 DEF Gate!Reopen, GateState, Fates

\* Every step of the journal is a step of the gate or none.
LEMMA GateStep ==
    ASSUME OneScope, TypeOK, OrderInv, [JournalNext]_journalVars
    PROVE  [Gate!Next]_<<GateState, Fates>>
<1>1. CASE Bystander
  <2>1. UNCHANGED <<owned, latest>> /\ (RaiseHaltRow \/ UNCHANGED halt)
    BY <1>1 DEF Bystander
  <2> QED
    BY <2>1, BystanderShuts DEF Gate!Next
<1>2. ASSUME NEW r \in Runs, AcquireFreeLease(r) \/ TakeOverLease(r)
      PROVE  [Gate!Next]_<<GateState, Fates>>
  <2>1. UNCHANGED <<owned, latest>> /\ (RaiseHaltRow \/ UNCHANGED halt)
    BY <1>2 DEF AcquireFreeLease, TakeOverLease
  <2> QED
    BY <2>1, BystanderShuts DEF Gate!Next
<1>3. ASSUME NEW g \in 1 .. Len(grants), NEW i \in Intents, NEW c \in ClientIds,
             PrepareOwnedIntent(g, i, c)
      PROVE  [Gate!Next]_<<GateState, Fates>>
  <2>1. Gate!Admit(i)
    BY <1>3, IntentAdmits DEF OrderInv
  <2> QED
    BY <2>1 DEF Gate!Next
<1>4. ASSUME NEW g \in 1 .. Len(grants), NEW a \in AttemptIds,
             \/ \E row \in Attempt : AppendAttempt(g, a, row)
             \/ \E o \in Orders : BindIdentity(g, a, o)
      PROVE  [Gate!Next]_<<GateState, Fates>>
  <2>1. UNCHANGED <<owned, latest>> /\ UNCHANGED halt
    BY <1>4 DEF AppendAttempt, BindIdentity
  <2> QED
    BY <2>1, BystanderShuts DEF Gate!Next
<1>5. ASSUME NEW g \in 1 .. Len(grants), NEW a \in AttemptIds,
             NEW verdict \in Verdict, AppendReconciliation(g, a, verdict)
      PROVE  [Gate!Next]_<<GateState, Fates>>
    BY <1>5, ResultSettlesOrDoubts DEF OrderInv, Gate!Next
<1>6. ASSUME NEW g \in 1 .. Len(grants), NEW s \in Scopes,
             ClearHalt(g, s, ClearanceEvidence(s))
      PROVE  [Gate!Next]_<<GateState, Fates>>
    BY <1>6, ClearanceReopens DEF Gate!Next
<1> QED
    BY <1>1, <1>2, <1>3, <1>4, <1>5, <1>6, StepKinds

\* The journal implements the exposure gate: exposure is admitted through an
\* open gate only, bad news shut it in the same transaction, and only a
\* clearance over settled intents reopens it.
THEOREM JournalImplementsGate ==
    ASSUME OneScope PROVE JournalSpec => ImplementsGate
<1>1. JournalInit => Gate!Init
    BY DEF JournalInit, Gate!Init, GateState, Fates, FateOf
<1>2. JournalInit => OrderInv
    BY NoneAssumption
    DEF JournalInit, OrderInv, AttemptsOwned, ResultsFollowAttempts, NoResult
<1>3. TypeOK /\ TypeOK' /\ OrderInv /\ [JournalNext]_journalVars => OrderInv'
    BY AttemptsOwnedStep, ResultsFollowAttemptsStep DEF OrderInv
<1>4. TypeOK /\ OrderInv /\ [JournalNext]_journalVars
        => [Gate!Next]_<<GateState, Fates>>
    BY GateStep
<1> QED
    BY <1>1, <1>2, <1>3, <1>4, TypeCorrect, PTL
    DEF JournalSpec, ImplementsGate, Gate!Spec
=============================================================================
