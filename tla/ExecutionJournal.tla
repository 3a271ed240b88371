-------------------------- MODULE ExecutionJournal --------------------------
(***************************************************************************)
(* The durable execution journal of the trader: the SQLite store behind    *)
(* every order the program places (src/adapters/sqlite/execution-store.ts  *)
(* and sqlite-authority.ts).  It is the only state two runs of the program *)
(* share, and it carries the promises the rest of the system leans on: who *)
(* may write (the account lease and its epoch), whether anyone may add     *)
(* exposure (HALT), and what became of every order that was ever intended  *)
(* (intent, attempt, late identity binding, reconciliation results).       *)
(*                                                                         *)
(* Every store operation runs in one BEGIN IMMEDIATE transaction           *)
(* (transaction.ts), so an operation is one atomic step.  Operations that  *)
(* the store refuses without writing, and idempotent repeats that return   *)
(* the row they find, leave the state alone: they are stuttering steps.    *)
(*                                                                         *)
(* There is no clock.  `expires_at <= now` is an event that may happen at  *)
(* any moment after the grant (ExpireLease, ExpireApproval) and never      *)
(* reverts; a renewal, which only moves expires_at, is then invisible.     *)
(***************************************************************************)
EXTENDS Integers, Sequences

CONSTANTS
    Runs,         \* run ids: one per start of the program, or per input
    Scopes,       \* (category, positionMode) scopes of the one account
    Plans,        \* plan hashes; a lineage id is a function of the plan hash
    Intents,      \* order intents of the plans
    PlanOf,       \* the plan that contains an intent
    ScopeOf,      \* the scope a plan trades in
    ClientIds,    \* client order ids (orderLinkId at the exchange)
    AttemptIds,   \* execution attempt ids
    Orders,       \* exchange order ids
    None,         \* an absent row or column
    MaxGrants,    \* bound: lease grants
    MaxHalts,     \* bound: HALT revisions
    MaxResults    \* bound: reconciliation results of one intent

ASSUME MappingAssumption ==
    /\ PlanOf \in [Intents -> Plans]
    /\ ScopeOf \in [Plans -> Scopes]

ASSUME NoneAssumption ==
    /\ None \notin Runs
    /\ None \notin ClientIds
    /\ None \notin Intents
    /\ None \notin AttemptIds
    /\ None \notin Orders

ASSUME BoundAssumption ==
    /\ MaxGrants \in Nat
    /\ MaxHalts \in Nat
    /\ MaxResults \in Nat

VARIABLES
    lease,      \* the leases row of the account, or None
    halt,       \* the halt_state row of the account
    lineage,    \* the run that owns the lineage of a plan, or None
    live,       \* whether the approval of a plan is still inside its window
    owned,      \* the client order id of an owned intent, or None
    attempt,    \* execution_attempts rows by attempt id, or None
    binding,    \* late-bound exchange order of an attempt, or None
    latest,     \* the newest reconciliation result of an intent
    evidenced,  \* <<intent, order>> with complete accounting and protection facts
    disputed,   \* the scopes with an accounting conflict nothing has corrected
    grants,     \* history: every lease grant, in order
    admitted    \* history: how many grants there were when an intent was admitted

journalVars == <<lease, halt, lineage, live, owned, attempt, binding, latest,
                 evidenced, disputed, grants, admitted>>

-----------------------------------------------------------------------------
\* Rows

Epoch == Nat \ {0}
Lease == [owner : Runs, epoch : Epoch, expired : BOOLEAN, recon : BOOLEAN]
Grant == [owner : Runs, epoch : Epoch, takeover : BOOLEAN]
Attempt == [intent : Intents, client : ClientIds, order : Orders \cup {None}]

ASSUME LeaseAssumption == None \notin Lease

\* The five statuses of a ReconciliationResult, and which of them are final.
Status == {"RECONCILED", "FAILED", "PARTIAL", "PENDING", "UNRESOLVED"}
Final == {"RECONCILED", "FAILED"}

Result == [attempt : AttemptIds \cup {None}, status : Status \cup {"none"},
           order : Orders \cup {None}, revision : Nat]
NoResult == [attempt |-> None, status |-> "none", order |-> None,
             revision |-> 0]

\* A reconciliation result as the domain produces it: a status that rests on
\* exchange evidence names the exchange order, the other two may.
Verdict == [status : {"RECONCILED", "PENDING", "PARTIAL"}, order : Orders]
           \cup [status : {"FAILED", "UNRESOLVED"}, order : Orders \cup {None}]

ScopeOfIntent(i) == ScopeOf[PlanOf[i]]

TypeOK ==
    /\ lease = None \/ lease \in Lease
    /\ halt \in [active : BOOLEAN, revision : Nat]
    /\ lineage \in [Plans -> Runs \cup {None}]
    /\ live \in [Plans -> BOOLEAN]
    /\ owned \in [Intents -> ClientIds \cup {None}]
    /\ attempt \in [AttemptIds -> Attempt \cup {None}]
    /\ binding \in [AttemptIds -> Orders \cup {None}]
    /\ latest \in [Intents -> Result]
    /\ evidenced \subseteq Intents \X Orders
    /\ disputed \subseteq Scopes
    /\ grants \in Seq(Grant)
    /\ admitted \in [Intents -> Nat]

JournalInit ==
    /\ lease = None
    /\ halt = [active |-> FALSE, revision |-> 0]
    /\ lineage = [p \in Plans |-> None]
    /\ live = [p \in Plans |-> TRUE]
    /\ owned = [i \in Intents |-> None]
    /\ attempt = [a \in AttemptIds |-> None]
    /\ binding = [a \in AttemptIds |-> None]
    /\ latest = [i \in Intents |-> NoResult]
    /\ evidenced = {}
    /\ disputed = {}
    /\ grants = <<>>
    /\ admitted = [i \in Intents |-> 0]

-----------------------------------------------------------------------------
\* Authority: assertCurrentAuthorityWithinTransaction compares owner, epoch and
\* expiry of the one lease row of the account.  A run presents the authority of
\* one of its grants, g.

Authoritative(g) ==
    /\ g \in 1 .. Len(grants)
    /\ lease # None
    /\ ~lease.expired
    /\ lease.owner = grants[g].owner
    /\ lease.epoch = grants[g].epoch

\* A variant of RaiseHaltRow that moves the revision of the row and no more.
RaiseRevision ==
    /\ halt.revision < MaxHalts
    /\ halt' = [halt EXCEPT !.revision = @ + 1]

\* raiseHaltWithinTransaction: the row is raised and its revision moves, also
\* when it was active already.
RaiseHaltRow ==
    /\ halt.revision < MaxHalts
    /\ halt' = [active |-> TRUE, revision |-> halt.revision + 1]

-----------------------------------------------------------------------------
\* The account lease

FirstEpoch == 1

\* acquireLease without a row: the first epoch, no reconciliation demanded.
AcquireFreeLease(r) ==
    /\ lease = None
    /\ Len(grants) < MaxGrants
    /\ lease' = [owner |-> r, epoch |-> FirstEpoch, expired |-> FALSE,
                 recon |-> FALSE]
    /\ grants' = Append(grants, [owner |-> r, epoch |-> FirstEpoch,
                                 takeover |-> FALSE])
    /\ UNCHANGED <<halt, lineage, live, owned, attempt, binding, latest,
                   evidenced, disputed, admitted>>

\* acquireLease over an expired row: the next epoch, reconciliation demanded,
\* HALT raised in the same transaction.  An unexpired row is never taken over.
TakeOverLease(r) ==
    /\ lease # None
    /\ lease.expired
    /\ Len(grants) < MaxGrants
    /\ lease' = [owner |-> r, epoch |-> lease.epoch + 1, expired |-> FALSE,
                 recon |-> TRUE]
    /\ grants' = Append(grants, [owner |-> r, epoch |-> lease.epoch + 1,
                                 takeover |-> TRUE])
    /\ RaiseHaltRow
    /\ UNCHANGED <<lineage, live, owned, attempt, binding, latest,
                   evidenced, disputed, admitted>>

\* The lease's expires_at passes.
ExpireLease ==
    /\ lease # None
    /\ ~lease.expired
    /\ lease' = [lease EXCEPT !.expired = TRUE]
    /\ UNCHANGED <<halt, lineage, live, owned, attempt, binding, latest,
                   evidenced, disputed, grants, admitted>>

\* releaseLease deletes the row; a lease that demands reconciliation stays.
ReleaseLease(g) ==
    /\ Authoritative(g)
    /\ ~lease.recon
    /\ lease' = None
    /\ UNCHANGED <<halt, lineage, live, owned, attempt, binding, latest,
                   evidenced, disputed, grants, admitted>>

-----------------------------------------------------------------------------
\* Lineage and owned intents

\* prepareLineage takes no lease: the first run to commit a plan hash owns its
\* lineage, any other run gets DUPLICATE_LINEAGE.  The approval is checked
\* against the caller's preparedAt, not against the store's clock.
PrepareLineage(p, r) ==
    /\ lineage[p] = None
    /\ lineage' = [lineage EXCEPT ![p] = r]
    /\ UNCHANGED <<lease, halt, live, owned, attempt, binding, latest,
                   evidenced, disputed, grants, admitted>>

\* The approval's expires_at passes.
ExpireApproval(p) ==
    /\ live[p]
    /\ live' = [live EXCEPT ![p] = FALSE]
    /\ UNCHANGED <<lease, halt, lineage, owned, attempt, binding, latest,
                   evidenced, disputed, grants, admitted>>

OwnsLineage(g, i) ==
    /\ Authoritative(g)
    /\ lineage[PlanOf[i]] = grants[g].owner

\* The gates of a new owned intent, in the order of the code: no row yet, HALT,
\* a takeover still to be reconciled, the approval at the store's own clock.
GatesOpen(i) ==
    /\ owned[i] = None
    /\ ~halt.active
    /\ ~lease.recon
    /\ live[PlanOf[i]]

ClientTaken(i, c) ==
    \E j \in Intents : ScopeOfIntent(j) = ScopeOfIntent(i) /\ owned[j] = c

\* prepareOwnedIntent: the write-ahead record of an order that may be sent.
PrepareOwnedIntent(g, i, c) ==
    /\ OwnsLineage(g, i)
    /\ GatesOpen(i)
    /\ ~ClientTaken(i, c)
    /\ owned' = [owned EXCEPT ![i] = c]
    /\ admitted' = [admitted EXCEPT ![i] = Len(grants)]
    /\ UNCHANGED <<lease, halt, lineage, live, attempt, binding, latest,
                   evidenced, disputed, grants>>

\* prepareOwnedIntent under a second identity: the intent is committed with
\* another client order id, or the client order id with another intent.
ConflictingOwnedIntent(g, i, c) ==
    /\ OwnsLineage(g, i)
    /\ \/ owned[i] \notin {None, c}
       \/ GatesOpen(i) /\ ClientTaken(i, c)
    /\ RaiseHaltRow
    /\ UNCHANGED <<lease, lineage, live, owned, attempt, binding, latest,
                   evidenced, disputed, grants, admitted>>

-----------------------------------------------------------------------------
\* Attempts and late identity bindings

\* appendAttempt: any current authority may append to any lineage, so that a
\* takeover can complete the history of the run it replaces.  The submission
\* time is the caller's and only has to lie inside the approval's window.
AppendAttempt(g, a, row) ==
    /\ Authoritative(g)
    /\ lineage[PlanOf[row.intent]] # None
    /\ attempt[a] = None
    /\ owned[row.intent] = row.client
    /\ attempt' = [attempt EXCEPT ![a] = row]
    /\ UNCHANGED <<lease, halt, lineage, live, owned, binding, latest,
                   evidenced, disputed, grants, admitted>>

ConflictingAttempt(g, a, row) ==
    /\ Authoritative(g)
    /\ lineage[PlanOf[row.intent]] # None
    /\ attempt[a] \notin {None, row}
    /\ RaiseHaltRow
    /\ UNCHANGED <<lease, lineage, live, owned, attempt, binding, latest,
                   evidenced, disputed, grants, admitted>>

SameScope(a, b) ==
    ScopeOfIntent(attempt[a].intent) = ScopeOfIntent(attempt[b].intent)

\* A variant of BoundElsewhere that looks at the bindings of one intent only.
BoundToSameIntent(a, o) ==
    \E b \in AttemptIds \ {a} :
        binding[b] = o /\ attempt[a].intent = attempt[b].intent

BoundElsewhere(a, o) ==
    \E b \in AttemptIds \ {a} : binding[b] = o /\ SameScope(a, b)

\* The unique index on the client order id of execution_identity_bindings: a
\* second binding for the same client order rolls the transaction back.
ClientBoundElsewhere(a) ==
    \E b \in AttemptIds \ {a} :
        /\ binding[b] # None
        /\ SameScope(a, b)
        /\ attempt[b].client = attempt[a].client

\* appendIdentityBinding with one candidate that matches the committed attempt.
BindIdentity(g, a, o) ==
    /\ Authoritative(g)
    /\ attempt[a] # None
    /\ binding[a] = None
    /\ attempt[a].order \in {None, o}
    /\ ~BoundElsewhere(a, o)
    /\ ~ClientBoundElsewhere(a)
    /\ binding' = [binding EXCEPT ![a] = o]
    /\ UNCHANGED <<lease, halt, lineage, live, owned, attempt, latest,
                   evidenced, disputed, grants, admitted>>

\* appendIdentityBinding with candidates that contradict a committed binding,
\* each other, or another attempt's binding.
ConflictingBinding(g, a, candidates) ==
    /\ Authoritative(g)
    /\ attempt[a] # None
    /\ \/ binding[a] # None /\ candidates \notin {{}, {binding[a]}}
       \/ binding[a] = None /\ \E o, p \in candidates : o # p
       \/ /\ binding[a] = None
          /\ \E o \in Orders : /\ candidates = {o}
                               /\ attempt[a].order \in {None, o}
                               /\ BoundElsewhere(a, o)
    /\ RaiseHaltRow
    /\ UNCHANGED <<lease, lineage, live, owned, attempt, binding, latest,
                   evidenced, disputed, grants, admitted>>

-----------------------------------------------------------------------------
\* Reconciliation results

\* The exchange order an attempt stands for: its own, else the late-bound one.
EffectiveOrder(a) ==
    IF attempt[a].order # None THEN attempt[a].order ELSE binding[a]

\* A variant of OrderMatches without the comparison.
AnyOrderMatches(a, verdict) == TRUE

OrderMatches(a, verdict) == verdict.order \in {None, EffectiveOrder(a)}

\* A variant of RaisesHalt that takes a partial fill for a final state.
RaisesHaltOnDoubt(status) == status \in {"PENDING", "UNRESOLVED"}

RaisesHalt(status) == status \in {"PENDING", "PARTIAL", "UNRESOLVED"}

\* appendReconciliation: a new revision becomes the intent's latest result, and
\* a result that is not final raises HALT in the same transaction.  A result
\* whose bytes are already recorded is returned as it is and changes nothing.
AppendReconciliation(g, a, verdict) ==
    /\ Authoritative(g)
    /\ attempt[a] # None
    /\ OrderMatches(a, verdict)
    /\ LET i == attempt[a].intent IN
       /\ latest[i].revision < MaxResults
       /\ latest' = [latest EXCEPT ![i] =
             [attempt |-> a, status |-> verdict.status, order |-> verdict.order,
              revision |-> latest[i].revision + 1]]
    /\ IF RaisesHalt(verdict.status) THEN RaiseHaltRow ELSE UNCHANGED halt
    /\ UNCHANGED <<lease, lineage, live, owned, attempt, binding,
                   evidenced, disputed, grants, admitted>>

\* A result for another order than the attempt's, or for another owner.
ConflictingReconciliation(g, a, verdict) ==
    /\ Authoritative(g)
    /\ attempt[a] # None
    /\ ~OrderMatches(a, verdict)
    /\ RaiseHaltRow
    /\ UNCHANGED <<lease, lineage, live, owned, attempt, binding, latest,
                   evidenced, disputed, grants, admitted>>

-----------------------------------------------------------------------------
\* HALT

\* raiseHalt, by the holder of the lease.
RaiseHalt(g) ==
    /\ Authoritative(g)
    /\ RaiseHaltRow
    /\ UNCHANGED <<lease, lineage, live, owned, attempt, binding, latest,
                   evidenced, disputed, grants, admitted>>

\* What a clearance request was built from: the HALT revision its author read,
\* and how many lineages and results the scope had.  The rows are never
\* deleted, so the counts match exactly when the sets of rows do.
ClearanceEvidence(s) ==
    [halt     |-> halt.revision,
     lineages |-> {p \in Plans : ScopeOf[p] = s /\ lineage[p] # None},
     results  |-> [i \in Intents |->
                     IF ScopeOfIntent(i) = s THEN latest[i].revision ELSE 0]]

\* A variant of Cleared that refuses bad results instead of demanding good ones.
ClearedUnlessOpen(i) == ~RaisesHalt(latest[i].status)

\* An owned intent no longer stands in the way of clearance: it failed, or it
\* was filled and the facts that account for it are durable.
Cleared(i) ==
    \/ latest[i].status = "FAILED"
    \/ latest[i].status = "RECONCILED" /\ <<i, latest[i].order>> \in evidenced

\* A variant of LeaseAfterClearance that leaves the lease as it is.
LeaseKept == lease

LeaseAfterClearance == [lease EXCEPT !.recon = FALSE]

\* A variant of Uncontested that forgets the accounting conflicts.
AlwaysUncontested(s) == TRUE

Uncontested(s) == s \notin disputed

\* clearHalt inspects the scope of the caller's store and no other.
ClearanceAccepted(g, s, evidence) ==
    /\ Authoritative(g)
    /\ halt.active
    /\ evidence = ClearanceEvidence(s)
    /\ Uncontested(s)
    /\ \A i \in Intents :
          ScopeOfIntent(i) = s /\ owned[i] # None => Cleared(i)

ClearHalt(g, s, evidence) ==
    /\ ClearanceAccepted(g, s, evidence)
    /\ halt.revision < MaxHalts
    /\ halt' = [active |-> FALSE, revision |-> halt.revision + 1]
    /\ lease' = LeaseAfterClearance
    /\ UNCHANGED <<lineage, live, owned, attempt, binding, latest,
                   evidenced, disputed, grants, admitted>>

-----------------------------------------------------------------------------
\* Accounting facts, which no lease guards

\* The last of the facts that account for a filled order becomes durable.
IngestEvidence(i, o) ==
    /\ evidenced' = evidenced \cup {<<i, o>>}
    /\ UNCHANGED <<lease, halt, lineage, live, owned, attempt, binding, latest,
                   disputed, grants, admitted>>

\* A fact arrives with the identity of a stored one and other bytes: HALT is
\* raised, also when that conflict is known or was corrected beforehand.
IngestConflictingFact(s) ==
    /\ disputed' \in {disputed, disputed \cup {s}}
    /\ RaiseHaltRow
    /\ UNCHANGED <<lease, lineage, live, owned, attempt, binding, latest,
                   evidenced, grants, admitted>>

\* A correction fact linked to the original resolves the last open conflict.
IngestCorrection(s) ==
    /\ s \in disputed
    /\ disputed' = disputed \ {s}
    /\ UNCHANGED <<lease, halt, lineage, live, owned, attempt, binding, latest,
                   evidenced, grants, admitted>>

-----------------------------------------------------------------------------
LeaseStep ==
    \/ \E r \in Runs : AcquireFreeLease(r) \/ TakeOverLease(r)
    \/ ExpireLease
    \/ \E g \in 1 .. Len(grants) : ReleaseLease(g)

IntentStep ==
    \/ \E p \in Plans, r \in Runs : PrepareLineage(p, r)
    \/ \E p \in Plans : ExpireApproval(p)
    \/ \E g \in 1 .. Len(grants), i \in Intents, c \in ClientIds :
          PrepareOwnedIntent(g, i, c) \/ ConflictingOwnedIntent(g, i, c)

RecordStep ==
    \E g \in 1 .. Len(grants), a \in AttemptIds :
        \/ \E row \in Attempt : AppendAttempt(g, a, row)
                                \/ ConflictingAttempt(g, a, row)
        \/ \E o \in Orders : BindIdentity(g, a, o)
        \/ \E candidates \in SUBSET Orders : ConflictingBinding(g, a, candidates)
        \/ \E verdict \in Verdict : AppendReconciliation(g, a, verdict)
                                    \/ ConflictingReconciliation(g, a, verdict)

HaltStep ==
    \E g \in 1 .. Len(grants) :
        \/ RaiseHalt(g)
        \/ \E s \in Scopes : ClearHalt(g, s, ClearanceEvidence(s))

FactStep ==
    \/ \E i \in Intents, o \in Orders : IngestEvidence(i, o)
    \/ \E s \in Scopes : IngestConflictingFact(s) \/ IngestCorrection(s)

JournalNext == LeaseStep \/ IntentStep \/ RecordStep \/ HaltStep \/ FactStep

JournalSpec == JournalInit /\ [][JournalNext]_journalVars

-----------------------------------------------------------------------------
\* Correctness

\* While HALT is down, no order in the account is known to be open, partly
\* filled or of unknown fate: the latest result of every intent is final
\* ("Pending, open or partial owned state keeps HALT active",
\* docs/operator-runbook.md).  It takes results, takeovers, conflicts and
\* clearances by several runs to go wrong.
OpenGateSettled ==
    ~halt.active =>
        \A i \in Intents : latest[i].status \in Final \cup {"none"}

\* While HALT is down every accounting conflict has its correction.  Facts are
\* ingested without a lease, at any moment of a clearance.
OpenGateUndisputed == ~halt.active => disputed = {}

\* Once a takeover has happened after an intent was admitted, HALT is down only
\* if that intent has a final result.  An intent whose run crashed before it
\* recorded anything has no result at all: a takeover may not forget it.
NoForgottenIntent ==
    \A i \in Intents, k \in 1 .. Len(grants) :
        /\ owned[i] # None
        /\ grants[k].takeover
        /\ admitted[i] < k
        /\ ~halt.active
        => latest[i].status \in Final

\* The lease demands reconciliation only while HALT is up, so one clearance
\* lifts both or neither: no holder is left able to release but not to trade,
\* or to trade but not to release.
TakeoverFenced == (lease # None /\ lease.recon) => halt.active

\* The latest result of an intent belongs to an attempt of that intent, under the
\* intent's own client order id, and names no order but that attempt's.
ResultsFollowAttempts ==
    \A i \in Intents : latest[i].status # "none" =>
        /\ latest[i].attempt \in AttemptIds
        /\ attempt[latest[i].attempt] # None
        /\ attempt[latest[i].attempt].intent = i
        /\ attempt[latest[i].attempt].client = owned[i]
        /\ latest[i].order \in {None, EffectiveOrder(latest[i].attempt)}
        /\ latest[i].status = "RECONCILED" => latest[i].order # None

\* A filled order with durable facts stays attributed: an exchange order bound
\* late belongs to one attempt, and one client order to one binding, per scope.
BindingsUnique ==
    \A a, b \in AttemptIds :
        /\ a # b
        /\ binding[a] # None
        /\ binding[b] # None
        /\ SameScope(a, b)
        => /\ binding[a] # binding[b]
           /\ attempt[a].client # attempt[b].client

\* Results, attempts and late bindings tell one story about exchange orders: a
\* result is of the order of its own attempt, and no order is of two attempts, so
\* that one fill never settles two intents (appendIdentityBinding).
OneOrderStory == ResultsFollowAttempts /\ BindingsUnique

-----------------------------------------------------------------------------
\* The journal as an exposure gate

\* What the journal knows of an intent.
FateOf(i) ==
    IF owned[i] = None THEN "none"
    ELSE IF latest[i].status = "none" THEN "admitted"
    ELSE IF latest[i].status \in Final THEN "settled"
    ELSE "doubtful"

GateState == IF halt.active THEN "shut" ELSE "open"

Fates == [i \in Intents |-> FateOf(i)]

Gate == INSTANCE ExposureGate WITH gate <- GateState, fate <- Fates

\* The journal implements the exposure gate: whatever a run does, alone or
\* against another, maps to admitting, settling, doubting, shutting, reopening
\* or nothing.  Exposure is admitted through an open gate only, bad news and the
\* shut gate are one step, and the gate reopens only over settled intents.
ImplementsGate == Gate!Spec
=============================================================================
