-------------------------- MODULE PreparedLegStore --------------------------
(***************************************************************************)
(* The store of Mainnet prepared legs                                      *)
(* (src/adapters/sqlite/prepared-leg-store.ts): the write-ahead create and *)
(* cancel intents of the legs of an approved grid, the one attempt of each *)
(* intent, and the reconciliation results of each leg.  It shares the      *)
(* account lease and HALT with the execution journal and has no lineages   *)
(* of its own: a leg's source row and its create intent are one insert.    *)
(*                                                                         *)
(* The operators are what one transaction does when it commits; a refused  *)
(* transaction writes nothing.  Times are events, as in the journal: a     *)
(* proof may be too old at any moment.                                     *)
(***************************************************************************)
EXTENDS ExecutionJournal

CONSTANTS
    NLegs,      \* legs of the approved grid, in the order of the plan
    Full,       \* the quantity of a leg's order
    Approval    \* the approval of the grid (its live[Approval] is its window)

Legs == 1 .. NLegs

ASSUME LegAssumption ==
    /\ NLegs \in Nat \ {0}
    /\ Full \in Nat \ {0}
    /\ Approval \in Plans

VARIABLES
    createIntent,   \* the source and its create intent, or None
    answered,       \* the legs whose create attempt is recorded
    cancelIntent,   \* the cancel intent of a leg, or None
    cancelAttempt,  \* what the cancel call returned, or None
    outcome,        \* the status of the latest result of a leg, or "none"
    shield          \* the order proof of its latest protected result, or None

legVars == <<createIntent, answered, cancelIntent, cancelAttempt, outcome,
             shield>>

-----------------------------------------------------------------------------
\* Rows

\* An order of a leg as the exchange has it: never sent, on its way, live, over
\* before it was filled, or refused.  Filled to the brim it is over as well.
Order == [state : {"none", "flying", "open", "dead", "rejected"},
          filled : 0 .. Full]

NoOrder == [state |-> "none", filled |-> 0]

Untouched(o) == o.state = "open" /\ o.filled = 0
Partial(o) == o.state = "open" /\ o.filled \in 1 .. Full - 1
Filled(o) == o.filled = Full

CreateIntent == [run : Runs, epoch : Epoch]
CancelIntent == [epoch : Epoch, filled : 0 .. Full]

ASSUME RowAssumption ==
    /\ None \notin CreateIntent
    /\ None \notin CancelIntent
    /\ None \notin Order

\* PROTECTED stands for PROTECTION_CONFIRMED and VERIFIED_CLOSED, which differ
\* in whether the take-profits have already closed what was filled.
ZeroFill == {"CONFIRMED_OPEN", "CANCELLED", "REJECTED"}
Doubtful == {"UNRESOLVED", "PROTECTION_PENDING"}
LegStatus == {"PROTECTED"} \cup ZeroFill \cup Doubtful

LegTypeOK ==
    /\ TypeOK
    /\ createIntent \in [Legs -> CreateIntent \cup {None}]
    /\ answered \subseteq Legs
    /\ cancelIntent \in [Legs -> CancelIntent \cup {None}]
    /\ cancelAttempt \in [Legs -> {"accepted", "ambiguous", None}]
    /\ outcome \in [Legs -> LegStatus \cup {"none"}]
    /\ shield \in [Legs -> Order \cup {None}]

LegInit ==
    /\ createIntent = [l \in Legs |-> None]
    /\ answered = {}
    /\ cancelIntent = [l \in Legs |-> None]
    /\ cancelAttempt = [l \in Legs |-> None]
    /\ outcome = [l \in Legs |-> "none"]
    /\ shield = [l \in Legs |-> None]

-----------------------------------------------------------------------------
\* HALT is raised, or stays raised: nothing here reads the revision that moves
\* when an active HALT is raised again.
HaltUp == \/ halt.active /\ UNCHANGED halt
          \/ ~halt.active /\ RaiseHaltRow

\* Of the journal only HALT may have moved.
JournalButHalt == <<lease, lineage, live, owned, attempt, binding, latest,
                    evidenced, disputed, grants, admitted>>

\* raiseHalt by a run that may have lost its lease: the store then refuses, and
\* the caller does not look at the answer.
TryHalt(g) ==
    /\ IF Authoritative(g) THEN HaltUp ELSE UNCHANGED halt
    /\ UNCHANGED JournalButHalt

-----------------------------------------------------------------------------
\* Create and cancel intents

\* The gates of preparePreparedLegCreate: authority, no takeover left to be
\* reconciled, HALT down, the approval inside its window.
CreateAllowed(g) ==
    /\ Authoritative(g)
    /\ ~lease.recon
    /\ ~halt.active
    /\ live[Approval]

NewSource(l) == createIntent[l] = None

\* preparePreparedLegCreate with created: true.  A leg that has a source keeps
\* the one it has, whoever asks.
PreparePreparedLegCreate(g, l) ==
    /\ CreateAllowed(g)
    /\ NewSource(l)
    /\ createIntent' = [createIntent EXCEPT
          ![l] = [run |-> grants[g].owner, epoch |-> grants[g].epoch]]
    /\ UNCHANGED <<answered, cancelIntent, cancelAttempt, outcome, shield>>

\* A cancel needs a proof of the very order and a result it agrees with: an
\* untouched order confirmed open, or a part-filled one whose fills were
\* protected when they were last recorded.
CancelProven(l, proof) ==
    \/ outcome[l] = "CONFIRMED_OPEN" /\ Untouched(proof)
    \/ /\ outcome[l] = "PROTECTED"
       /\ Partial(proof)
       /\ shield[l].filled = proof.filled

\* HALT does not stand in the way of a cancel, a takeover does.
CancelAllowed(g, l, proof) ==
    /\ Authoritative(g)
    /\ ~lease.recon
    /\ createIntent[l] # None
    /\ CancelProven(l, proof)

\* preparePreparedLegCancel with created: true.
PreparePreparedLegCancel(g, l, proof) ==
    /\ CancelAllowed(g, l, proof)
    /\ cancelIntent[l] = None
    /\ cancelIntent' = [cancelIntent EXCEPT
          ![l] = [epoch |-> grants[g].epoch, filled |-> proof.filled]]
    /\ UNCHANGED <<createIntent, answered, cancelAttempt, outcome, shield>>

-----------------------------------------------------------------------------
\* Attempts

\* appendPreparedLegAttempt: the intent must be of the caller's own epoch.  The
\* run id of the intent is not compared.
AttemptAllowed(g, intent) ==
    /\ Authoritative(g)
    /\ intent # None
    /\ intent.epoch = grants[g].epoch

\* The attempt of the create call.  What the call returned is not read again; a
\* second attempt with the same content is a repeat.
AppendCreateAttempt(g, l) ==
    /\ AttemptAllowed(g, createIntent[l])
    /\ answered' = answered \cup {l}
    /\ UNCHANGED <<createIntent, cancelIntent, cancelAttempt, outcome, shield>>

AppendCancelAttempt(g, l, result) ==
    /\ AttemptAllowed(g, cancelIntent[l])
    /\ cancelAttempt[l] \in {None, result}
    /\ cancelAttempt' = [cancelAttempt EXCEPT ![l] = result]
    /\ UNCHANGED <<createIntent, answered, cancelIntent, outcome, shield>>

-----------------------------------------------------------------------------
\* Results

\* A variant of ShutsGate that lets exposure wait for its protection.
ShutsGateOnUnresolved(status) == status = "UNRESOLVED"

ShutsGate(status) == status \in Doubtful

\* appendPreparedLegReconciliation: the next revision of the leg's result, and
\* HALT in the same transaction unless the result is known to be safe.
AppendLegReconciliation(g, l, status, order) ==
    /\ Authoritative(g)
    /\ createIntent[l] # None
    /\ outcome' = [outcome EXCEPT ![l] = status]
    /\ shield' = IF status = "PROTECTED" THEN [shield EXCEPT ![l] = order]
                 ELSE shield
    /\ IF ShutsGate(status) THEN HaltUp ELSE UNCHANGED halt
    /\ UNCHANGED JournalButHalt
    /\ UNCHANGED <<createIntent, answered, cancelIntent, cancelAttempt>>
=============================================================================
