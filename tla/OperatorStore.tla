--------------------------- MODULE OperatorStore ----------------------------
(***************************************************************************)
(* The operator's Mainnet journal                                          *)
(* (adapters/sqlite/operator-mainnet-test-store.ts and the HALT rows of    *)
(* adapters/sqlite/sqlite-authority.ts it shares).                         *)
(*                                                                         *)
(* A plan is either a trade command, which the operator typed, or an       *)
(* approved plan.  The source of a plan is the row its one CREATE intent   *)
(* hangs on; plan, source, intent and client order id determine each       *)
(* other, so all four are named by the plan.                               *)
(*                                                                         *)
(* Every operator below is one transaction of the store.  It holds no      *)
(* lease: any process of the account may commit between two of them.       *)
(***************************************************************************)
EXTENDS Naturals, FiniteSets

CONSTANTS
    Plans,      \* the saved plans
    Commands,   \* the plans of direct trade commands; the rest are approved
    Manual,     \* approved plans issued for a recovery a person attests
    Symbols,
    SymbolOf,   \* the instrument of a plan
    Runs,       \* the run ids processes act under
    Foreign,    \* whatever else raises HALT in this account's database
    Spent,      \* an attestation that is used up or no longer current
    None

ASSUME OperatorAssumption ==
    /\ Commands \subseteq Plans
    /\ Manual \subseteq Plans \ Commands
    /\ SymbolOf \in [Plans -> Symbols]
    /\ Foreign \notin Plans
    /\ Spent \notin Plans /\ None \notin Plans /\ Spent # None

VARIABLES
    received,   \* commands whose receipt is saved
    outcomes,   \* the marks of a command's outcomes before its intent
    bound,      \* commands bound to their plan
    source,     \* the source of a plan, with its intent and what followed
    raisedBy,   \* who raised HALT since it was last lowered
    grants,     \* the recovery grants that can still be consumed
    attested    \* the source a manual plan's attestation is about

storeVars == <<received, outcomes, bound, source, raisedBy, grants, attested>>

\* What an outcome row says: the leverage was 1x, its change was begun, its
\* change was proved, the command was refused.
Mark == {"already", "attempted", "verified", "refused"}

\* The attempt of an intent, as recordAttempt left it.
Attempt == {"none", "accepted", "rejected", "ambiguous"}

\* The latest reconciliation: verified clean with a known outcome, pending, or
\* unknown.
Verdict == {"none", "clean", "pending", "unknown"}

Source == [run : Runs,
           attempt : Attempt,
           latest : Verdict,
           disposed : BOOLEAN,    \* a person attested that it is over
           declared : BOOLEAN,    \* the operator closed its position by hand
           recovers : Plans \cup {None}]   \* the source its grant released

Grant == [plan : Plans \ Commands, source : Plans, manual : BOOLEAN]

ASSUME RowAssumption == None \notin Source /\ None \notin Grant

StoreTypeOK ==
    /\ received \subseteq Commands
    /\ outcomes \in [Commands -> SUBSET Mark]
    /\ bound \subseteq received
    /\ source \in [Plans -> Source \cup {None}]
    /\ raisedBy \subseteq Plans \cup {Foreign}
    /\ grants \subseteq Grant
    /\ attested \in [Manual -> Plans \cup {None, Spent}]

StoreInit ==
    /\ received = {}
    /\ outcomes = [c \in Commands |-> {}]
    /\ bound = {}
    /\ source = [p \in Plans |-> None]
    /\ raisedBy = {}
    /\ grants = {}
    /\ attested = [p \in Manual |-> None]

-----------------------------------------------------------------------------
\* HALT and the sources it waits for.

Halted == raisedBy # {}

Exists(p) == source[p] # None

\* pendingSourceSnapshots: not disposed of, and not proved clean by the API.
PendingSources ==
    {p \in Plans : Exists(p) /\ ~source[p].disposed /\ source[p].latest # "clean"}

\* An event that changes a source's revision outdates what was granted and
\* attested for the revision before it.
Outdate(p) ==
    /\ grants' = {g \in grants : g.source # p}
    /\ attested' = [q \in Manual |-> IF attested[q] = p THEN Spent
                                     ELSE attested[q]]

\* A HALT event outdates every grant: each is bound to the HALT revision.
RaisedFor(who) ==
    /\ raisedBy' = raisedBy \cup {who}
    /\ grants' = {}

\* raiseHalt: the source must exist, the event names it.
RaiseSourceHalt(p) ==
    /\ Exists(p)
    /\ RaisedFor(p)
    /\ UNCHANGED <<received, outcomes, bound, source, attested>>

\* HALT raised by a writer that leaves no operator source in its event.
RaiseForeignHalt ==
    /\ Foreign \notin raisedBy
    /\ RaisedFor(Foreign)
    /\ UNCHANGED <<received, outcomes, bound, source, attested>>

-----------------------------------------------------------------------------
\* A trade command before its intent.

PersistReceipt(c) ==
    /\ c \notin received
    /\ received' = received \cup {c}
    /\ UNCHANGED <<outcomes, bound, source, raisedBy, grants, attested>>

\* appendOutcome: refused once an intent exists.
AppendOutcome(c, mark) ==
    /\ c \in received
    /\ ~Exists(c)
    /\ outcomes' = [outcomes EXCEPT ![c] = @ \cup {mark}]
    /\ UNCHANGED <<received, bound, source, raisedBy, grants, attested>>

\* tradeCommandPreIntentOutcomesPermitCreate: nothing recorded, or the leverage
\* proved in one of the two ways, and nothing after it.
OutcomesPermit(c) == outcomes[c] \in {{}, {"already"}, {"attempted", "verified"}}

Bind(c) ==
    /\ c \in received
    /\ OutcomesPermit(c)
    /\ bound' = bound \cup {c}
    /\ UNCHANGED <<received, outcomes, source, raisedBy, grants, attested>>

-----------------------------------------------------------------------------
\* The CREATE intent.

NewSource(run, old) ==
    [run |-> run, attempt |-> "none", latest |-> "none", disposed |-> FALSE,
     declared |-> FALSE, recovers |-> old]

\* Variant: an unrecorded or ambiguous attempt of another symbol does not block.
BlocksDespiteDoubt(q, c, known) ==
    \/ SymbolOf[q] = SymbolOf[c]
    \/ source[q].attempt = "accepted" /\ q \notin known

\* Variant: the time of the attempt is not compared with that of the evidence.
BlocksWhateverAge(q, c, known) ==
    \/ SymbolOf[q] = SymbolOf[c]
    \/ source[q].attempt \in {"none", "ambiguous"}

\* prepareTradeCommandCreateIntent, what another pending source means: it blocks
\* its own symbol, it blocks every symbol while its CREATE may have reached the
\* exchange unseen, and an accepted one blocks unless its recordedAt is before
\* the time of this command's evidence.  recordedAt is the time of the source's
\* own evidence and what elapsed since its admission, not since that evidence,
\* so it lies anywhere between then and the answer of the exchange.
BlocksCommand(q, c, known) ==
    \/ SymbolOf[q] = SymbolOf[c]
    \/ source[q].attempt \in {"none", "ambiguous"}
    \/ source[q].attempt = "accepted" /\ q \notin known

\* Variant: the pending sources are looked at before the evidence only.
CommandAdmittedOnHalt(c, known) ==
    /\ c \in bound
    /\ OutcomesPermit(c)
    /\ ~Halted
    /\ ~Exists(c)

CommandAdmitted(c, known) ==
    /\ c \in bound
    /\ OutcomesPermit(c)
    /\ ~Halted
    /\ \A q \in PendingSources : ~BlocksCommand(q, c, known)
    /\ ~Exists(c)

PrepareTradeCommandCreate(c, run, known) ==
    /\ CommandAdmitted(c, known)
    /\ source' = [source EXCEPT ![c] = NewSource(run, None)]
    /\ UNCHANGED <<received, outcomes, bound, raisedBy, grants, attested>>

\* Variant: an approved plan's own source is not looked for.
ApprovalAdmittedAgain(p, grant) ==
    /\ grant # None => grant \in grants
    /\ ~Halted

\* prepareCreateIntent, the gate of an approved plan: only the first pending
\* source is compared with the source the grant was given for.  Sources are
\* ordered by the exchange time of their evidence, which need not be the order
\* they were committed in, so any of them may come first.
ApprovalAdmitted(p, grant) ==
    /\ grant # None => grant \in grants
    /\ ~Halted
    /\ PendingSources # {} =>
          grant # None /\ \E first \in PendingSources : first = grant.source
    /\ ~Exists(p)

\* consumeRecoveryGrantWithinTransaction: an attested grant also disposes of the
\* source it was given for, once.
ConsumeGrant(p, run, grant) ==
    /\ grants' = grants \ {grant}
    /\ \/ /\ ~grant.manual
          /\ source' = [source EXCEPT ![p] = NewSource(run, grant.source)]
          /\ UNCHANGED attested
       \/ /\ grant.manual
          /\ ~source[grant.source].disposed
          /\ source' = [source EXCEPT ![p] = NewSource(run, grant.source),
                                      ![grant.source].disposed = TRUE]
          /\ attested' = [q \in Manual |-> IF attested[q] = grant.source
                                           THEN Spent ELSE attested[q]]

PrepareCreate(p, run, grant) ==
    /\ ApprovalAdmitted(p, grant)
    /\ \/ /\ grant = None
          /\ source' = [source EXCEPT ![p] = NewSource(run, None)]
          /\ UNCHANGED <<grants, attested>>
       \/ grant # None /\ ConsumeGrant(p, run, grant)
    /\ UNCHANGED <<received, outcomes, bound, raisedBy>>

\* recordAttempt: one attempt, by the run that owns the intent.  An ambiguous
\* one raises HALT in the same transaction.
RecordAttempt(p, run, outcome) ==
    /\ Exists(p)
    /\ source[p].run = run
    /\ source[p].attempt = "none"
    /\ source' = [source EXCEPT ![p].attempt = outcome]
    /\ \/ /\ outcome = "ambiguous"
          /\ RaisedFor(p)
          /\ attested' = [q \in Manual |-> IF attested[q] = p THEN Spent
                                           ELSE attested[q]]
       \/ /\ outcome # "ambiguous"
          /\ Outdate(p)
          /\ UNCHANGED raisedBy
    /\ UNCHANGED <<received, outcomes, bound>>

-----------------------------------------------------------------------------
\* What is learned about a source afterwards.

AppendReconciliation(p, verdict) ==
    /\ Exists(p)
    /\ source' = [source EXCEPT ![p].latest = verdict]
    /\ Outdate(p)
    /\ UNCHANGED <<received, outcomes, bound, raisedBy>>

\* appendManualAction, of the category position-closed.
AppendManualAction(p) ==
    /\ Exists(p)
    /\ source' = [source EXCEPT ![p].declared = TRUE]
    /\ Outdate(p)
    /\ UNCHANGED <<received, outcomes, bound, raisedBy>>

-----------------------------------------------------------------------------
\* Recovery: an attestation, then a grant, then the grant's consumption above.

\* persistRecoveryAttestation: for the source's revision of this moment.  The
\* plan is issued for it afterwards and carries its hash.
PersistAttestation(p, s) ==
    /\ attested[p] = None
    /\ Exists(s) /\ s # p
    /\ attested' = [attested EXCEPT ![p] = s]
    /\ UNCHANGED <<received, outcomes, bound, source, raisedBy, grants>>

\* activeHaltOrigin: every event since HALT was last lowered is this source's.
OriginProved(s) == raisedBy \subseteq {s}

\* What createOperatorMainnetRecoveryGrant asks of the account: no other source
\* is pending, there is something to recover, HALT is this source's alone.
Recoverable(p, s) ==
    /\ p \in Plans \ Commands /\ p # s
    /\ Exists(s)
    /\ PendingSources \subseteq {s}
    /\ Halted \/ s \in PendingSources
    /\ OriginProved(s)

\* Variant: any reconciliation of the source will do.
ProvedByAnyVerdict(p, s, manual) == ~manual /\ source[s].latest # "none"

\* The proof is the source's latest reconciliation or the plan's attestation.
ProvedOver(p, s, manual) ==
    \/ ~manual /\ source[s].latest = "clean"
    \/ manual /\ p \in Manual /\ attested[p] = s

\* The grant, and HALT lowered in the same transaction.  An attestation mints one
\* grant.
CreateRecoveryGrant(p, s, manual) ==
    /\ Recoverable(p, s)
    /\ ProvedOver(p, s, manual)
    /\ attested' = IF manual THEN [attested EXCEPT ![p] = Spent] ELSE attested
    /\ raisedBy' = {}
    /\ grants' = {g \in grants : g.source # s}
                    \cup {[plan |-> p, source |-> s, manual |-> manual]}
    /\ UNCHANGED <<received, outcomes, bound, source>>

\* findRecoveryGrant: a grant of this plan, with no other source pending.
Findable(p) ==
    {g \in grants : g.plan = p /\ ~Halted /\ PendingSources \subseteq {g.source}}
=============================================================================
