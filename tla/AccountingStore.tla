-------------------------- MODULE AccountingStore ---------------------------
(***************************************************************************)
(* The accounting half of the store (adapters/sqlite/accounting-store.ts): *)
(* immutable facts, the conflicts between facts that claim one identity,   *)
(* the corrections that resolve them, and the checkpoints that remember    *)
(* how far a stream of facts has been read.                                *)
(*                                                                         *)
(* It shares its database, the account lease and HALT with the journal, so *)
(* the module extends ExecutionJournal and says where the journal's        *)
(* `disputed` comes from.  Facts need no lease; a checkpoint does.         *)
(*                                                                         *)
(* Facts of one kind and one scope; a fact's bytes are their canonical     *)
(* hash.  Time is a small number; zero stands for "never observed".        *)
(***************************************************************************)
EXTENDS ExecutionJournal

CONSTANTS
    Events,       \* event identities of facts
    Hashes,       \* canonical hashes of facts
    Cursors,      \* positions in the stream a checkpoint is for
    Scope,        \* the scope of the store
    MaxTime,      \* bound: timestamps
    MaxRevision   \* bound: checkpoint revisions

ASSUME AccountingAssumption ==
    /\ Scope \in Scopes
    /\ MaxTime \in Nat
    /\ MaxRevision \in Nat

VARIABLES
    fact,        \* accounting_facts rows by event identity, or None
    conflicts,   \* accounting_conflicts rows
    checkpoint,  \* the checkpoints row of the stream, or None
    delivered,   \* history: the facts the store accepted, or recorded a conflict for
    covered      \* history: the facts a checkpoint advanced with

storeVars == <<fact, conflicts, checkpoint, delivered, covered>>

accountingVars == <<journalVars, storeVars>>

-----------------------------------------------------------------------------
\* Rows

Fact == [bytes : Hashes, link : Events \cup {None}]

ASSUME AbsenceAssumption == None \notin Events /\ None \notin Fact

Conflict == [event : Events, existing : Hashes, incoming : Hashes]

Checkpoint == [cursor : Cursors \cup {None}, through : 0 .. MaxTime,
               updated : 1 .. MaxTime, revision : Nat \ {0}]

\* What a caller asks a checkpoint to become, and the revision it has read.
Request == [cursor : Cursors \cup {None}, through : 0 .. MaxTime,
            updated : 1 .. MaxTime, expected : 0 .. MaxRevision]

AccountingTypeOK ==
    /\ TypeOK
    /\ fact \in [Events -> Fact \cup {None}]
    /\ conflicts \subseteq Conflict
    /\ checkpoint = None \/ checkpoint \in Checkpoint
    /\ delivered \subseteq Events \X Hashes
    /\ covered \subseteq Events \X Hashes

AccountingInit ==
    /\ JournalInit
    /\ fact = [e \in Events |-> None]
    /\ conflicts = {}
    /\ checkpoint = None
    /\ delivered = {}
    /\ covered = {}

-----------------------------------------------------------------------------
\* Facts and conflicts

\* A variant of Resolves that takes any linked fact for a correction.
AnyLinkResolves(f, c) ==
    \E x \in Events : f[x] # None /\ f[x].link = c.event

\* The facts f hold a correction of the conflict: a fact that is linked to the
\* original, the original as it was, and the bytes that came in its place.
Resolves(f, c) ==
    /\ f[c.event] # None
    /\ f[c.event].bytes = c.existing
    /\ \E x \in Events : /\ f[x] # None
                         /\ f[x].link = c.event
                         /\ f[x].bytes = c.incoming

Disputes(f, rows) ==
    IF \E c \in rows : ~Resolves(f, c) THEN disputed \cup {Scope}
    ELSE disputed \ {Scope}

\* insertFactWithinTransaction: a fact may only be linked to a stored one.
LinkStored(link) == link # None => fact[link] # None

Outcome(e, h) ==
    IF fact[e] = None THEN "inserted"
    ELSE IF fact[e].bytes = h THEN "duplicate"
    ELSE "conflict"

Insert(e, h, link) ==
    /\ Outcome(e, h) = "inserted"
    /\ fact' = [fact EXCEPT ![e] = [bytes |-> h, link |-> link]]
    /\ disputed' = Disputes(fact', conflicts)
    /\ UNCHANGED <<conflicts, halt>>

Repeat(e, h) ==
    /\ Outcome(e, h) = "duplicate"
    /\ UNCHANGED <<fact, conflicts, disputed, halt>>

\* A variant of HaltForConflict that records the conflict and goes on.
NoHaltForConflict == UNCHANGED halt

HaltForConflict == RaiseHaltRow

\* The conflict row and HALT are committed; the caller gets an error.
Contradict(e, h) ==
    /\ Outcome(e, h) = "conflict"
    /\ conflicts' = conflicts \cup {[event |-> e, existing |-> fact[e].bytes,
                                     incoming |-> h]}
    /\ HaltForConflict
    /\ disputed' = Disputes(fact, conflicts')
    /\ UNCHANGED fact

\* One delivery of a fact, as a part of its transaction.
Deliver(e, h, link) ==
    /\ LinkStored(link)
    /\ Insert(e, h, link) \/ Repeat(e, h) \/ Contradict(e, h)
    /\ delivered' = delivered \cup {<<e, h>>}
    /\ UNCHANGED <<lease, lineage, live, owned, attempt, binding, latest,
                   evidenced, grants, admitted>>

IngestFact(e, h, link) ==
    /\ Deliver(e, h, link)
    /\ UNCHANGED <<checkpoint, covered>>

-----------------------------------------------------------------------------
\* Checkpoints

MutationAllowed(g) ==
    /\ Authoritative(g)
    /\ ~lease.recon
    /\ ~halt.active

Revision == IF checkpoint = None THEN 0 ELSE checkpoint.revision

\* The request repeats the row field by field; it changes nothing then.
Repeats(request) ==
    /\ checkpoint # None
    /\ checkpoint.cursor = request.cursor
    /\ checkpoint.through = request.through
    /\ checkpoint.updated = request.updated

\* The revision is the one the caller read, and neither time goes backwards.
Acceptable(request) ==
    /\ request.expected = Revision
    /\ checkpoint # None =>
          /\ request.through # 0 => checkpoint.through <= request.through
          /\ checkpoint.updated <= request.updated

\* A field that the request leaves out keeps its value.
Advance(request) ==
    checkpoint' =
        [cursor   |-> IF request.cursor = None /\ checkpoint # None
                      THEN checkpoint.cursor ELSE request.cursor,
         through  |-> IF request.through = 0 /\ checkpoint # None
                      THEN checkpoint.through ELSE request.through,
         updated  |-> request.updated,
         revision |-> Revision + 1]

Move(request) ==
    /\ Acceptable(request)
    /\ IF Repeats(request) THEN UNCHANGED checkpoint
       ELSE Revision < MaxRevision /\ Advance(request)

UpdateCheckpoint(g, request) ==
    /\ MutationAllowed(g)
    /\ Move(request)
    /\ UNCHANGED <<journalVars, fact, conflicts, delivered, covered>>

\* A variant of MovesWith that lets the checkpoint pass a conflicting fact.
AlwaysMoves(outcome) == TRUE

MovesWith(outcome) == outcome # "conflict"

\* ingestFactAndAdvanceCheckpoint: the fact and the checkpoint in one
\* transaction.  A conflict is committed without the checkpoint; a stale
\* checkpoint takes the fact down with it.
IngestFactAndAdvanceCheckpoint(g, e, h, link, request) ==
    /\ MutationAllowed(g)
    /\ Deliver(e, h, link)
    /\ IF MovesWith(Outcome(e, h))
       THEN Move(request) /\ covered' = covered \cup {<<e, h>>}
       ELSE UNCHANGED <<checkpoint, covered>>

-----------------------------------------------------------------------------
AccountingStep ==
    \E e \in Events, h \in Hashes, link \in Events \cup {None} :
        \/ IngestFact(e, h, link)
        \/ \E g \in 1 .. Len(grants), request \in Request :
              IngestFactAndAdvanceCheckpoint(g, e, h, link, request)

CheckpointStep ==
    \E g \in 1 .. Len(grants), request \in Request :
        UpdateCheckpoint(g, request)

AccountingNext ==
    \/ (LeaseStep \/ HaltStep) /\ UNCHANGED storeVars
    \/ AccountingStep
    \/ CheckpointStep

AccountingSpec == AccountingInit /\ [][AccountingNext]_accountingVars

-----------------------------------------------------------------------------
\* Correctness

\* While HALT is down no version of a fact that ever reached the store is lost:
\* it is the stored fact, or a correction linked to it.  An event that arrives
\* in three versions needs two corrections before exposure is allowed again.
NoVersionLost ==
    ~halt.active =>
        \A e \in Events, h \in Hashes : <<e, h>> \in delivered =>
            /\ fact[e] # None
            /\ \/ fact[e].bytes = h
               \/ \E x \in Events : /\ fact[x] # None
                                    /\ fact[x].link = e
                                    /\ fact[x].bytes = h

\* A checkpoint never claims a fact the store does not hold: what it advanced
\* with is stored, under the very bytes it was delivered with.
CoveredFactsStored ==
    \A e \in Events, h \in Hashes : <<e, h>> \in covered =>
        fact[e] # None /\ fact[e].bytes = h

\* Seen through leases, HALT and disputes, the accounting store does nothing the
\* journal does not allow for: every conflict raises HALT as it is recorded, and
\* a dispute ends with the correction of the last conflict.
ImplementsJournal == JournalSpec
=============================================================================
