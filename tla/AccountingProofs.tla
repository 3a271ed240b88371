-------------------------- MODULE AccountingProofs --------------------------
(***************************************************************************)
(* What the accounting store promises for every set of events and hashes.  *)
(*                                                                         *)
(* The argument: the scope is disputed exactly when a conflict row has no  *)
(* correction among the facts, and facts are never changed, so corrections *)
(* last.  Seen from the journal a delivery is then a conflicting fact, a   *)
(* correction, or nothing.  Every version that was ever delivered is the   *)
(* stored fact or a conflict row; HALT is down only when no row is open.   *)
(***************************************************************************)
EXTENDS AccountingStore, AccountingEpoch, ExecutionJournalProofs

-----------------------------------------------------------------------------
\* The dispute the journal sees is the open conflicts.
DisputedExact == Scope \in disputed <=> \E c \in conflicts : ~Resolves(fact, c)

\* What a delivery does to facts, conflicts and the dispute, by its outcome.
LEMMA DeliveryKinds ==
    ASSUME NEW e \in Events, NEW h \in Hashes, NEW link \in Events \cup {None},
           Deliver(e, h, link)
    PROVE  \/ /\ fact[e] = None
              /\ fact' = [fact EXCEPT ![e] = [bytes |-> h, link |-> link]]
              /\ disputed' = Disputes(fact', conflicts)
              /\ UNCHANGED <<conflicts, halt>>
           \/ /\ fact[e] # None /\ fact[e].bytes = h
              /\ UNCHANGED <<fact, conflicts, disputed, halt>>
           \/ /\ fact[e] # None /\ fact[e].bytes # h
              /\ conflicts' = conflicts \cup
                    {[event |-> e, existing |-> fact[e].bytes, incoming |-> h]}
              /\ RaiseHaltRow
              /\ disputed' = Disputes(fact, conflicts')
              /\ UNCHANGED fact
    BY DEF Deliver, Insert, Repeat, Contradict, Outcome, HaltForConflict

\* A new fact takes no correction away.
LEMMA CorrectionsLast ==
    ASSUME NEW e \in Events, NEW h \in Hashes, NEW link \in Events \cup {None},
           AccountingTypeOK, fact[e] = None,
           fact' = [fact EXCEPT ![e] = [bytes |-> h, link |-> link]],
           NEW c \in conflicts, Resolves(fact, c)
    PROVE  Resolves(fact', c)
<1>1. \A x \in Events : fact[x] # None => fact'[x] = fact[x]
    BY DEF AccountingTypeOK
<1>2. c.event \in Events
    BY DEF AccountingTypeOK, Conflict
<1> QED
    BY <1>1, <1>2 DEF Resolves

\* Disputes adds the scope when a conflict is open and removes it otherwise.
LEMMA DisputesBySettlement ==
    ASSUME NEW f, NEW rows
    PROVE  /\ (\E c \in rows : ~Resolves(f, c))
                => Disputes(f, rows) = disputed \cup {Scope}
           /\ ~(\E c \in rows : ~Resolves(f, c))
                => Disputes(f, rows) = disputed \ {Scope}
    BY DEF Disputes

\* A delivery keeps the dispute exact.
LEMMA DeliveryExact ==
    ASSUME NEW e \in Events, NEW h \in Hashes, NEW link \in Events \cup {None},
           DisputedExact, Deliver(e, h, link)
    PROVE  DisputedExact'
<1>1. CASE /\ disputed' = Disputes(fact', conflicts)
           /\ UNCHANGED conflicts
  <2>1. (\E c \in conflicts : ~Resolves(fact', c))
            => disputed' = disputed \cup {Scope}
    BY <1>1, DisputesBySettlement
  <2>2. ~(\E c \in conflicts : ~Resolves(fact', c))
            => disputed' = disputed \ {Scope}
    BY <1>1, DisputesBySettlement
  <2> QED
    BY <1>1, <2>1, <2>2 DEF DisputedExact, Resolves
<1>2. CASE UNCHANGED <<fact, conflicts, disputed>>
    BY <1>2 DEF DisputedExact, Resolves
<1>3. CASE disputed' = Disputes(fact, conflicts') /\ UNCHANGED fact
  <2>1. (\E c \in conflicts' : ~Resolves(fact, c))
            => disputed' = disputed \cup {Scope}
    BY <1>3, DisputesBySettlement
  <2>2. ~(\E c \in conflicts' : ~Resolves(fact, c))
            => disputed' = disputed \ {Scope}
    BY <1>3, DisputesBySettlement
  <2> QED
    BY <1>3, <2>1, <2>2 DEF DisputedExact, Resolves
<1> QED
    BY <1>1, <1>2, <1>3, DeliveryKinds

-----------------------------------------------------------------------------
\* The accounting store implements the journal

\* The journal sees a delivery as a conflicting fact, a correction or nothing.
LEMMA DeliveryIsJournalStep ==
    ASSUME NEW e \in Events, NEW h \in Hashes, NEW link \in Events \cup {None},
           AccountingTypeOK, DisputedExact, Deliver(e, h, link)
    PROVE  \/ IngestConflictingFact(Scope)
           \/ IngestCorrection(Scope)
           \/ UNCHANGED journalVars
<1>0. UNCHANGED <<lease, lineage, live, owned, attempt, binding, latest,
                  evidenced, grants, admitted>>
    BY DEF Deliver
<1>1. CASE /\ fact[e] = None
           /\ fact' = [fact EXCEPT ![e] = [bytes |-> h, link |-> link]]
           /\ disputed' = Disputes(fact', conflicts)
           /\ UNCHANGED <<conflicts, halt>>
  <2>1. CASE \E c \in conflicts : ~Resolves(fact', c)
    <3>1. PICK c \in conflicts : ~Resolves(fact', c)
      BY <2>1
    <3>2. ~Resolves(fact, c)
      BY <1>1, <3>1, CorrectionsLast
    <3>3. Scope \in disputed
      BY <3>2 DEF DisputedExact
    <3>4. disputed' = disputed \cup {Scope}
      BY <1>1, <2>1, DisputesBySettlement
    <3> QED
      BY <1>0, <1>1, <3>3, <3>4 DEF journalVars
  <2>2. CASE ~(\E c \in conflicts : ~Resolves(fact', c))
    <3>1. disputed' = disputed \ {Scope}
      BY <1>1, <2>2, DisputesBySettlement
    <3>2. CASE Scope \in disputed
      BY <1>0, <1>1, <3>1, <3>2 DEF IngestCorrection
    <3>3. CASE Scope \notin disputed
      <4>1. disputed' = disputed
        BY <3>1, <3>3
      <4> QED
        BY <1>0, <1>1, <4>1 DEF journalVars
    <3> QED
      BY <3>2, <3>3
  <2> QED
    BY <2>1, <2>2
<1>2. CASE UNCHANGED <<disputed, halt>>
    BY <1>0, <1>2 DEF journalVars
<1>3. CASE /\ fact[e] # None /\ fact[e].bytes # h
           /\ conflicts' = conflicts \cup
                 {[event |-> e, existing |-> fact[e].bytes, incoming |-> h]}
           /\ RaiseHaltRow
           /\ disputed' = Disputes(fact, conflicts')
           /\ UNCHANGED fact
  <2>1. CASE \E c \in conflicts' : ~Resolves(fact, c)
    <3>1. disputed' = disputed \cup {Scope}
      BY <1>3, <2>1, DisputesBySettlement
    <3> QED
      BY <1>0, <1>3, <3>1 DEF IngestConflictingFact
  <2>2. CASE ~(\E c \in conflicts' : ~Resolves(fact, c))
    <3>1. Scope \notin disputed
      BY <1>3, <2>2 DEF DisputedExact
    <3>2. disputed' = disputed \ {Scope}
      BY <1>3, <2>2, DisputesBySettlement
    <3>3. disputed' = disputed
      BY <3>1, <3>2
    <3> QED
      BY <1>0, <1>3, <3>3 DEF IngestConflictingFact
  <2> QED
    BY <2>1, <2>2
<1> QED
    BY <1>1, <1>2, <1>3, DeliveryKinds

\* The accounting store's own bookkeeping, beside the journal's types.
AccountingInv == AccountingTypeOK /\ DisputedExact

\* What an accounting step does, sorted by what it delivers.
LEMMA AccountingKinds ==
    ASSUME [AccountingNext]_accountingVars
    PROVE  \/ (LeaseStep \/ HaltStep) /\ UNCHANGED storeVars
           \/ \E e \in Events, h \in Hashes, link \in Events \cup {None} :
                 /\ Deliver(e, h, link)
                 /\ \/ UNCHANGED <<checkpoint, covered>>
                    \/ /\ \E request \in Request : Move(request)
                       /\ MovesWith(Outcome(e, h))
                       /\ covered' = covered \cup {<<e, h>>}
           \/ /\ \E request \in Request : Move(request)
              /\ UNCHANGED <<journalVars, fact, conflicts, delivered, covered>>
           \/ UNCHANGED accountingVars
<1>1. CASE AccountingStep
  <2>1. PICK e \in Events, h \in Hashes, link \in Events \cup {None} :
            \/ IngestFact(e, h, link)
            \/ \E g \in 1 .. Len(grants), request \in Request :
                  IngestFactAndAdvanceCheckpoint(g, e, h, link, request)
    BY <1>1 DEF AccountingStep
  <2>2. CASE IngestFact(e, h, link)
    BY <2>2 DEF IngestFact
  <2>3. ASSUME NEW g \in 1 .. Len(grants), NEW request \in Request,
               IngestFactAndAdvanceCheckpoint(g, e, h, link, request)
        PROVE  /\ Deliver(e, h, link)
               /\ \/ UNCHANGED <<checkpoint, covered>>
                  \/ /\ Move(request)
                     /\ MovesWith(Outcome(e, h))
                     /\ covered' = covered \cup {<<e, h>>}
    BY <2>3 DEF IngestFactAndAdvanceCheckpoint
  <2> QED
    BY <2>1, <2>2, <2>3
<1>2. CASE CheckpointStep
    BY <1>2 DEF CheckpointStep, UpdateCheckpoint
<1> QED
    BY <1>1, <1>2 DEF AccountingNext

\* Every accounting step is a journal step or leaves the journal alone.
LEMMA AccountingIsJournalStep ==
    ASSUME AccountingInv, [AccountingNext]_accountingVars
    PROVE  [JournalNext]_journalVars
<1>1. CASE LeaseStep \/ HaltStep
    BY <1>1 DEF JournalNext
<1>2. ASSUME NEW e \in Events, NEW h \in Hashes,
             NEW link \in Events \cup {None}, Deliver(e, h, link)
      PROVE  [JournalNext]_journalVars
  <2>1. Scope \in Scopes
    BY AccountingAssumption
  <2> QED
    BY <1>2, <2>1, DeliveryIsJournalStep DEF AccountingInv, JournalNext, FactStep
<1>3. CASE UNCHANGED journalVars
    BY <1>3
<1> QED
    BY <1>1, <1>2, <1>3, AccountingKinds DEF accountingVars

\* A moved checkpoint is a checkpoint row.
LEMMA MoveType ==
    ASSUME AccountingTypeOK, NEW request \in Request, Move(request)
    PROVE  checkpoint' = None \/ checkpoint' \in Checkpoint
<1>1. CASE UNCHANGED checkpoint
    BY <1>1 DEF AccountingTypeOK
<1>2. CASE Advance(request)
  <2>1. Revision + 1 \in Nat \ {0}
    BY DEF Revision, AccountingTypeOK, Checkpoint
  <2>2. /\ request.cursor \in Cursors \cup {None}
        /\ request.through \in 0 .. MaxTime
        /\ request.updated \in 1 .. MaxTime
    BY DEF Request
  <2>3. /\ (IF request.cursor = None /\ checkpoint # None
            THEN checkpoint.cursor ELSE request.cursor) \in Cursors \cup {None}
        /\ (IF request.through = 0 /\ checkpoint # None
            THEN checkpoint.through ELSE request.through) \in 0 .. MaxTime
    BY <2>2 DEF AccountingTypeOK, Checkpoint
  <2> QED
    BY <1>2, <2>1, <2>2, <2>3 DEF Advance, Checkpoint
<1> QED
    BY <1>1, <1>2 DEF Move

\* A delivery writes well-formed facts and conflicts.
LEMMA DeliveryType ==
    ASSUME AccountingTypeOK, NEW e \in Events, NEW h \in Hashes,
           NEW link \in Events \cup {None}, Deliver(e, h, link)
    PROVE  /\ fact' \in [Events -> Fact \cup {None}]
           /\ conflicts' \subseteq Conflict
           /\ delivered' \subseteq Events \X Hashes
<1>1. delivered' \subseteq Events \X Hashes
    BY DEF Deliver, AccountingTypeOK
<1>2. CASE fact' = [fact EXCEPT ![e] = [bytes |-> h, link |-> link]]
           /\ UNCHANGED conflicts
  <2>1. [bytes |-> h, link |-> link] \in Fact
    BY DEF Fact
  <2> QED
    BY <1>1, <1>2, <2>1 DEF AccountingTypeOK
<1>3. CASE UNCHANGED <<fact, conflicts>>
    BY <1>1, <1>3 DEF AccountingTypeOK
<1>4. CASE /\ fact[e] # None
           /\ conflicts' = conflicts \cup
                 {[event |-> e, existing |-> fact[e].bytes, incoming |-> h]}
           /\ UNCHANGED fact
  <2>1. fact[e].bytes \in Hashes
    BY <1>4 DEF AccountingTypeOK, Fact
  <2>2. [event |-> e, existing |-> fact[e].bytes, incoming |-> h] \in Conflict
    BY <2>1 DEF Conflict
  <2> QED
    BY <1>1, <1>4, <2>2 DEF AccountingTypeOK
<1> QED
    BY <1>2, <1>3, <1>4, DeliveryKinds

\* The bookkeeping is inductive.
LEMMA AccountingInvStep ==
    ASSUME AccountingInv, [AccountingNext]_accountingVars
    PROVE  AccountingInv'
<1>0. TypeOK'
    BY AccountingIsJournalStep, TypeStep DEF AccountingInv, AccountingTypeOK
<1>1. CASE UNCHANGED storeVars
  <2>1. UNCHANGED disputed => DisputedExact'
    BY <1>1 DEF AccountingInv, DisputedExact, Resolves, storeVars
  <2>2. AccountingTypeOK'
    BY <1>0, <1>1 DEF AccountingInv, AccountingTypeOK, storeVars
  <2>3. CASE LeaseStep
    <3>1. UNCHANGED disputed
      BY <2>3 DEF LeaseStep, AcquireFreeLease, TakeOverLease, ExpireLease,
                  ReleaseLease
    <3> QED
      BY <2>1, <2>2, <3>1 DEF AccountingInv
  <2>4. CASE HaltStep
    <3>1. UNCHANGED disputed
      BY <2>4 DEF HaltStep, RaiseHalt, ClearHalt
    <3> QED
      BY <2>1, <2>2, <3>1 DEF AccountingInv
  <2>5. CASE UNCHANGED accountingVars
    BY <2>1, <2>2, <2>5 DEF AccountingInv, accountingVars, journalVars
  <2>6. ASSUME NEW e \in Events, NEW h \in Hashes,
               NEW link \in Events \cup {None}, Deliver(e, h, link)
        PROVE  AccountingInv'
    BY <2>2, <2>6, DeliveryExact DEF AccountingInv
  <2>7. CASE UNCHANGED journalVars
    BY <2>1, <2>2, <2>7 DEF AccountingInv, journalVars
  <2> QED
    BY <2>3, <2>4, <2>5, <2>6, <2>7, AccountingKinds
<1>2. ASSUME NEW e \in Events, NEW h \in Hashes,
             NEW link \in Events \cup {None}, Deliver(e, h, link),
             \/ UNCHANGED <<checkpoint, covered>>
             \/ /\ \E request \in Request : Move(request)
                /\ covered' = covered \cup {<<e, h>>}
      PROVE  AccountingInv'
  <2>1. checkpoint' = None \/ checkpoint' \in Checkpoint
    BY <1>2, MoveType DEF AccountingInv, AccountingTypeOK
  <2>2. covered' \subseteq Events \X Hashes
    BY <1>2 DEF AccountingInv, AccountingTypeOK
  <2>3. DisputedExact'
    BY <1>2, DeliveryExact DEF AccountingInv
  <2>4. /\ fact' \in [Events -> Fact \cup {None}]
        /\ conflicts' \subseteq Conflict
        /\ delivered' \subseteq Events \X Hashes
    BY <1>2, DeliveryType DEF AccountingInv
  <2> QED
    BY <1>0, <2>1, <2>2, <2>3, <2>4 DEF AccountingInv, AccountingTypeOK
<1>3. ASSUME NEW request \in Request, Move(request),
             UNCHANGED <<journalVars, fact, conflicts, delivered, covered>>
      PROVE  AccountingInv'
  <2>1. checkpoint' = None \/ checkpoint' \in Checkpoint
    BY <1>3, MoveType DEF AccountingInv
  <2>2. DisputedExact'
    BY <1>3 DEF AccountingInv, DisputedExact, Resolves, journalVars
  <2> QED
    BY <1>0, <1>3, <2>1, <2>2 DEF AccountingInv, AccountingTypeOK
<1>4. CASE UNCHANGED accountingVars
    BY <1>1, <1>4 DEF accountingVars
<1> QED
    BY <1>1, <1>2, <1>3, <1>4, AccountingKinds

\* The bookkeeping holds from the beginning.
LEMMA AccountingInvInit == AccountingInit => AccountingInv
<1> SUFFICES ASSUME AccountingInit PROVE AccountingInv
    OBVIOUS
<1>1. TypeOK
    BY DEF AccountingInit, JournalInit, TypeOK, NoResult, Result, Status
<1>2. DisputedExact
    BY DEF AccountingInit, JournalInit, DisputedExact
<1> QED
    BY <1>1, <1>2 DEF AccountingInit, AccountingInv, AccountingTypeOK

\* The accounting store implements the journal: disputes come and go as the
\* journal's own actions say, HALT is raised with each conflict.
THEOREM AccountingImplementsJournal == AccountingSpec => ImplementsJournal
<1>1. AccountingInit => JournalInit
    BY DEF AccountingInit
<1>2. AccountingInv /\ [AccountingNext]_accountingVars => [JournalNext]_journalVars
    BY AccountingIsJournalStep
<1>3. AccountingInv /\ [AccountingNext]_accountingVars => AccountingInv'
    BY AccountingInvStep
<1> QED
    BY <1>1, <1>2, <1>3, AccountingInvInit, PTL
    DEF AccountingSpec, ImplementsJournal, JournalSpec

-----------------------------------------------------------------------------
\* No version of a fact is lost

\* What was delivered is the stored fact or a conflict with it.
DeliveriesKept ==
    \A e \in Events, h \in Hashes : <<e, h>> \in delivered =>
        /\ fact[e] # None
        /\ \/ fact[e].bytes = h
           \/ [event |-> e, existing |-> fact[e].bytes, incoming |-> h]
                 \in conflicts

\* Facts and conflict rows are only ever added.
LEMMA DeliveriesKeptStep ==
    ASSUME AccountingTypeOK, DeliveriesKept, [AccountingNext]_accountingVars
    PROVE  DeliveriesKept'
<1>1. CASE UNCHANGED <<fact, conflicts, delivered>>
    BY <1>1 DEF DeliveriesKept
<1>2. ASSUME NEW e \in Events, NEW h \in Hashes,
             NEW link \in Events \cup {None}, Deliver(e, h, link)
      PROVE  DeliveriesKept'
  <2>1. \A d \in Events : fact[d] # None => fact'[d] = fact[d]
    BY <1>2, DeliveryKinds DEF AccountingTypeOK
  <2>2. conflicts \subseteq conflicts'
    BY <1>2, DeliveryKinds
  <2>3. /\ fact'[e] # None
        /\ \/ fact'[e].bytes = h
           \/ [event |-> e, existing |-> fact'[e].bytes, incoming |-> h]
                 \in conflicts'
    <3>1. CASE fact' = [fact EXCEPT ![e] = [bytes |-> h, link |-> link]]
      <4>1. [bytes |-> h, link |-> link] \in Fact
        BY DEF Fact
      <4>2. fact'[e] = [bytes |-> h, link |-> link]
        BY <3>1 DEF AccountingTypeOK
      <4> QED
        BY <4>1, <4>2, AbsenceAssumption
    <3>2. CASE fact[e] # None /\ fact[e].bytes = h /\ UNCHANGED fact
      BY <3>2
    <3>3. CASE /\ fact[e] # None
               /\ conflicts' = conflicts \cup
                     {[event |-> e, existing |-> fact[e].bytes, incoming |-> h]}
               /\ UNCHANGED fact
      BY <3>3
    <3> QED
      BY <1>2, <3>1, <3>2, <3>3, DeliveryKinds
  <2>4. delivered' = delivered \cup {<<e, h>>}
    BY <1>2 DEF Deliver
  <2> QED
    BY <2>1, <2>2, <2>3, <2>4 DEF DeliveriesKept
<1>3. UNCHANGED storeVars => UNCHANGED <<fact, conflicts, delivered>>
    BY DEF storeVars
<1>4. UNCHANGED accountingVars => UNCHANGED storeVars
    BY DEF accountingVars
<1> QED
    BY <1>1, <1>2, <1>3, <1>4, AccountingKinds

\* While HALT is down every version of every fact that reached the store can be
\* found in it.
THEOREM NoVersionIsLost ==
    ASSUME OneScope PROVE AccountingSpec => []NoVersionLost
<1>1. AccountingInit => DeliveriesKept
    BY DEF AccountingInit, DeliveriesKept
<1>2. AccountingInv /\ DeliveriesKept /\ [AccountingNext]_accountingVars
        => DeliveriesKept'
    BY DeliveriesKeptStep DEF AccountingInv
<1>3. AccountingInv /\ [AccountingNext]_accountingVars => AccountingInv'
    BY AccountingInvStep
<1>4. AccountingInv /\ DeliveriesKept /\ OpenGateUndisputed => NoVersionLost
  <2> SUFFICES ASSUME AccountingInv, DeliveriesKept, OpenGateUndisputed,
                      ~halt.active, NEW e \in Events, NEW h \in Hashes,
                      <<e, h>> \in delivered
               PROVE  /\ fact[e] # None
                      /\ \/ fact[e].bytes = h
                         \/ \E x \in Events : /\ fact[x] # None
                                              /\ fact[x].link = e
                                              /\ fact[x].bytes = h
    BY DEF NoVersionLost
  <2> DEFINE c == [event |-> e, existing |-> fact[e].bytes, incoming |-> h]
  <2>1. fact[e] # None /\ (fact[e].bytes = h \/ c \in conflicts)
    BY DEF DeliveriesKept
  <2>2. c \in conflicts => Resolves(fact, c)
    BY DEF AccountingInv, DisputedExact, OpenGateUndisputed
  <2> QED
    BY <2>1, <2>2 DEF Resolves
<1>5. JournalSpec => []OpenGateUndisputed
    BY OpenGateIsUndisputed
<1> QED
    BY <1>1, <1>2, <1>3, <1>4, <1>5, AccountingInvInit,
       AccountingImplementsJournal, PTL
    DEF AccountingSpec, ImplementsJournal

-----------------------------------------------------------------------------
\* Checkpoints claim nothing that is not stored

\* Only a stored fact is ever covered, and a stored fact is never rewritten.
LEMMA CoveredFactsStoredStep ==
    ASSUME AccountingTypeOK, CoveredFactsStored, [AccountingNext]_accountingVars
    PROVE  CoveredFactsStored'
<1>1. CASE UNCHANGED <<fact, covered>>
    BY <1>1 DEF CoveredFactsStored
<1>2. ASSUME NEW e \in Events, NEW h \in Hashes,
             NEW link \in Events \cup {None}, Deliver(e, h, link),
             \/ UNCHANGED covered
             \/ MovesWith(Outcome(e, h)) /\ covered' = covered \cup {<<e, h>>}
      PROVE  CoveredFactsStored'
  <2>1. \A d \in Events : fact[d] # None => fact'[d] = fact[d]
    BY <1>2, DeliveryKinds DEF AccountingTypeOK
  <2>2. ASSUME MovesWith(Outcome(e, h))
        PROVE  fact'[e] # None /\ fact'[e].bytes = h
    <3>1. CASE fact[e] = None
      <4>1. fact' = [fact EXCEPT ![e] = [bytes |-> h, link |-> link]]
        BY <1>2, <3>1, DeliveryKinds
      <4>2. [bytes |-> h, link |-> link] \in Fact
        BY DEF Fact
      <4>3. fact'[e] = [bytes |-> h, link |-> link]
        BY <4>1 DEF AccountingTypeOK
      <4> QED
        BY <4>2, <4>3, AbsenceAssumption
    <3>2. CASE fact[e] # None
      <4>1. fact[e].bytes = h
        BY <2>2, <3>2 DEF MovesWith, Outcome
      <4> QED
        BY <2>1, <3>2, <4>1
    <3> QED
      BY <3>1, <3>2
  <2> QED
    BY <1>2, <2>1, <2>2 DEF CoveredFactsStored
<1>3. UNCHANGED storeVars => UNCHANGED <<fact, covered>>
    BY DEF storeVars
<1>4. UNCHANGED accountingVars => UNCHANGED storeVars
    BY DEF accountingVars
<1> QED
    BY <1>1, <1>2, <1>3, <1>4, AccountingKinds

\* What a checkpoint advanced with is stored as it was delivered, also when later
\* versions of the fact conflict with it.
THEOREM CoverageIsStored == AccountingSpec => []CoveredFactsStored
<1>1. AccountingInit => CoveredFactsStored
    BY DEF AccountingInit, CoveredFactsStored
<1>2. AccountingInv /\ CoveredFactsStored /\ [AccountingNext]_accountingVars
        => CoveredFactsStored'
    BY CoveredFactsStoredStep DEF AccountingInv
<1>3. AccountingInv /\ [AccountingNext]_accountingVars => AccountingInv'
    BY AccountingInvStep
<1> QED
    BY <1>1, <1>2, <1>3, AccountingInvInit, PTL DEF AccountingSpec

-----------------------------------------------------------------------------
(***************************************************************************)
(* The account, the journal and the reports.                                *)
(***************************************************************************)
\* The movements a stream tells of.
Tells(stream, name) ==
    CASE stream = "transactions" -> TRUE
      [] stream = "executions"   -> MovementOf[name].kind = "fill"
      [] stream = "closes"       -> MovementOf[name].closes

\* A movement happens once, and not later than now.
WalletInv ==
    /\ instant \in Instants
    /\ wallet \in [moved : SUBSET (Movements \X Instants), restated : {wallet.restated},
                   capture : {wallet.capture}]
    /\ \A move \in wallet.moved : move[2] <= instant
    /\ \A one, two \in wallet.moved : (one[1] = two[1]) => (one = two)

\* The times of a capture follow one another.
CaptureInv(capture) ==
    /\ capture.step \in {"begun", "read", "answered"} =>
          capture.before \in Nat /\ capture.before <= instant
    /\ capture.step \in {"read", "answered"} =>
          capture.read \in Nat /\ capture.before <= capture.read /\ capture.read < instant
    /\ capture.step = "answered" =>
          /\ capture.boundary \in Nat
          /\ capture.read < capture.boundary /\ capture.boundary <= instant

AnchorInv(anchor) ==
    /\ anchor.before \in Nat /\ anchor.read \in Nat
    /\ anchor.boundary \in Nat /\ anchor.after \in Nat
    /\ anchor.before <= anchor.read /\ anchor.read < anchor.boundary
    /\ anchor.boundary <= anchor.after

\* A row is of something that happened.
RowInv(row) ==
    /\ row.of \in Movements /\ row.at \in Instants
    /\ <<row.of, row.at>> \in wallet.moved
    /\ row.stream = "closes" => MovementOf[row.of].closes
    /\ row.content \in {"first", "other"}

\* What an import has read to the end is in the journal, and does not change any more.
TraversalInv(traversal) ==
    /\ traversal.to \in Nat /\ traversal.to < instant
    /\ \A name \in Movements, at \in Instants :
          (<<name, at>> \in wallet.moved /\ at \in traversal.from .. traversal.to
           /\ Tells(traversal.stream, name)) =>
              \E row \in books.rows :
                  row.stream = traversal.stream /\ row.of = name /\ row.at = at

\* Why a report is not ready, from whether a stream is short and a conflict in the way.
ReasonsFrom(policy, short, conflicting, selected, o, c) ==
    LET transactions == EpochRows(selected, "transactions", o, c)
        trades == {row \in transactions : OrderRow(row)}
        executions == EpochRows(selected, "executions", o, c)
        fillsOfOrder == {row \in selected : row.stream = "executions"}
        accounted == AccountedCoins(policy, o, c, transactions)
        reasons == [
            epoch     |-> ~(o.boundary < c.boundary),
            gap       |-> short,
            conflict  |-> conflicting,
            ambiguous |-> \E row \in selected : InBracket(row.at, o, c),
            unpaired  |-> ~PairedAlone(executions, trades),
            close     |-> \E close \in EpochRows(selected, "closes", o, c) :
                             Cardinality(fillsOfOrder) # close.fills,
            drift     |-> \E of \in accounted :
                             Bridged(of, o, transactions) # c.balance[of],
            currency  |-> ~(accounted \cup {MovementOf[row.of].coin : row \in transactions}
                               \subseteq Included)]
    IN  {reason \in DOMAIN reasons : reasons[reason]}

\* The content of a scoped report, made from what the report names.
ScopedContent(named, o, c) ==
    [reasons      |-> ReasonsFrom("scoped",
                                 \E stream \in Streams :
                                     named.imports[stream] # CoverageSpan(o, c),
                                 named.conflicts # {}, named.rows, o, c),
     gaps         |-> [stream \in Streams |-> CoverageSpan(o, c) \ named.imports[stream]],
     transactions |-> EpochRows(named.rows, "transactions", o, c),
     closes       |-> EpochRows(named.rows, "closes", o, c),
     owned        |-> named.lineage,
     conflicts    |-> named.conflicts]

ReportInv(report) ==
    /\ report.policy \in Policies
    /\ report.opening \in books.anchors /\ report.closing \in books.anchors
    /\ report.policy = "scoped" =>
          report.content = ScopedContent(report.dependencies, report.opening, report.closing)
    /\ report = [policy |-> report.policy, opening |-> report.opening,
                 closing |-> report.closing, dependencies |-> report.dependencies,
                 content |-> report.content]

BooksInv ==
    /\ books \in [anchors : {books.anchors}, rows : {books.rows},
                  traversals : {books.traversals}, reports : {books.reports},
                  claimed : {books.claimed}]
    /\ \A anchor \in books.anchors : AnchorInv(anchor)
    /\ \A row \in books.rows : RowInv(row)
    /\ \A traversal \in books.traversals : TraversalInv(traversal)
    /\ \A report \in books.reports : ReportInv(report)

EpochInv ==
    /\ WalletInv
    /\ CaptureInv(wallet.capture)
    /\ BooksInv
    /\ AcceptedIsTrue
    /\ ScopedNamesAll

LEMMA EpochStarts == EpochInit => EpochInv
<1> SUFFICES ASSUME EpochInit PROVE EpochInv
  OBVIOUS
<1>1. 0 \in Instants
  BY InstantAssumption DEF Instants
<1>2. WalletInv
  BY <1>1 DEF EpochInit, WalletInv
<1>3. CaptureInv(wallet.capture)
  BY DEF EpochInit, CaptureInv, NoCapture
<1>4. BooksInv
  BY DEF EpochInit, BooksInv
<1>5. outcome.said = "none"
  BY DEF EpochInit, Calm
<1> QED
  BY <1>2, <1>3, <1>4, <1>5 DEF EpochInv, AcceptedIsTrue, ScopedNamesAll

\* The content of a scoped report is made from what it names.
LEMMA ScopedIsMadeOfItsNames ==
    ASSUME NEW o, NEW c
    PROVE  Calculated("scoped", o, c).content
              = ScopedContent(Calculated("scoped", o, c).dependencies, o, c)
<1> DEFINE selected == Selected("scoped", o, c)
           named == ScopedDependencies(selected, o, c)
<1>1. Calculated("scoped", o, c).dependencies = named
  BY DEF Calculated
<1>2. /\ named.rows = selected
      /\ named.imports = [stream \in Streams |-> Covered("scoped", stream, o, c)]
      /\ named.conflicts = Blocking("scoped", o, c)
      /\ named.lineage = Lineage(selected, o, c)
  BY DEF ScopedDependencies
<1>3. \A stream \in Streams : named.imports[stream] = Covered("scoped", stream, o, c)
  BY <1>2
<1> HIDE DEF selected, named
<1> DEFINE short == \E stream \in Streams : Covered("scoped", stream, o, c) # CoverageSpan(o, c)
           shortNamed == \E stream \in Streams : named.imports[stream] # CoverageSpan(o, c)
           conflicting == Blocking("scoped", o, c) # {}
           conflictingNamed == named.conflicts # {}
<1>4. Reasons("scoped", selected, o, c)
         = ReasonsFrom("scoped", short, conflicting, selected, o, c)
  BY DEF Reasons, ReasonsFrom
<1>7. short = shortNamed /\ conflicting = conflictingNamed
  BY <1>2, <1>3
<1>8. Reasons("scoped", selected, o, c)
         = ReasonsFrom("scoped", shortNamed, conflictingNamed, named.rows, o, c)
  <2> HIDE DEF short, shortNamed, conflicting, conflictingNamed
  <2> QED
    BY <1>2, <1>4, <1>7
<1>5. [stream \in Streams |-> CoverageSpan(o, c) \ Covered("scoped", stream, o, c)]
         = [stream \in Streams |-> CoverageSpan(o, c) \ named.imports[stream]]
  BY <1>3
<1>6. Calculated("scoped", o, c).content =
        [reasons      |-> Reasons("scoped", selected, o, c),
         gaps         |-> [stream \in Streams |->
                             CoverageSpan(o, c) \ Covered("scoped", stream, o, c)],
         transactions |-> EpochRows(selected, "transactions", o, c),
         closes       |-> EpochRows(selected, "closes", o, c),
         owned        |-> Lineage(selected, o, c),
         conflicts    |-> Blocking("scoped", o, c)]
  BY DEF Calculated, selected
<1> QED
  BY <1>1, <1>2, <1>5, <1>6, <1>8 DEF ScopedContent

LEMMA QuietOutcome ==
    ASSUME outcome'.said \notin {"accepted", "conflict"}
    PROVE  AcceptedIsTrue' /\ ScopedNamesAll'
BY DEF AcceptedIsTrue, ScopedNamesAll

LEMMA CalmIsQuiet ==
    ASSUME outcome' = Calm
    PROVE  AcceptedIsTrue' /\ ScopedNamesAll'
BY QuietOutcome DEF Calm

LEMMA InstantIsNat == ASSUME instant \in Instants PROVE instant \in Nat /\ instant <= LastInstant
BY InstantAssumption DEF Instants

\* The journal stays true of the wallet, whatever else happens later.
LEMMA JournalStaysTrue ==
    ASSUME WalletInv, WalletInv', BooksInv, books' = books, instant <= instant',
           wallet.moved \subseteq wallet'.moved,
           \A move \in wallet'.moved : move \in wallet.moved \/ instant <= move[2]
    PROVE  BooksInv'
<1>1. /\ instant \in Nat /\ instant' \in Nat
  BY InstantIsNat DEF WalletInv, Instants
<1>2. ASSUME NEW row \in books.rows PROVE RowInv(row)'
  BY DEF BooksInv, RowInv
<1>3. ASSUME NEW traversal \in books.traversals PROVE TraversalInv(traversal)'
  <2>1. /\ traversal.to \in Nat /\ traversal.to < instant
    BY DEF BooksInv, TraversalInv
  <2>2. traversal.to < instant'
    BY <1>1, <2>1
  <2>3. ASSUME NEW name \in Movements, NEW at \in Instants, <<name, at>> \in wallet'.moved,
               at \in traversal.from .. traversal.to, Tells(traversal.stream, name)
        PROVE  \E row \in books.rows :
                  row.stream = traversal.stream /\ row.of = name /\ row.at = at
    <3>1. at \in Nat /\ at <= traversal.to
      BY <2>3, InstantAssumption DEF Instants
    <3>2. <<name, at>> \in wallet.moved
      <4>1. ~(instant <= at)
        BY <1>1, <2>1, <3>1
      <4> QED
        BY <2>3, <4>1
    <3> QED
      BY <2>3, <3>2 DEF BooksInv, TraversalInv
  <2> QED
    BY <2>1, <2>2, <2>3 DEF TraversalInv
<1>4. \A anchor \in books.anchors : AnchorInv(anchor)
  BY DEF BooksInv
<1>5. \A report \in books.reports : ReportInv(report)'
  BY DEF BooksInv, ReportInv
<1>6. books' \in [anchors : {books'.anchors}, rows : {books'.rows},
                  traversals : {books'.traversals}, reports : {books'.reports},
                  claimed : {books'.claimed}]
  BY DEF BooksInv
<1> QED
  BY <1>2, <1>3, <1>4, <1>5, <1>6 DEF BooksInv

\* A capture that is not touched stays in order while the clock goes on.
LEMMA CaptureStays ==
    ASSUME WalletInv, WalletInv', NEW capture, CaptureInv(capture), instant <= instant'
    PROVE  CaptureInv(capture)'
<1>1. /\ instant \in Nat /\ instant' \in Nat
  BY InstantIsNat DEF WalletInv, Instants
<1> QED
  BY <1>1 DEF CaptureInv

LEMMA InstantPassesKept == ASSUME EpochInv, InstantPasses PROVE EpochInv'
<1>1. /\ instant' = instant + 1 /\ wallet' = wallet /\ books' = books /\ outcome' = Calm
      /\ instant < LastInstant
  BY DEF InstantPasses
<1>2. instant \in Nat /\ WalletInv
  BY InstantIsNat DEF EpochInv, WalletInv
<1>3. instant' \in Instants /\ instant <= instant'
  BY <1>1, <1>2, InstantAssumption DEF Instants
<1>4. WalletInv'
  <2>1. \A move \in wallet.moved : move[2] <= instant + 1
    <3> SUFFICES ASSUME NEW move \in wallet.moved PROVE move[2] <= instant + 1
      OBVIOUS
    <3>1. move[2] <= instant /\ move[2] \in Nat
      BY <1>2, InstantAssumption DEF WalletInv, Instants
    <3> QED
      BY <1>2, <3>1
  <2> QED
    BY <1>1, <1>2, <1>3, <2>1 DEF WalletInv
<1>5. CaptureInv(wallet.capture)'
  BY <1>1, <1>2, <1>3, <1>4, CaptureStays DEF EpochInv
<1>6. BooksInv'
  BY <1>1, <1>2, <1>3, <1>4, JournalStaysTrue DEF EpochInv
<1> QED
  BY <1>1, <1>4, <1>5, <1>6, CalmIsQuiet DEF EpochInv

LEMMA HappensKept == ASSUME EpochInv, NEW name \in Movements, Happens(name) PROVE EpochInv'
<1>1. /\ wallet' = [wallet EXCEPT !.moved = @ \cup {<<name, instant>>}]
      /\ instant' = instant /\ books' = books /\ outcome' = Calm /\ ~Moved(name)
  BY DEF Happens
<1>2. WalletInv /\ instant \in Nat /\ instant \in Instants
  BY InstantIsNat DEF EpochInv, WalletInv
<1>3. /\ wallet'.moved = wallet.moved \cup {<<name, instant>>}
      /\ wallet'.restated = wallet.restated /\ wallet'.capture = wallet.capture
  BY <1>1, <1>2 DEF WalletInv
<1>4. WalletInv'
  <2>1. wallet' \in [moved : SUBSET (Movements \X Instants), restated : {wallet'.restated},
                     capture : {wallet'.capture}]
    BY <1>1, <1>2, <1>3 DEF WalletInv
  <2>2. \A move \in wallet'.moved : move[2] <= instant
    BY <1>2, <1>3 DEF WalletInv
  <2>3. \A move \in wallet.moved : move[1] # name
    <3> SUFFICES ASSUME NEW move \in wallet.moved, move[1] = name PROVE FALSE
      OBVIOUS
    <3>1. move[2] \in Instants /\ move = <<name, move[2]>>
      BY <1>2 DEF WalletInv
    <3> QED
      BY <1>1, <3>1 DEF Moved
  <2>4. \A one, two \in wallet'.moved : (one[1] = two[1]) => (one = two)
    BY <1>2, <1>3, <2>3 DEF WalletInv
  <2> QED
    BY <1>1, <1>2, <2>1, <2>2, <2>4 DEF WalletInv
<1>5. CaptureInv(wallet.capture)'
  BY <1>1, <1>3 DEF EpochInv, CaptureInv
<1>6. BooksInv'
  <2>1. \A move \in wallet'.moved : move \in wallet.moved \/ instant <= move[2]
    BY <1>2, <1>3
  <2>2. instant <= instant'
    BY <1>1, <1>2
  <2> QED
    BY <1>1, <1>2, <1>3, <1>4, <2>1, <2>2, JournalStaysTrue DEF EpochInv
<1> QED
  BY <1>1, <1>4, <1>5, <1>6, CalmIsQuiet DEF EpochInv

\* Only the capture or what was restated changes.
LEMMA MovedStays ==
    ASSUME EpochInv, instant' = instant \/ instant' = instant + 1, instant' \in Instants,
           books' = books, outcome' = Calm, NEW capture, NEW restated,
           wallet' = [wallet EXCEPT !.capture = capture, !.restated = restated],
           CaptureInv(capture)'
    PROVE  EpochInv'
<1>1. WalletInv /\ instant \in Nat
  BY InstantIsNat DEF EpochInv, WalletInv
<1>2. wallet'.moved = wallet.moved /\ wallet'.capture = capture /\ wallet'.restated = restated
  BY <1>1 DEF WalletInv
<1>3. instant <= instant'
  BY <1>1
<1>4. WalletInv'
  <2>1. wallet' \in [moved : SUBSET (Movements \X Instants), restated : {wallet'.restated},
                     capture : {wallet'.capture}]
    BY <1>1, <1>2 DEF WalletInv
  <2>2. \A move \in wallet.moved : move[2] <= instant'
    <3> SUFFICES ASSUME NEW move \in wallet.moved PROVE move[2] <= instant'
      OBVIOUS
    <3>1. move[2] <= instant /\ move[2] \in Nat
      BY <1>1, InstantAssumption DEF WalletInv, Instants
    <3> QED
      BY <1>1, <3>1
  <2> QED
    BY <1>1, <1>2, <2>1, <2>2 DEF WalletInv
<1>5. BooksInv'
  BY <1>1, <1>2, <1>3, <1>4, JournalStaysTrue DEF EpochInv
<1> QED
  BY <1>2, <1>4, <1>5, CalmIsQuiet DEF EpochInv

LEMMA IsRestatedKept ==
    ASSUME EpochInv, NEW stream, NEW name, IsRestated(stream, name)
    PROVE  EpochInv'
<1>1. /\ instant' = instant /\ books' = books /\ outcome' = Calm /\ instant \in Instants
  BY DEF IsRestated, EpochInv, WalletInv
<1>2. PICK restated : wallet' = [wallet EXCEPT !.restated = restated]
  BY DEF IsRestated
<1>3. wallet' = [wallet EXCEPT !.capture = wallet.capture, !.restated = restated]
  BY <1>2 DEF EpochInv, WalletInv
<1>4. CaptureInv(wallet.capture)
  BY DEF EpochInv
<1>5. PICK capture : capture = wallet.capture
  OBVIOUS
<1>6. CaptureInv(capture)'
  BY <1>1, <1>4, <1>5 DEF CaptureInv
<1> QED
  BY <1>1, <1>3, <1>5, <1>6, MovedStays

\* A step of a capture.
LEMMA CaptureGoesOn ==
    ASSUME EpochInv, instant' = instant \/ instant' = instant + 1, instant' \in Instants,
           books' = books, outcome' = Calm, NEW capture,
           wallet' = [wallet EXCEPT !.capture = capture], CaptureInv(capture)'
    PROVE  EpochInv'
<1>1. wallet' = [wallet EXCEPT !.capture = capture, !.restated = wallet.restated]
  BY DEF EpochInv, WalletInv
<1> QED
  BY <1>1, MovedStays

LEMMA BeginCaptureKept == ASSUME EpochInv, NEW kind, BeginCapture(kind) PROVE EpochInv'
<1>1. instant' = instant /\ books' = books /\ outcome' = Calm /\ instant \in Instants
  BY DEF BeginCapture, EpochInv, WalletInv
<1>4. PICK capture : capture = [step |-> "begun", kind |-> kind, before |-> instant]
  OBVIOUS
<1>2. wallet' = [wallet EXCEPT !.capture = capture]
  BY <1>4 DEF BeginCapture
<1>3. CaptureInv(capture)'
  BY <1>1, <1>4, InstantIsNat DEF CaptureInv
<1> QED
  BY <1>1, <1>2, <1>3, CaptureGoesOn

LEMMA WalletIsReadKept == ASSUME EpochInv, WalletIsRead PROVE EpochInv'
<1>1. /\ instant' = instant + 1 /\ books' = books /\ outcome' = Calm /\ instant < LastInstant
      /\ wallet.capture.step = "begun" /\ instant \in Instants /\ CaptureInv(wallet.capture)
  BY DEF WalletIsRead, EpochInv, WalletInv
<1>2. instant \in Nat /\ instant' \in Instants
  BY <1>1, InstantIsNat, InstantAssumption DEF Instants
<1>3. PICK kind, balance :
         wallet' = [wallet EXCEPT !.capture =
                       [step |-> "read", kind |-> kind, before |-> wallet.capture.before,
                        read |-> instant, balance |-> balance]]
  BY DEF WalletIsRead, EpochInv, WalletInv
<1>6. PICK capture :
         capture = [step |-> "read", kind |-> kind, before |-> wallet.capture.before,
                    read |-> instant, balance |-> balance]
  OBVIOUS
<1>4. CaptureInv(capture)'
  <2>1. wallet.capture.before \in Nat /\ wallet.capture.before <= instant
    BY <1>1 DEF CaptureInv
  <2> QED
    BY <1>1, <1>2, <1>6, <2>1 DEF CaptureInv
<1>5. wallet' = [wallet EXCEPT !.capture = capture]
  BY <1>3, <1>6
<1> QED
  BY <1>1, <1>2, <1>4, <1>5, CaptureGoesOn

LEMMA WalletIsAnsweredKept == ASSUME EpochInv, WalletIsAnswered PROVE EpochInv'
<1>1. /\ instant' = instant /\ books' = books /\ outcome' = Calm
      /\ wallet.capture.step = "read" /\ instant \in Instants /\ CaptureInv(wallet.capture)
  BY DEF WalletIsAnswered, EpochInv, WalletInv
<1>2. instant \in Nat
  BY <1>1, InstantIsNat
<1>3. PICK kind, balance :
         wallet' = [wallet EXCEPT !.capture =
                       [step |-> "answered", kind |-> kind, before |-> wallet.capture.before,
                        read |-> wallet.capture.read, balance |-> balance,
                        boundary |-> instant]]
  BY DEF WalletIsAnswered, EpochInv, WalletInv
<1>6. PICK capture :
         capture = [step |-> "answered", kind |-> kind, before |-> wallet.capture.before,
                    read |-> wallet.capture.read, balance |-> balance, boundary |-> instant]
  OBVIOUS
<1>4. CaptureInv(capture)'
  <2>1. /\ wallet.capture.before \in Nat /\ wallet.capture.before <= instant
        /\ wallet.capture.read \in Nat /\ wallet.capture.before <= wallet.capture.read
        /\ wallet.capture.read < instant
    BY <1>1 DEF CaptureInv
  <2> QED
    BY <1>1, <1>2, <1>6, <2>1 DEF CaptureInv
<1>5. wallet' = [wallet EXCEPT !.capture = capture]
  BY <1>3, <1>6
<1> QED
  BY <1>1, <1>4, <1>5, CaptureGoesOn

LEMMA CaptureFailsKept == ASSUME EpochInv, CaptureFails PROVE EpochInv'
<1>1. /\ instant' = instant /\ books' = books /\ outcome' = Calm /\ instant \in Instants
      /\ wallet' = [wallet EXCEPT !.capture = NoCapture]
  BY DEF CaptureFails, EpochInv, WalletInv
<1>2. PICK capture : capture = NoCapture
  OBVIOUS
<1>3. CaptureInv(capture)'
  BY <1>2 DEF CaptureInv, NoCapture
<1> QED
  BY <1>1, <1>2, <1>3, CaptureGoesOn

\* What is in the journal is more at each step, and nothing in it changes.
LEMMA JournalGrows ==
    ASSUME EpochInv, wallet'.moved = wallet.moved, instant <= instant', instant' \in Instants,
           books.rows \subseteq books'.rows, books.anchors \subseteq books'.anchors,
           books' \in [anchors : {books'.anchors}, rows : {books'.rows},
                       traversals : {books'.traversals}, reports : {books'.reports},
                       claimed : {books'.claimed}],
           \A anchor \in books'.anchors \ books.anchors : AnchorInv(anchor),
           \A row \in books'.rows \ books.rows : RowInv(row)',
           \A traversal \in books'.traversals \ books.traversals : TraversalInv(traversal)',
           \A report \in books'.reports \ books.reports : ReportInv(report)'
    PROVE  BooksInv'
<1>1. WalletInv /\ BooksInv /\ instant \in Nat /\ instant' \in Nat
  BY InstantIsNat DEF EpochInv, WalletInv, Instants
<1>2. ASSUME NEW row \in books.rows PROVE RowInv(row)'
  BY <1>1 DEF BooksInv, RowInv
<1>3. ASSUME NEW traversal \in books.traversals PROVE TraversalInv(traversal)'
  <2>1. /\ traversal.to \in Nat /\ traversal.to < instant
    BY <1>1 DEF BooksInv, TraversalInv
  <2>2. traversal.to < instant'
    BY <1>1, <2>1
  <2>3. ASSUME NEW name \in Movements, NEW at \in Instants, <<name, at>> \in wallet.moved,
               at \in traversal.from .. traversal.to, Tells(traversal.stream, name)
        PROVE  \E row \in books'.rows :
                  row.stream = traversal.stream /\ row.of = name /\ row.at = at
    BY <1>1, <2>3 DEF BooksInv, TraversalInv
  <2> QED
    BY <2>1, <2>2, <2>3 DEF TraversalInv
<1>4. ASSUME NEW report \in books.reports PROVE ReportInv(report)'
  BY <1>1 DEF BooksInv, ReportInv
<1>5. \A anchor \in books'.anchors : AnchorInv(anchor)
  BY <1>1 DEF BooksInv
<1> QED
  BY <1>2, <1>3, <1>4, <1>5 DEF BooksInv

LEMMA KeepAnchorKept == ASSUME EpochInv, KeepAnchor PROVE EpochInv'
<1>1. /\ instant' = instant /\ outcome' = Calm /\ wallet.capture.step = "answered"
      /\ wallet' = [wallet EXCEPT !.capture = NoCapture]
      /\ instant \in Instants /\ CaptureInv(wallet.capture) /\ WalletInv /\ BooksInv
  BY DEF KeepAnchor, EpochInv, WalletInv
<1>2. PICK anchor :
         anchor = [kind |-> wallet.capture.kind, before |-> wallet.capture.before,
                   read |-> wallet.capture.read, boundary |-> wallet.capture.boundary,
                   after |-> instant, balance |-> wallet.capture.balance]
  OBVIOUS
<1>3. books' = [books EXCEPT !.anchors = @ \cup {anchor}]
  BY <1>2 DEF KeepAnchor
<1>4. instant \in Nat
  BY <1>1, InstantIsNat
<1>5. AnchorInv(anchor)
  BY <1>1, <1>2, <1>4 DEF CaptureInv, AnchorInv
<1>6. /\ wallet'.moved = wallet.moved /\ wallet'.capture = NoCapture
      /\ wallet'.restated = wallet.restated
  BY <1>1 DEF WalletInv
<1>7. WalletInv'
  <2>1. wallet' \in [moved : SUBSET (Movements \X Instants), restated : {wallet'.restated},
                     capture : {wallet'.capture}]
    BY <1>1, <1>6 DEF WalletInv
  <2> QED
    BY <1>1, <1>6, <2>1 DEF WalletInv
<1>8. CaptureInv(wallet.capture)'
  BY <1>6 DEF CaptureInv, NoCapture
<1>9. /\ books'.anchors = books.anchors \cup {anchor} /\ books'.rows = books.rows
      /\ books'.traversals = books.traversals /\ books'.reports = books.reports
      /\ books'.claimed = books.claimed
  BY <1>1, <1>3 DEF BooksInv
<1>10. books' \in [anchors : {books'.anchors}, rows : {books'.rows},
                   traversals : {books'.traversals}, reports : {books'.reports},
                   claimed : {books'.claimed}]
  BY <1>1, <1>3, <1>9 DEF BooksInv
<1>11. instant <= instant'
  BY <1>1, <1>4
<1>12. BooksInv'
  BY <1>1, <1>5, <1>6, <1>9, <1>10, <1>11, JournalGrows
<1> QED
  BY <1>1, <1>7, <1>8, <1>12, CalmIsQuiet DEF EpochInv

LEMMA RunClaimsOrderKept == ASSUME EpochInv, RunClaimsOrder PROVE EpochInv'
<1>1. /\ instant' = instant /\ outcome' = Calm /\ wallet' = wallet
      /\ books' = [books EXCEPT !.claimed = TRUE]
      /\ instant \in Instants /\ CaptureInv(wallet.capture) /\ WalletInv /\ BooksInv
  BY DEF RunClaimsOrder, EpochInv, WalletInv
<1>2. WalletInv' /\ CaptureInv(wallet.capture)' /\ instant <= instant'
  BY <1>1, InstantIsNat DEF WalletInv, CaptureInv
<1>3. /\ books'.anchors = books.anchors /\ books'.rows = books.rows
      /\ books'.traversals = books.traversals /\ books'.reports = books.reports
  BY <1>1 DEF BooksInv
<1>4. books' \in [anchors : {books'.anchors}, rows : {books'.rows},
                  traversals : {books'.traversals}, reports : {books'.reports},
                  claimed : {books'.claimed}]
  BY <1>1, <1>3 DEF BooksInv
<1>5. BooksInv'
  BY <1>1, <1>2, <1>3, <1>4, JournalGrows
<1> QED
  BY <1>1, <1>2, <1>5, CalmIsQuiet DEF EpochInv

\* What the exchange shows of a stream is of what happened, and leaves out nothing.
LEMMA RowsAreTrue ==
    ASSUME WalletInv, NEW stream \in Streams
    PROVE  /\ \A row \in RowsOf(stream) : row.stream = stream /\ RowInv(row)
           /\ \A name \in Movements, at \in Instants :
                 <<name, at>> \in wallet.moved /\ Tells(stream, name) =>
                    \E row \in RowsOf(stream) :
                        row.stream = stream /\ row.of = name /\ row.at = at
<1> DEFINE told == {move \in wallet.moved :
                       CASE stream = "transactions" -> TRUE
                         [] stream = "executions"   -> MovementOf[move[1]].kind = "fill"
                         [] stream = "closes"       -> MovementOf[move[1]].closes}
<1>1. \A move \in told : Tells(stream, move[1])
  BY DEF Tells, Streams
<1>2. ASSUME NEW row \in RowsOf(stream) PROVE row.stream = stream /\ RowInv(row)
  <2>1. PICK move \in told :
           row = [stream  |-> stream,
                  of      |-> move[1],
                  at      |-> move[2],
                  content |-> IF <<stream, move[1]>> \in wallet.restated THEN "other"
                              ELSE "first",
                  fills   |-> IF stream = "closes" THEN Cardinality(Fills) ELSE 0]
    BY DEF RowsOf
  <2>2. move[1] \in Movements /\ move[2] \in Instants /\ move = <<move[1], move[2]>>
        /\ move \in wallet.moved
    BY DEF WalletInv
  <2>3. /\ row.stream = stream /\ row.of = move[1] /\ row.at = move[2]
        /\ row.content \in {"first", "other"}
    BY <2>1
  <2>4. row.stream = "closes" => MovementOf[row.of].closes
    BY <1>1, <2>3 DEF Tells
  <2> QED
    BY <2>2, <2>3, <2>4 DEF RowInv
<1>3. ASSUME NEW name \in Movements, NEW at \in Instants, <<name, at>> \in wallet.moved,
             Tells(stream, name)
      PROVE  \E row \in RowsOf(stream) : row.stream = stream /\ row.of = name /\ row.at = at
  <2>1. PICK move : move = <<name, at>>
    OBVIOUS
  <2>2. move \in told /\ move[1] = name /\ move[2] = at
    BY <1>3, <2>1 DEF Tells, Streams
  <2>3. PICK row : row = [stream  |-> stream,
                          of      |-> move[1],
                          at      |-> move[2],
                          content |-> IF <<stream, move[1]>> \in wallet.restated THEN "other"
                                      ELSE "first",
                          fills   |-> IF stream = "closes" THEN Cardinality(Fills) ELSE 0]
    OBVIOUS
  <2>4. row \in RowsOf(stream)
    BY <2>2, <2>3 DEF RowsOf
  <2> QED
    BY <2>2, <2>3, <2>4
<1> QED
  BY <1>2, <1>3

LEMMA ImportHistoryKept ==
    ASSUME EpochInv, NEW span \in Spans, NEW lost \in SUBSET Streams, ImportHistory(span, lost)
    PROVE  EpochInv'
<1>1. /\ instant' = instant + 1 /\ outcome' = Calm /\ wallet' = wallet
      /\ instant < LastInstant /\ span[2] <= instant
      /\ instant \in Instants /\ CaptureInv(wallet.capture) /\ WalletInv /\ BooksInv
  BY DEF ImportHistory, EpochInv, WalletInv
<1>2. instant \in Nat /\ span[1] \in Nat /\ span[2] \in Nat /\ instant' \in Instants
      /\ instant <= instant' /\ LastInstant \in Nat
  BY <1>1, InstantIsNat, InstantAssumption DEF Instants
<1> DEFINE rows == {row \in UNION {RowsOf(stream) : stream \in Streams \ lost} :
                       row.at \in span[1] .. span[2]}
<1>3. PICK number, contested :
         books' = [books EXCEPT
                     !.rows = @ \cup rows,
                     !.traversals = @ \cup
                         {[stream |-> stream, from |-> span[1], to |-> span[2],
                           number |-> number,
                           disputed |-> IF stream = "transactions" THEN contested ELSE {}] :
                             stream \in Streams \ lost}]
  BY DEF ImportHistory
<1> DEFINE traversals == {[stream |-> stream, from |-> span[1], to |-> span[2],
                           number |-> number,
                           disputed |-> IF stream = "transactions" THEN contested ELSE {}] :
                             stream \in Streams \ lost}
<1>4. ASSUME NEW row \in rows PROVE RowInv(row)
  BY <1>1, RowsAreTrue
<1>5. \A row \in rows : RowInv(row)'
  BY <1>1, <1>4 DEF RowInv
<1>6. ASSUME NEW name \in Movements, NEW at \in Instants, NEW stream \in Streams \ lost,
             <<name, at>> \in wallet.moved, at \in span[1] .. span[2], Tells(stream, name)
      PROVE  \E row \in rows : row.stream = stream /\ row.of = name /\ row.at = at
  <2>1. PICK row \in RowsOf(stream) : row.stream = stream /\ row.of = name /\ row.at = at
    BY <1>1, <1>6, RowsAreTrue
  <2>2. row \in UNION {RowsOf(other) : other \in Streams \ lost}
    BY <2>1
  <2>3. row \in rows
    BY <1>6, <2>1, <2>2
  <2> QED
    BY <2>1, <2>3
<1>7. \A traversal \in traversals :
         /\ traversal.stream \in Streams \ lost
         /\ traversal.from = span[1] /\ traversal.to = span[2]
  OBVIOUS
<1> HIDE DEF rows, traversals
<1>8. books' = [books EXCEPT !.rows = @ \cup rows, !.traversals = @ \cup traversals]
  BY <1>3 DEF traversals
<1>9. /\ books'.anchors = books.anchors /\ books'.rows = books.rows \cup rows
      /\ books'.traversals = books.traversals \cup traversals
      /\ books'.reports = books.reports /\ books'.claimed = books.claimed
  BY <1>1, <1>8 DEF BooksInv
<1>10. books' \in [anchors : {books'.anchors}, rows : {books'.rows},
                   traversals : {books'.traversals}, reports : {books'.reports},
                   claimed : {books'.claimed}]
  BY <1>1, <1>8, <1>9 DEF BooksInv
<1>11. ASSUME NEW traversal \in traversals PROVE TraversalInv(traversal)'
  <2>1. traversal.to \in Nat /\ traversal.to < instant'
    BY <1>1, <1>2, <1>7
  <2>2. ASSUME NEW name \in Movements, NEW at \in Instants, <<name, at>> \in wallet.moved,
               at \in traversal.from .. traversal.to, Tells(traversal.stream, name)
        PROVE  \E row \in books'.rows :
                  row.stream = traversal.stream /\ row.of = name /\ row.at = at
    <3>1. PICK row \in rows :
             row.stream = traversal.stream /\ row.of = name /\ row.at = at
      BY <1>6, <1>7, <2>2
    <3> QED
      BY <1>9, <3>1
  <2> QED
    BY <1>1, <2>1, <2>2 DEF TraversalInv
<1>12. WalletInv'
  <2>1. \A move \in wallet.moved : move[2] <= instant'
    <3> SUFFICES ASSUME NEW move \in wallet.moved PROVE move[2] <= instant'
      OBVIOUS
    <3>1. move[2] <= instant /\ move[2] \in Nat
      BY <1>1, InstantAssumption DEF WalletInv, Instants
    <3> QED
      BY <1>1, <1>2, <3>1
  <2> QED
    BY <1>1, <1>2, <2>1 DEF WalletInv
<1>13. CaptureInv(wallet.capture)'
  BY <1>1, <1>2, <1>12, CaptureStays
<1>14. BooksInv'
  <2>1. \A traversal \in books'.traversals \ books.traversals : TraversalInv(traversal)'
    BY <1>9, <1>11
  <2>2. \A row \in books'.rows \ books.rows : RowInv(row)'
    BY <1>5, <1>9
  <2> QED
    BY <1>1, <1>2, <1>9, <1>10, <2>1, <2>2, JournalGrows
<1> QED
  BY <1>1, <1>12, <1>13, <1>14, CalmIsQuiet DEF EpochInv

LEMMA ReconcileKept ==
    ASSUME EpochInv, NEW policy \in Policies, NEW o \in books.anchors, NEW c \in books.anchors,
           Reconcile(policy, o, c)
    PROVE  EpochInv'
<1>1. instant' = instant /\ wallet' = wallet
      /\ instant \in Instants /\ CaptureInv(wallet.capture) /\ WalletInv /\ BooksInv
  BY DEF Reconcile, EpochInv, WalletInv
<1>2. WalletInv' /\ CaptureInv(wallet.capture)' /\ instant <= instant'
  BY <1>1, InstantIsNat DEF WalletInv, CaptureInv
<1>3. PICK report : report = Calculated(policy, o, c)
  OBVIOUS
<1>4. /\ report = [policy |-> report.policy, opening |-> report.opening,
                   closing |-> report.closing, dependencies |-> report.dependencies,
                   content |-> report.content]
      /\ report.policy = policy /\ report.opening = o /\ report.closing = c
  BY <1>3 DEF Calculated
<1>5. policy = "scoped" => report.content = ScopedContent(report.dependencies, o, c)
  BY <1>3, ScopedIsMadeOfItsNames
<1>6. CASE /\ outcome' = [said |-> "conflict", report |-> report]
           /\ books' = books
           /\ \E stored \in books.reports :
                 SameReport(stored, report) /\ stored.content # report.content
  <2>1. PICK stored \in books.reports :
           SameReport(stored, report) /\ stored.content # report.content
    BY <1>6
  <2>2. ReportInv(stored)
    BY <1>1 DEF BooksInv
  <2>3. PICK a, b, d, e, f : stored = [policy |-> a, opening |-> b, closing |-> d,
                                       dependencies |-> e, content |-> f]
    BY <2>2 DEF ReportInv
  <2>4. PICK g, h, i, j, k : report = [policy |-> g, opening |-> h, closing |-> i,
                                       dependencies |-> j, content |-> k]
    BY <1>4
  <2>5. [policy |-> a, opening |-> b, closing |-> d, dependencies |-> e, content |-> {}]
           = [policy |-> g, opening |-> h, closing |-> i, dependencies |-> j, content |-> {}]
    BY <2>1, <2>3, <2>4 DEF SameReport
  <2>6. a = g /\ b = h /\ d = i /\ e = j
    BY <2>5
  <2>7. /\ stored.policy = report.policy /\ stored.opening = report.opening
        /\ stored.closing = report.closing /\ stored.dependencies = report.dependencies
    BY <2>3, <2>4, <2>6
  <2>8. policy # "scoped"
    BY <1>4, <1>5, <2>1, <2>2, <2>7 DEF ReportInv
  <2>9. outcome'.said = "conflict" /\ outcome'.report.policy = "account"
    BY <1>4, <1>6, <2>8 DEF Policies
  <2>10. AcceptedIsTrue' /\ ScopedNamesAll'
    BY <2>9 DEF AcceptedIsTrue, ScopedNamesAll
  <2>11. BooksInv'
    BY <1>1, <1>2, <1>6, JournalStaysTrue
  <2> QED
    BY <1>2, <2>10, <2>11 DEF EpochInv
<1>7. CASE /\ outcome' = [said |-> "appended", report |-> report]
           /\ books' = [books EXCEPT !.reports = @ \cup {report}]
  <2>1. /\ books'.anchors = books.anchors /\ books'.rows = books.rows
        /\ books'.traversals = books.traversals /\ books'.claimed = books.claimed
        /\ books'.reports = books.reports \cup {report}
    BY <1>1, <1>7 DEF BooksInv
  <2>2. books' \in [anchors : {books'.anchors}, rows : {books'.rows},
                    traversals : {books'.traversals}, reports : {books'.reports},
                    claimed : {books'.claimed}]
    BY <1>1, <1>7, <2>1 DEF BooksInv
  <2>3. ReportInv(report)'
    BY <1>4, <1>5, <2>1 DEF ReportInv
  <2>4. BooksInv'
    BY <1>1, <1>2, <2>1, <2>2, <2>3, JournalGrows
  <2>5. AcceptedIsTrue' /\ ScopedNamesAll'
    BY <1>7, QuietOutcome
  <2> QED
    BY <1>2, <2>4, <2>5 DEF EpochInv
<1> QED
  BY <1>3, <1>6, <1>7 DEF Reconcile

\* What AcceptedIsTrue says of the report that was accepted.
TrueReport(report) ==
    LET moves == TrueMoves(report)
        executed == {<<row.of, row.at>> : row \in Journaled("executions")}
        profits == {move \in moves : MovementOf[move[1]].closes}
    IN  /\ {<<row.of, row.at>> : row \in report.content.transactions} = moves
        /\ {<<row.of, row.at>> : row \in report.content.closes} = profits
        /\ \A move \in moves :
              /\ ~Contradicted(move[1])
              /\ (MovementOf[move[1]].kind = "fill") => move \in executed
        /\ report.content.owned = (books.claimed /\ profits # {})

\* A report without a reason against it has none of these.
LEMMA NoReasons ==
    ASSUME NEW policy, NEW selected, NEW o, NEW c, Reasons(policy, selected, o, c) = {}
    PROVE  /\ o.boundary < c.boundary
           /\ \A stream \in Streams : Covered(policy, stream, o, c) = CoverageSpan(o, c)
           /\ Blocking(policy, o, c) = {}
           /\ \A row \in selected : ~InBracket(row.at, o, c)
           /\ \A row \in EpochRows(selected, "transactions", o, c) :
                 MovementOf[row.of].coin \in Included
<1> DEFINE transactions == EpochRows(selected, "transactions", o, c)
           accounted == AccountedCoins(policy, o, c, transactions)
           epoch == ~(o.boundary < c.boundary)
           gap == \E stream \in Streams : Covered(policy, stream, o, c) # CoverageSpan(o, c)
           conflict == Blocking(policy, o, c) # {}
           ambiguous == \E row \in selected : InBracket(row.at, o, c)
           unpaired == ~PairedAlone(EpochRows(selected, "executions", o, c),
                                    {row \in transactions : OrderRow(row)})
           close == \E close \in EpochRows(selected, "closes", o, c) :
                       Cardinality({row \in selected : row.stream = "executions"})
                          # close.fills
           drift == \E of \in accounted : Bridged(of, o, transactions) # c.balance[of]
           currency == ~(accounted \cup {MovementOf[row.of].coin : row \in transactions}
                            \subseteq Included)
           reasons == [epoch |-> epoch, gap |-> gap, conflict |-> conflict,
                       ambiguous |-> ambiguous, unpaired |-> unpaired, close |-> close,
                       drift |-> drift, currency |-> currency]
<1>1. {reason \in DOMAIN reasons : reasons[reason]} = {}
  BY DEF Reasons
<1>2. ~epoch /\ ~gap /\ ~conflict /\ ~ambiguous /\ ~currency
  <2> HIDE DEF epoch, gap, conflict, ambiguous, unpaired, close, drift, currency
  <2> QED
    BY <1>1
<1> QED
  BY <1>2

\* The moment between the readings, the brackets of the captures and the epoch.
LEMMA MomentsOfAnEpoch ==
    ASSUME NEW o, NEW c, AnchorInv(o), AnchorInv(c), NEW at \in Nat, o.boundary < c.boundary
    PROVE  /\ (o.read < at /\ at <= c.read) => (at \in CoverageSpan(o, c) /\ Near(at, o, c))
           /\ (o.read < at /\ at <= c.read /\ ~InBracket(at, o, c)) => InEpoch(at, o, c)
           /\ (InEpoch(at, o, c) /\ ~InBracket(at, o, c)) => (o.read < at /\ at <= c.read)
BY DEF AnchorInv, CoverageSpan, Near, InBracket, InEpoch

LEMMA RowsOfReports ==
    ASSUME NEW policy, NEW o, NEW c, NEW row \in Selected(policy, o, c)
    PROVE  row \in books.rows /\ row \in Canonical
BY DEF Selected, Canonical

\* What happened while the history was covered is in the journal.
LEMMA CoveredIsTold ==
    ASSUME EpochInv, NEW policy, NEW stream \in Streams, NEW o, NEW c,
           NEW name \in Movements, NEW at \in Instants,
           at \in Covered(policy, stream, o, c), <<name, at>> \in wallet.moved,
           Tells(stream, name)
    PROVE  \E row \in Journaled(stream) : row.of = name /\ row.at = at
<1>1. PICK traversal \in books.traversals :
         traversal.stream = stream /\ at \in traversal.from .. traversal.to
  BY DEF Covered, Relevant
<1>2. TraversalInv(traversal)
  BY DEF EpochInv, BooksInv
<1>3. PICK row \in books.rows : row.stream = stream /\ row.of = name /\ row.at = at
  BY <1>1, <1>2 DEF TraversalInv
<1> QED
  BY <1>3 DEF Journaled

LEMMA OneRowAnInstant ==
    ASSUME EpochInv, NEW one \in books.rows, NEW two \in books.rows, one.of = two.of
    PROVE  one.at = two.at
<1>1. /\ <<one.of, one.at>> \in wallet.moved /\ <<two.of, two.at>> \in wallet.moved
  BY DEF EpochInv, BooksInv, RowInv
<1>2. \A x, y \in wallet.moved : (x[1] = y[1]) => (x = y)
  BY DEF EpochInv, WalletInv
<1>3. <<one.of, one.at>> = <<two.of, two.at>>
  BY <1>1, <1>2
<1> QED
  BY <1>3

\* A report calculated from the journal without a reason against it tells the truth.
LEMMA ReadyIsTrue ==
    ASSUME EpochInv, NEW report, NEW policy \in Policies, NEW o \in books.anchors,
           NEW c \in books.anchors, report = Calculated(policy, o, c),
           report.content.reasons = {}
    PROVE  TrueReport(report)
<1> DEFINE selected == Selected(policy, o, c)
           transactions == EpochRows(selected, "transactions", o, c)
           closes == EpochRows(selected, "closes", o, c)
           moves == TrueMoves(report)
<1>1. /\ report.policy = policy /\ report.opening = o /\ report.closing = c
      /\ report.content.reasons = Reasons(policy, selected, o, c)
      /\ report.content.transactions = transactions
      /\ report.content.closes = closes
      /\ report.content.owned = Lineage(selected, o, c)
  BY DEF Calculated
<1>2. /\ o.boundary < c.boundary
      /\ \A stream \in Streams : Covered(policy, stream, o, c) = CoverageSpan(o, c)
      /\ Blocking(policy, o, c) = {}
      /\ \A row \in selected : ~InBracket(row.at, o, c)
      /\ \A row \in transactions : MovementOf[row.of].coin \in Included
  <2> HIDE DEF selected
  <2> QED
    BY <1>1, NoReasons
<1>3. AnchorInv(o) /\ AnchorInv(c) /\ WalletInv
  BY DEF EpochInv, BooksInv
<1>4. \A row \in selected : row \in books.rows /\ row \in Canonical /\ RowInv(row)
                            /\ row.at \in Nat
  <2> SUFFICES ASSUME NEW row \in selected
               PROVE  row \in books.rows /\ row \in Canonical /\ RowInv(row) /\ row.at \in Nat
    OBVIOUS
  <2>1. row \in books.rows /\ row \in Canonical
    BY RowsOfReports
  <2>2. RowInv(row)
    BY <2>1 DEF EpochInv, BooksInv
  <2>3. row.at \in Nat
    BY <2>2, InstantAssumption DEF RowInv, Instants
  <2> QED
    BY <2>1, <2>2, <2>3
\* What is true of a movement between the readings.
<1>5. ASSUME NEW name \in Movements, NEW at \in Instants, <<name, at>> \in moves
      PROVE  /\ <<name, at>> \in wallet.moved
             /\ at \in CoverageSpan(o, c) /\ Near(at, o, c)
             /\ ~InBracket(at, o, c) => InEpoch(at, o, c)
             /\ ~Independent(policy, name)
             /\ ~Contradicted(name)
  <2>1. /\ <<name, at>> \in wallet.moved /\ o.read < at /\ at <= c.read
        /\ policy = "scoped" => MovementOf[name].coin \in Included
    BY <1>1, <1>5 DEF TrueMoves
  <2>2. at \in Nat
    BY InstantAssumption DEF Instants
  <2>3. /\ at \in CoverageSpan(o, c) /\ Near(at, o, c)
        /\ ~InBracket(at, o, c) => InEpoch(at, o, c)
    BY <1>2, <1>3, <2>1, <2>2, MomentsOfAnEpoch
  <2>4. ~Independent(policy, name)
    BY <2>1 DEF Independent
  <2>5. ~Contradicted(name)
    <3> SUFFICES ASSUME Contradicted(name) PROVE FALSE
      OBVIOUS
    <3>1. "transactions" \in Streams /\ Tells("transactions", name)
      BY DEF Streams, Tells
    <3>2. at \in Covered(policy, "transactions", o, c)
      BY <1>2, <2>3, <3>1
    <3>3. PICK row \in Journaled("transactions") : row.of = name /\ row.at = at
      BY <2>1, <3>1, <3>2, CoveredIsTold
    <3>4. name \in Blocking(policy, o, c)
      BY <2>3, <2>4, <3>3 DEF Blocking
    <3> QED
      BY <1>2, <3>4
  <2> QED
    BY <2>1, <2>3, <2>4, <2>5
\* A row of the epoch is of a movement between the readings.
<1>6. ASSUME NEW row \in selected, InEpoch(row.at, o, c)
      PROVE  o.read < row.at /\ row.at <= c.read /\ <<row.of, row.at>> \in wallet.moved
  <2>1. ~InBracket(row.at, o, c) /\ row.at \in Nat /\ RowInv(row)
    BY <1>2, <1>4
  <2>2. o.read < row.at /\ row.at <= c.read
    BY <1>2, <1>3, <1>6, <2>1, MomentsOfAnEpoch
  <2> QED
    BY <2>1, <2>2 DEF RowInv
<1>7. \A move \in moves : move[1] \in Movements /\ move[2] \in Instants
                          /\ move = <<move[1], move[2]>>
  BY <1>3 DEF TrueMoves, WalletInv
<1> HIDE DEF moves
\* The transactions of the report are the movements.
<1>8. ASSUME NEW name \in Movements, NEW at \in Instants, <<name, at>> \in moves
      PROVE  \E row \in transactions : row.of = name /\ row.at = at
  <2>1. "transactions" \in Streams /\ Tells("transactions", name)
    BY DEF Streams, Tells
  <2>2. at \in Covered(policy, "transactions", o, c)
    BY <1>2, <1>5, <1>8, <2>1
  <2>3. PICK row \in Journaled("transactions") : row.of = name /\ row.at = at
    BY <1>5, <1>8, <2>1, <2>2, CoveredIsTold
  <2>4. row \in Canonical
    BY <1>5, <1>8, <2>3 DEF Canonical, Journaled
  <2>5. row \in selected
    BY <1>5, <1>8, <2>3, <2>4 DEF Selected
  <2>6. InEpoch(row.at, o, c)
    BY <1>2, <1>5, <1>8, <2>3, <2>5
  <2> QED
    BY <2>3, <2>5, <2>6 DEF EpochRows, Journaled
<1>9. ASSUME NEW row \in transactions
      PROVE  <<row.of, row.at>> \in moves
  <2>1. row \in selected /\ InEpoch(row.at, o, c)
    BY DEF EpochRows
  <2> QED
    BY <1>1, <1>2, <1>6, <2>1 DEF moves, TrueMoves
<1>10. {<<row.of, row.at>> : row \in transactions} = moves
  <2>1. ASSUME NEW move \in moves PROVE move \in {<<row.of, row.at>> : row \in transactions}
    <3>1. PICK row \in transactions : row.of = move[1] /\ row.at = move[2]
      BY <1>7, <1>8
    <3> QED
      BY <1>7, <3>1
  <2> QED
    BY <1>9, <2>1
\* The closed profits of the report are those of the movements.
<1> DEFINE profits == {move \in moves : MovementOf[move[1]].closes}
<1>11. ASSUME NEW move \in profits PROVE move \in {<<row.of, row.at>> : row \in closes}
  <2>1. PICK name \in Movements, at \in Instants : move = <<name, at>>
    BY <1>7
  <2>2. "closes" \in Streams /\ Tells("closes", name) /\ <<name, at>> \in moves
    BY <2>1 DEF Streams, Tells
  <2>3. at \in Covered(policy, "closes", o, c)
    BY <1>2, <1>5, <2>2
  <2>4. PICK first \in Journaled("closes") : first.of = name /\ first.at = at
    BY <1>5, <2>2, <2>3, CoveredIsTold
  <2>5. PICK row \in Journaled("closes") : row.of = name /\ row \in Canonical
    <3>1. CASE \E later \in Journaled("closes") : later.of = name /\ later.content = "other"
      BY <3>1 DEF Canonical, Journaled
    <3>2. CASE ~\E later \in Journaled("closes") : later.of = name /\ later.content = "other"
      BY <2>4, <3>2 DEF Canonical, Journaled
    <3> QED
      BY <3>1, <3>2
  <2>6. row.at = at
    BY <2>4, <2>5, OneRowAnInstant DEF Journaled
  <2>7. row \in selected
    BY <1>5, <2>2, <2>5, <2>6 DEF Selected
  <2>8. InEpoch(row.at, o, c)
    BY <1>2, <1>5, <2>2, <2>6, <2>7
  <2>9. row \in closes
    BY <2>5, <2>7, <2>8 DEF EpochRows, Journaled
  <2> QED
    BY <2>1, <2>5, <2>6, <2>9

<1>12. ASSUME NEW row \in closes
      PROVE  <<row.of, row.at>> \in profits
  <2>1. row \in selected /\ InEpoch(row.at, o, c) /\ row.stream = "closes"
    BY DEF EpochRows
  <2>2. /\ o.read < row.at /\ row.at <= c.read /\ <<row.of, row.at>> \in wallet.moved
        /\ RowInv(row) /\ row.at \in Nat
    BY <1>4, <1>6, <2>1
  <2>3. MovementOf[row.of].closes /\ row.of \in Movements /\ row.at \in Instants
    BY <2>1, <2>2 DEF RowInv
  <2>4. (policy = "scoped") => MovementOf[row.of].coin \in Included
    <3>1. "transactions" \in Streams /\ Tells("transactions", row.of)
      BY DEF Streams, Tells
    <3>2. row.at \in CoverageSpan(o, c) /\ Near(row.at, o, c)
      BY <1>2, <1>3, <2>2, MomentsOfAnEpoch
    <3>3. row.at \in Covered(policy, "transactions", o, c)
      BY <1>2, <3>1, <3>2
    <3>4. PICK trade \in Journaled("transactions") : trade.of = row.of /\ trade.at = row.at
      BY <2>2, <2>3, <3>1, <3>3, CoveredIsTold
    <3>5. SUFFICES ASSUME policy = "scoped", MovementOf[row.of].coin \notin Included
                   PROVE  FALSE
      OBVIOUS
    <3>6. ~Independent(policy, row.of)
      BY <2>1, <3>2 DEF Selected, Independent, OrderRow
    <3>7. ~Contradicted(row.of)
      BY <1>2, <2>3, <3>2, <3>4, <3>6 DEF Blocking
    <3>8. trade \in selected
      BY <3>2, <3>4, <3>6, <3>7 DEF Selected, Canonical, Journaled
    <3>9. trade \in transactions
      BY <2>1, <3>4, <3>8 DEF EpochRows, Journaled
    <3> QED
      BY <1>2, <3>4, <3>5, <3>9
  <2>5. <<row.of, row.at>> \in moves
    BY <1>1, <2>2, <2>4 DEF moves, TrueMoves
  <2> QED
    BY <2>3, <2>5
<1>13. {<<row.of, row.at>> : row \in closes} = profits
  BY <1>11, <1>12
\* Every fill has its execution.
<1>14. ASSUME NEW move \in moves
       PROVE  /\ ~Contradicted(move[1])
              /\ (MovementOf[move[1]].kind = "fill") =>
                    move \in {<<row.of, row.at>> : row \in Journaled("executions")}
  <2>1. PICK name \in Movements, at \in Instants : move = <<name, at>>
    BY <1>7
  <2>2. ~Contradicted(name)
    BY <1>5, <2>1
  <2>3. ASSUME MovementOf[name].kind = "fill"
        PROVE  move \in {<<row.of, row.at>> : row \in Journaled("executions")}
    <3>1. "executions" \in Streams /\ Tells("executions", name)
      BY <2>3 DEF Streams, Tells
    <3>2. at \in Covered(policy, "executions", o, c)
      BY <1>2, <1>5, <2>1, <3>1
    <3>3. PICK row \in Journaled("executions") : row.of = name /\ row.at = at
      BY <1>5, <2>1, <3>1, <3>2, CoveredIsTold
    <3> QED
      BY <2>1, <3>3
  <2> QED
    BY <2>1, <2>2, <2>3
\* A profit is the run's as the run's records say now.
<1>15. Lineage(selected, o, c) = (books.claimed /\ profits # {})
  <2>1. (closes # {}) <=> (profits # {})
    BY <1>11, <1>12
  <2> HIDE DEF profits, closes
  <2>2. Lineage(selected, o, c) = (books.claimed /\ closes # {})
    BY DEF Lineage, closes
  <2> QED
    BY <2>1, <2>2
<1>16. {<<row.of, row.at>> : row \in report.content.transactions} = TrueMoves(report)
  BY <1>1, <1>10 DEF moves
<1>17. {<<row.of, row.at>> : row \in report.content.closes}
          = {move \in TrueMoves(report) : MovementOf[move[1]].closes}
  BY <1>1, <1>13 DEF moves
<1>18. \A move \in TrueMoves(report) :
          /\ ~Contradicted(move[1])
          /\ (MovementOf[move[1]].kind = "fill") =>
                move \in {<<row.of, row.at>> : row \in Journaled("executions")}
  BY <1>14 DEF moves
<1>19. report.content.owned
          = (books.claimed /\ {move \in TrueMoves(report) : MovementOf[move[1]].closes} # {})
  BY <1>1, <1>15 DEF moves
<1> HIDE DEF selected, transactions, closes, profits
<1> QED
  BY <1>16, <1>17, <1>18, <1>19 DEF TrueReport

LEMMA ProveKept == ASSUME EpochInv, NEW report \in books.reports, Prove(report) PROVE EpochInv'
<1>1. instant' = instant /\ wallet' = wallet /\ books' = books
      /\ instant \in Instants /\ CaptureInv(wallet.capture) /\ WalletInv /\ BooksInv
  BY DEF Prove, EpochInv, WalletInv
<1>2. WalletInv' /\ CaptureInv(wallet.capture)' /\ instant <= instant'
  BY <1>1, InstantIsNat DEF WalletInv, CaptureInv
<1>3. BooksInv'
  BY <1>1, <1>2, JournalStaysTrue
<1>4. ReportInv(report)
  BY <1>1 DEF BooksInv
<1>5. CASE /\ report.content.reasons = {}
           /\ Calculated(report.policy, report.opening, report.closing) = report
  <2>1. TrueReport(report)
    BY <1>4, <1>5, ReadyIsTrue DEF ReportInv
  <2>2. TrueReport(report)'
    BY <1>1, <2>1 DEF TrueReport, TrueMoves, Journaled, Contradicted
  <2>3. outcome' = [said |-> "accepted", report |-> report]
    BY <1>5 DEF Prove
  <2>4. outcome'.report = report /\ outcome'.said = "accepted"
    BY <2>3
  <2>5. AcceptedIsTrue'
    BY <2>2, <2>4 DEF AcceptedIsTrue, TrueReport
  <2> QED
    BY <1>2, <1>3, <2>4, <2>5 DEF EpochInv, ScopedNamesAll
<1>6. CASE ~(/\ report.content.reasons = {}
             /\ Calculated(report.policy, report.opening, report.closing) = report)
  <2>1. outcome'.said = "refused"
    BY <1>6 DEF Prove
  <2> QED
    BY <1>2, <1>3, <2>1, QuietOutcome DEF EpochInv
<1> QED
  BY <1>5, <1>6

LEMMA EpochStep == EpochInv /\ [EpochNext]_epochVars => EpochInv'
<1> SUFFICES ASSUME EpochInv, [EpochNext]_epochVars PROVE EpochInv'
  OBVIOUS
<1>1. CASE UNCHANGED epochVars
  <2>1. instant' = instant /\ wallet' = wallet /\ books' = books /\ outcome' = outcome
    BY <1>1 DEF epochVars
  <2>2. WalletInv' /\ CaptureInv(wallet.capture)' /\ instant <= instant'
    BY <2>1, InstantIsNat DEF EpochInv, WalletInv, CaptureInv
  <2>3. BooksInv'
    BY <2>1, <2>2, JournalStaysTrue DEF EpochInv
  <2>4. AcceptedIsTrue' /\ ScopedNamesAll'
    BY <2>1 DEF EpochInv, AcceptedIsTrue, ScopedNamesAll, TrueMoves, Journaled, Contradicted
  <2> QED
    BY <2>2, <2>3, <2>4 DEF EpochInv
<1>2. CASE InstantPasses
  BY <1>2, InstantPassesKept
<1>3. CASE \E name \in Movements : Happens(name)
  BY <1>3, HappensKept
<1>4. CASE \E stream \in {"transactions", "closes"}, name \in Movements :
              IsRestated(stream, name)
  BY <1>4, IsRestatedKept
<1>5. CASE \E kind \in Kinds : BeginCapture(kind)
  BY <1>5, BeginCaptureKept
<1>6. CASE WalletIsRead
  BY <1>6, WalletIsReadKept
<1>7. CASE WalletIsAnswered
  BY <1>7, WalletIsAnsweredKept
<1>8. CASE KeepAnchor
  BY <1>8, KeepAnchorKept
<1>9. CASE CaptureFails
  BY <1>9, CaptureFailsKept
<1>10. CASE \E span \in Spans, lost \in SUBSET Streams : ImportHistory(span, lost)
  BY <1>10, ImportHistoryKept
<1>11. CASE RunClaimsOrder
  BY <1>11, RunClaimsOrderKept
<1>12. CASE \E policy \in Policies, o, c \in books.anchors : Reconcile(policy, o, c)
  BY <1>12, ReconcileKept
<1>13. CASE \E report \in books.reports : Prove(report)
  BY <1>13, ProveKept
<1> QED
  BY <1>1, <1>2, <1>3, <1>4, <1>5, <1>6, <1>7, <1>8, <1>9, <1>10, <1>11, <1>12, <1>13
     DEF EpochNext

\* A report that is accepted tells what moved the wallet between its two readings, all of it
\* and nothing else, whatever moved while the wallet was read, whatever was restated, and
\* whatever the imports lost (reconcileHistoryAccountingEpoch and the proof of its reports,
\* history-accounting-epoch.ts, history-accounting-proof.ts).
THEOREM AcceptedReportsAreTrue == EpochSpec => []AcceptedIsTrue
<1>1. EpochInv => AcceptedIsTrue
  BY DEF EpochInv
<1> QED
  BY <1>1, EpochStarts, EpochStep, PTL DEF EpochSpec

\* Two scoped reports of one id have one content: what a scoped report names determines it
\* (createScopedHistoryAccountingReport, history-accounting-report-v2.ts).
THEOREM ScopedReportsNameAll == EpochSpec => []ScopedNamesAll
<1>1. EpochInv => ScopedNamesAll
  BY DEF EpochInv
<1> QED
  BY <1>1, EpochStarts, EpochStep, PTL DEF EpochSpec
=============================================================================
