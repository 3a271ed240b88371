------------------------ MODULE OperatorTradeProofs -------------------------
(***************************************************************************)
(* What operator trades promise for every set of plans, processes and      *)
(* symbols.                                                                *)
(*                                                                         *)
(* The argument has three layers.  A source belongs to the process whose   *)
(* run id it carries, and that process passes the POST once, so no order   *)
(* leaves twice.  Everything that can release a source - a clean verdict,  *)
(* an attestation, a grant, a disposal - was written when the order had    *)
(* ended, and an ended order stays ended.  Last, an order that has not     *)
(* ended keeps its source pending, and a pending source keeps the gates of *)
(* others shut; that layer needs sessions in which typed commands run      *)
(* beside a plan issued for an attestation only within one symbol: across  *)
(* symbols there is the race the project shows with a run of its own.      *)
(***************************************************************************)
EXTENDS OperatorTrade, TLAPS

-----------------------------------------------------------------------------
\* The layers of the invariant.

\* A grant is for a source.
GrantsExist == \A g \in grants : Exists(g.source)

\* The exchange refused the order, or it is over, and will not change again; or a
\* misnamed acknowledgement had it recorded as refused.
Ended(p) == venue[p] \in {"refused"} \cup OverIn \/ p \in mistaken

\* The order may exist now or later, and is not a mistaken one.
Unsettled(p) == Exists(p) /\ ~Ended(p)

\* A source is owned by the process that created it, from its intent to the
\* record of its attempt.
Ownership ==
    /\ \A p \in Plans : Exists(p) => PlanOf[source[p].run] = p
    /\ \A q \in Procs : run[q].pc \in {"post", "answer", "record"} =>
          Exists(PlanOf[q]) /\ source[PlanOf[q]].run = q
    /\ \A q \in Procs : run[q].pc \in {"post", "answer"} =>
          source[PlanOf[q]].attempt = "none"

\* An order that left was posted by its owner, who is past the POST.
SentOnce ==
    \A p \in Plans : venue[p] # "absent" =>
        /\ venue[p] # "twice"
        /\ Exists(p)
        /\ run[source[p].run].pc \in {"answer", "record", "done"}

\* What is written about the end of an order is true of all but the mistaken ones.
RowsTrue ==
    \A p \in Plans : Exists(p) =>
        /\ source[p].attempt = "rejected" => Ended(p)
        /\ source[p].latest = "clean" => Ended(p)
        /\ source[p].disposed => Ended(p)
        /\ source[p].recovers # None => Ended(source[p].recovers)

\* A mistake is made in recording a rejection.
MistakesRecorded ==
    \A p \in mistaken : Exists(p) /\ source[p].attempt = "rejected"

AnswersTrue ==
    \A q \in Procs : At(q, "record") /\ run[q].answer = "rejected"
        => Ended(PlanOf[q])

LookTrue ==
    \A p \in Plans :
        /\ Asks(p, "look") /\ status.unseen = "clean" => Ended(p)
        /\ Asks(p, "append") /\ status.verdict = "clean" => Ended(p)

ReleasesTrue ==
    /\ \A g \in grants : Ended(g.source)
    /\ \A p \in Manual : attested[p] \in Plans => Ended(attested[p])

Truthful == RowsTrue /\ AnswersTrue /\ LookTrue /\ ReleasesTrue

TradeInv ==
    /\ TradeTypeOK
    /\ GrantsExist
    /\ Ownership
    /\ SentOnce
    /\ Truthful
    /\ MistakesRecorded
    /\ DoubtHoldsHalt

-----------------------------------------------------------------------------
\* The layer about several orders.

\* A session without typed commands, or in one symbol.
NoneSlipsIn(s) ==
    \/ \A q \in s \cap Procs : ~Typed(q)
    \/ \A q, r \in s \cap Procs : SymbolOf[PlanOf[q]] = SymbolOf[PlanOf[r]]

\* No session mixes, across symbols, typed commands with plans issued for an
\* attestation.
Unmixed ==
    \A s \in Sessions :
        \/ \A q \in s \cap Procs : PlanOf[q] \notin Manual
        \/ NoneSlipsIn(s)

\* Only the processes of the session are at work.
Active ==
    /\ \A q \in Procs : run[q].pc # "done" => q \in session
    /\ \A p \in Plans : Exists(p) => source[p].run \in session

GrantKinds ==
    /\ \A q \in Procs : run[q].grant # None => run[q].grant.plan = PlanOf[q]
    /\ \A g \in grants : /\ g.manual => g.plan \in Manual
                         /\ ~g.manual => source[g.source].latest = "clean"

\* Where none slips in, a grant whose source is pending is the only one, and no
\* order is unsettled beside it.
GrantsApart ==
    NoneSlipsIn(session) =>
        \A g \in grants : g.source \in PendingSources =>
            /\ \A h \in grants : h.source \in PendingSources => h = g
            /\ \A p \in Plans : ~Unsettled(p)

Doubtful(p) == Unsettled(p) /\ source[p].attempt \in {"none", "ambiguous"}

\* Two unsettled orders are in two symbols, and one of them was accepted.
Separate ==
    \A p, q \in Plans : p # q /\ Unsettled(p) /\ Unsettled(q) =>
        /\ SymbolOf[p] # SymbolOf[q]
        /\ ~(Doubtful(p) /\ Doubtful(q))

\* Whoever is about to send an order, or awaits the answer for one that is not
\* over yet, is alone with it, or is a command that knows of every unsettled order.
Known ==
    \A q \in Procs : run[q].pc \in {"post", "answer"} /\ Unsettled(PlanOf[q]) =>
        \A p \in Plans \ {PlanOf[q]} :
            Unsettled(p) => Typed(q) /\ p \in run[q].known

UnmixedInv == Active /\ GrantKinds /\ GrantsApart /\ Separate /\ Known

-----------------------------------------------------------------------------
\* Types.

\* A process that goes on remembers a well-formed run.
LEMMA GoType ==
    ASSUME run \in [Procs -> Run], NEW q \in Procs, NEW memory \in Run,
           NEW step \in {"idle", "state", "leverage", "balance", "prepare",
                         "admit", "collect", "intend", "post", "answer",
                         "record", "done"},
           Go(q, memory, step)
    PROVE  run' \in [Procs -> Run]
<1>1. Begun("done") \in Run
    BY DEF Begun, Run, Attempt
<1>2. [memory EXCEPT !.pc = step] \in Run
    BY DEF Run
<1> QED
    BY <1>1, <1>2 DEF Go

\* So does a process that reads the target state, and all others.
LEMMA ReadEvidenceType ==
    ASSUME TradeTypeOK, NEW q \in Procs, NEW memory \in Run,
           NEW step \in {"admit", "intend"}, ReadEvidence(q, memory, step)
    PROVE  run' \in [Procs -> Run]
<1>1. Evidenced \in SUBSET Plans
    BY TradeAssumption DEF Evidenced, TradeTypeOK
<1>2. [memory EXCEPT !.pc = step, !.known = Evidenced \ {PlanOf[q]}] \in Run
    BY <1>1 DEF Run
<1>3. \A r \in Procs : [run[r] EXCEPT !.known = @ \ {PlanOf[q]}] \in Run
    BY DEF Run, TradeTypeOK
<1> QED
    BY <1>2, <1>3 DEF ReadEvidence, TradeTypeOK

\* Rows are rewritten well-formed.
LEMMA RowTypes ==
    ASSUME TradeTypeOK
    PROVE  /\ \A q \in Procs, old \in Plans \cup {None} : NewSource(q, old) \in Source
           /\ \A p \in Plans : Exists(p) => source[p] \in Source
           /\ \A p \in Plans, outcome \in Attempt : Exists(p) =>
                 [source[p] EXCEPT !.attempt = outcome] \in Source
           /\ \A p \in Plans, verdict \in Verdict : Exists(p) =>
                 [source[p] EXCEPT !.latest = verdict] \in Source
           /\ \A p \in Plans : Exists(p) =>
                 /\ [source[p] EXCEPT !.declared = TRUE] \in Source
                 /\ [source[p] EXCEPT !.disposed = TRUE] \in Source
    BY TradeAssumption DEF NewSource, Source, Attempt, Verdict, TradeTypeOK,
       StoreTypeOK, Exists

\* Outdating a source leaves grants and attestations well-formed.
LEMMA OutdateType ==
    ASSUME TradeTypeOK, NEW p \in Plans, Outdate(p)
    PROVE  /\ grants' \subseteq Grant
           /\ attested' \in [Manual -> Plans \cup {None, Spent}]
    BY DEF Outdate, TradeTypeOK, StoreTypeOK

\* So does a HALT.
LEMMA RaiseSourceHaltType ==
    ASSUME TradeTypeOK, NEW p \in Plans, RaiseSourceHalt(p)
    PROVE  StoreTypeOK'
    BY DEF RaiseSourceHalt, RaisedFor, TradeTypeOK, StoreTypeOK, Exists

\* A recorded outcome leaves the store well-formed.
LEMMA AppendOutcomeType ==
    ASSUME TradeTypeOK, NEW c \in Commands,
           NEW mark \in {"already", "attempted", "verified", "refused"},
           AppendOutcome(c, mark)
    PROVE  StoreTypeOK'
    BY DEF AppendOutcome, TradeTypeOK, StoreTypeOK, Exists, Mark

\* A refused command ends well-formed.
LEMMA RefuseType ==
    ASSUME TradeTypeOK, NEW q \in Procs, Refuse(q)
    PROVE  TradeTypeOK'
<1>1. StoreTypeOK'
    BY AppendOutcomeType DEF Refuse, Typed
<1>2. run' \in [Procs -> Run]
    BY GoType DEF Refuse, Goto, TradeTypeOK
<1> QED
    BY <1>1, <1>2 DEF Refuse, Elsewhere, TradeTypeOK
\* The steps before the intent.
LEMMA CommandStepType ==
    ASSUME TradeTypeOK, NEW q \in Procs, CommandStep(q)
    PROVE  TradeTypeOK'
<1>0. run \in [Procs -> Run] /\ run[q] \in Run
    BY DEF TradeTypeOK
<1>1. CASE SaveReceipt(q)
  <2>1. run' \in [Procs -> Run]
    BY <1>0, <1>1, GoType DEF SaveReceipt, Goto
  <2>2. StoreTypeOK'
    BY <1>1 DEF SaveReceipt, PersistReceipt, Typed, TradeTypeOK, StoreTypeOK, Exists
  <2> QED
    BY <1>1, <2>1, <2>2 DEF SaveReceipt, Elsewhere, TradeTypeOK
<1>2. CASE ReadTargetState(q)
  <2>1. CASE Refuse(q)
    BY <2>1, RefuseType
  <2>2. ASSUME NEW mark \in {"already", "attempted"},
               NEW step \in {"balance", "leverage"},
               AppendOutcome(PlanOf[q], mark), Goto(q, step), UNCHANGED Elsewhere
        PROVE  TradeTypeOK'
    <3>1. run' \in [Procs -> Run]
      BY <1>0, <2>2, GoType DEF Goto
    <3>2. PlanOf[q] \in Commands
      BY <1>2 DEF ReadTargetState, At, AppendOutcome, Refuse, Typed,
                  TradeTypeOK, StoreTypeOK
    <3>3. StoreTypeOK'
      BY <2>2, <3>2, AppendOutcomeType
    <3> QED
      BY <2>2, <3>1, <3>3 DEF Elsewhere, TradeTypeOK
  <2> QED
    BY <1>2, <2>1, <2>2 DEF ReadTargetState
<1>3. CASE SetLeverage(q)
  <2>1. CASE Refuse(q)
    BY <2>1, RefuseType
  <2>2. CASE /\ levered' = levered \cup {SymbolOf[PlanOf[q]]}
             /\ AppendOutcome(PlanOf[q], "verified")
             /\ Goto(q, "balance")
             /\ UNCHANGED <<status, venue, session, mistaken>>
    <3>1. run' \in [Procs -> Run]
      BY <1>0, <2>2, GoType DEF Goto
    <3>2. levered' \subseteq Symbols
      BY <2>2, TradeAssumption, OperatorAssumption DEF TradeTypeOK
    <3>3. PlanOf[q] \in Commands
      BY <2>2 DEF AppendOutcome, TradeTypeOK, StoreTypeOK
    <3>4. StoreTypeOK'
      BY <2>2, <3>3, AppendOutcomeType
    <3> QED
      BY <2>2, <3>1, <3>2, <3>4 DEF TradeTypeOK
  <2> QED
    BY <1>3, <2>1, <2>2 DEF SetLeverage
<1>4. CASE ReadBalance(q)
  <2>1. CASE Refuse(q)
    BY <2>1, RefuseType
  <2>2. CASE /\ Go(q, [run[q] EXCEPT !.counted = Answered], "prepare")
             /\ UNCHANGED <<storeVars, Elsewhere>>
    <3>1. [run[q] EXCEPT !.counted = Answered] \in Run
      BY <1>0 DEF Run, Answered
    <3>2. run' \in [Procs -> Run]
      BY <1>0, <2>2, <3>1, GoType
    <3> QED
      BY <2>2, <3>2 DEF Elsewhere, storeVars, TradeTypeOK, StoreTypeOK, Exists
  <2> QED
    BY <1>4, <2>1, <2>2 DEF ReadBalance
<1>5. CASE Prepare(q)
  <2>1. CASE Refuse(q)
    BY <2>1, RefuseType
  <2>2. CASE /\ Bind(PlanOf[q])
             /\ ReadEvidence(q, run[q], "admit")
             /\ UNCHANGED Elsewhere
    <3>1. run' \in [Procs -> Run]
      BY <1>0, <2>2, ReadEvidenceType
    <3>2. StoreTypeOK'
      BY <2>2 DEF Bind, TradeTypeOK, StoreTypeOK, Exists
    <3> QED
      BY <2>2, <3>1, <3>2 DEF Elsewhere, TradeTypeOK
  <2> QED
    BY <1>5, <2>1, <2>2 DEF Prepare
<1> QED
    BY <1>1, <1>2, <1>3, <1>4, <1>5 DEF CommandStep

\* The intent: a new source, and the grant it consumes.
LEMMA IntentType ==
    ASSUME TradeTypeOK, GrantsExist, NEW q \in Procs,
           \/ PrepareTradeCommandCreate(PlanOf[q], q, run[q].known)
           \/ PrepareCreate(PlanOf[q], q, run[q].grant)
    PROVE  StoreTypeOK'
<1>0. PlanOf[q] \in Plans /\ run[q] \in Run
    BY TradeAssumption DEF TradeTypeOK
<1>1. CASE PrepareTradeCommandCreate(PlanOf[q], q, run[q].known)
  <2>1. source' \in [Plans -> Source \cup {None}]
    BY <1>0, <1>1, RowTypes DEF PrepareTradeCommandCreate, TradeTypeOK, StoreTypeOK
  <2> QED
    BY <1>1, <2>1 DEF PrepareTradeCommandCreate, TradeTypeOK, StoreTypeOK
<1>2. CASE PrepareCreate(PlanOf[q], q, run[q].grant)
  <2>1. CASE /\ source' = [source EXCEPT ![PlanOf[q]] = NewSource(q, None)]
             /\ UNCHANGED <<grants, attested>>
    <3>1. source' \in [Plans -> Source \cup {None}]
      BY <1>0, <2>1, RowTypes DEF TradeTypeOK, StoreTypeOK
    <3> QED
      BY <1>2, <2>1, <3>1 DEF PrepareCreate, TradeTypeOK, StoreTypeOK
  <2>2. CASE run[q].grant # None /\ ConsumeGrant(PlanOf[q], q, run[q].grant)
    <3> DEFINE g == run[q].grant
               s == g.source
    <3>1. g \in Grant
      BY <1>0, <2>2 DEF Run
    <3>2. s \in Plans
      BY <3>1 DEF Grant
    <3>3. NewSource(q, s) \in Source
      BY <3>2, RowTypes
    <3>4. grants' \subseteq Grant
      BY <2>2 DEF ConsumeGrant, TradeTypeOK, StoreTypeOK
    <3>5. CASE /\ source' = [source EXCEPT ![PlanOf[q]] = NewSource(q, s)]
               /\ UNCHANGED attested
      <4>1. source' \in [Plans -> Source \cup {None}]
        BY <1>0, <3>3, <3>5 DEF TradeTypeOK, StoreTypeOK
      <4> QED
        BY <1>2, <3>4, <3>5, <4>1 DEF PrepareCreate, TradeTypeOK, StoreTypeOK
    <3>6. CASE /\ source' = [source EXCEPT ![PlanOf[q]] = NewSource(q, s),
                                          ![s].disposed = TRUE]
               /\ attested' = [p \in Manual |-> IF attested[p] = s
                                                THEN Spent ELSE attested[p]]
               /\ g \in grants
      <4>1. source' \in [Plans -> Source \cup {None}]
        <5> DEFINE one == [source EXCEPT ![PlanOf[q]] = NewSource(q, s)]
        <5>1. one \in [Plans -> Source \cup {None}]
          BY <1>0, <3>3 DEF TradeTypeOK, StoreTypeOK
        <5>2. source' = [one EXCEPT ![s] = [one[s] EXCEPT !.disposed = TRUE]]
          BY <3>6
        <5>3. one[s] # None
          BY <1>0, <3>2, <3>3, <3>6, RowAssumption
          DEF TradeTypeOK, StoreTypeOK, GrantsExist, Exists
        <5>4. one[s] \in Source
          BY <3>2, <5>1, <5>3
        <5>5. [one[s] EXCEPT !.disposed = TRUE] \in Source
          BY <5>4 DEF Source
        <5> QED
          BY <3>2, <5>1, <5>2, <5>5
      <4>2. attested' \in [Manual -> Plans \cup {None, Spent}]
        BY <3>6 DEF TradeTypeOK, StoreTypeOK
      <4> QED
        BY <1>2, <3>4, <4>1, <4>2 DEF PrepareCreate, TradeTypeOK, StoreTypeOK
    <3> QED
      BY <1>2, <2>2, <3>5, <3>6 DEF ConsumeGrant, PrepareCreate, ApprovalAdmitted
  <2> QED
    BY <1>2, <2>1, <2>2 DEF PrepareCreate
<1> QED
    BY <1>1, <1>2

\* The steps from the admission to the record of the attempt.
LEMMA ExecuteStepType ==
    ASSUME TradeTypeOK, GrantsExist, NEW q \in Procs, ExecuteStep(q)
    PROVE  TradeTypeOK'
<1>0. /\ run \in [Procs -> Run] /\ run[q] \in Run
      /\ PlanOf[q] \in Plans
    BY TradeAssumption DEF TradeTypeOK
<1>1. ASSUME NEW memory \in Run,
             NEW step \in {"collect", "intend", "post", "answer", "record", "done"},
             Go(q, memory, step), StoreTypeOK',
             status' \in Look, venue' \in [Plans -> Venue],
             mistaken' \subseteq Plans, UNCHANGED <<levered, session>>
      PROVE  TradeTypeOK'
    BY <1>0, <1>1, GoType DEF TradeTypeOK
<1>2. UNCHANGED storeVars => StoreTypeOK'
    BY DEF storeVars, TradeTypeOK, StoreTypeOK, Exists
<1>3. UNCHANGED Elsewhere => /\ status' \in Look /\ venue' \in [Plans -> Venue]
                             /\ mistaken' \subseteq Plans
                             /\ UNCHANGED <<levered, session>>
    BY DEF Elsewhere, TradeTypeOK
<1>4. CASE Refuse(q)
    BY <1>4, RefuseType
<1>5. CASE Admit(q)
  <2>1. CASE AdmitCommand(q) /\ UNCHANGED <<storeVars, Elsewhere>>
    BY <1>0, <1>1, <1>2, <1>3, <2>1 DEF AdmitCommand, Goto
  <2>2. CASE AdmitApproval(q) /\ UNCHANGED <<storeVars, Elsewhere>>
    <3>1. PICK grant \in Findable(PlanOf[q]) \cup {None} :
              Go(q, [run[q] EXCEPT !.grant = grant], "collect")
      BY <2>2 DEF AdmitApproval
    <3>2. grant \in Grant \cup {None}
      BY DEF Findable, TradeTypeOK, StoreTypeOK
    <3>3. [run[q] EXCEPT !.grant = grant] \in Run
      BY <1>0, <3>2 DEF Run
    <3> QED
      BY <1>1, <1>2, <1>3, <2>2, <3>1, <3>3
  <2> QED
    BY <1>4, <1>5, <2>1, <2>2 DEF Admit
<1>6. CASE Collect(q)
  <2>0. [run[q] EXCEPT !.counted = Answered] \in Run
    BY <1>0 DEF Run, Answered
  <2>1. CASE /\ ReadEvidence(q, [run[q] EXCEPT !.counted = Answered], "intend")
             /\ UNCHANGED <<storeVars, Elsewhere>>
    <3>1. run' \in [Procs -> Run]
      BY <2>0, <2>1, ReadEvidenceType
    <3> QED
      BY <1>2, <1>3, <2>1, <3>1 DEF TradeTypeOK
  <2>2. CASE /\ Go(q, [run[q] EXCEPT !.counted = Answered], "intend")
             /\ UNCHANGED <<storeVars, Elsewhere>>
    BY <1>1, <1>2, <1>3, <2>0, <2>2
  <2>3. CASE Goto(q, "intend") /\ UNCHANGED <<storeVars, Elsewhere>>
    BY <1>0, <1>1, <1>2, <1>3, <2>3 DEF Goto
  <2> QED
    BY <1>4, <1>6, <2>1, <2>2, <2>3 DEF Collect
<1>7. CASE Intend(q)
  <2>1. CASE /\ \/ PrepareTradeCommandCreate(PlanOf[q], q, run[q].known)
                \/ PrepareCreate(PlanOf[q], q, run[q].grant)
             /\ Goto(q, "post")
             /\ UNCHANGED Elsewhere
    BY <1>0, <1>1, <1>3, <2>1, IntentType DEF Goto
  <2> QED
    BY <1>4, <1>7, <2>1 DEF Intend
<1>8. CASE Post(q)
  <2>1. venue' \in [Plans -> Venue]
    BY <1>8 DEF Post, Venue, TradeTypeOK
  <2>2. [run[q] EXCEPT !.answer = "ambiguous"] \in Run
    BY <1>0 DEF Run, Attempt
  <2>3. CASE Goto(q, "answer")
    BY <1>0, <1>1, <1>2, <1>8, <2>1, <2>3 DEF Post, Goto, TradeTypeOK
  <2>4. CASE Go(q, [run[q] EXCEPT !.answer = "ambiguous"], "record")
    BY <1>0, <1>1, <1>2, <1>8, <2>1, <2>2, <2>4 DEF Post, TradeTypeOK
  <2> QED
    BY <1>8, <2>3, <2>4 DEF Post
<1>9. CASE Answer(q)
  <2>1. PICK answer \in Answers(PlanOf[q]) :
            Go(q, [run[q] EXCEPT !.answer = answer], "record")
    BY <1>9 DEF Answer
  <2>2. answer \in Attempt \cup {"misnamed"}
    BY DEF Answers, Attempt
  <2>3. [run[q] EXCEPT !.answer = answer] \in Run
    BY <1>0, <2>2 DEF Run
  <2> QED
    BY <1>1, <1>2, <1>3, <1>9, <2>1, <2>3 DEF Answer
<1>10. CASE Record(q)
  <2> DEFINE outcome == Classified(run[q].answer)
  <2> HIDE DEF outcome
  <2>0. /\ status' \in Look /\ venue' \in [Plans -> Venue]
        /\ mistaken' \subseteq Plans
        /\ UNCHANGED <<levered, session>>
    BY <1>0, <1>10 DEF Record, TradeTypeOK
  <2>1. CASE RaiseSourceHalt(PlanOf[q])
    BY <1>0, <1>1, <1>10, <2>0, <2>1, RaiseSourceHaltType DEF Record, Goto
  <2>2. CASE RecordAttempt(PlanOf[q], q, outcome)
    <3>1. outcome \in Attempt
      BY <1>0 DEF Run, Attempt, outcome, Classified
    <3>2. source' \in [Plans -> Source \cup {None}]
      BY <1>0, <2>2, <3>1, RowTypes DEF RecordAttempt, TradeTypeOK, StoreTypeOK
    <3>3. /\ grants' \subseteq Grant
          /\ attested' \in [Manual -> Plans \cup {None, Spent}]
          /\ raisedBy' \subseteq Plans \cup {Foreign}
      BY <1>0, <2>2 DEF RecordAttempt, RaisedFor, Outdate, TradeTypeOK, StoreTypeOK
    <3>4. StoreTypeOK'
      BY <2>2, <3>2, <3>3 DEF RecordAttempt, TradeTypeOK, StoreTypeOK
    <3> QED
      BY <1>0, <1>1, <1>10, <2>0, <3>4 DEF Record, Goto
  <2> QED
    BY <1>10, <2>1, <2>2 DEF Record, outcome
<1> QED
    BY <1>5, <1>6, <1>7, <1>8, <1>9, <1>10 DEF ExecuteStep

\* The status run and the people.
LEMMA ClericalStepType ==
    ASSUME TradeTypeOK, 
           \/ \E p \in Plans : Trade(p) \/ StatusStep(p)
           \/ RecoveryStep \/ OtherHalt
    PROVE  TradeTypeOK'
<1>1. ASSUME NEW p \in Plans, Trade(p) PROVE TradeTypeOK'
  <2>1. venue' \in [Plans -> Venue]
    BY <1>1 DEF Trade, Becomes, Venue, TradeTypeOK
  <2> QED
    BY <1>1, <2>1 DEF Trade, storeVars, TradeTypeOK, StoreTypeOK, Exists
<1>2. UNCHANGED storeVars => StoreTypeOK'
    BY DEF storeVars, TradeTypeOK, StoreTypeOK, Exists
<1>3. ASSUME StoreTypeOK', status' \in Look,
             UNCHANGED <<run, venue, levered, session, mistaken>>
      PROVE  TradeTypeOK'
    BY <1>3 DEF TradeTypeOK
<1>4. NotLooking \in Look
    BY DEF NotLooking, Look, Verdict
<1>5. ASSUME NEW p \in Plans, BeginStatus(p) PROVE TradeTypeOK'
  <2>1. VerdictUnseen(p) \in Verdict
    BY DEF VerdictUnseen, Verdict
  <2>2. status' \in Look
    BY <1>5, <2>1 DEF BeginStatus, Look, Verdict
  <2>3. ASSUME AppendManualAction(p) PROVE StoreTypeOK'
    <3>1. source' \in [Plans -> Source \cup {None}]
      BY <2>3, RowTypes DEF AppendManualAction, TradeTypeOK, StoreTypeOK
    <3> QED
      BY <2>3, <3>1, OutdateType DEF AppendManualAction, TradeTypeOK, StoreTypeOK
  <2> QED
    BY <1>2, <1>3, <1>5, <2>2, <2>3 DEF BeginStatus, Quiet
<1>6. ASSUME NEW p \in Plans, SeeOrder(p) \/ SeeNothing(p) \/ SeeDoubt(p)
      PROVE  TradeTypeOK'
  <2>1. VerdictOf(p) \in Verdict
    BY DEF VerdictOf, Verdict
  <2>2. status.unseen \in Verdict
    BY DEF TradeTypeOK, Look
  <2>3. PICK verdict \in Verdict : Saw(p, verdict)
    BY <1>6, <2>1, <2>2 DEF SeeOrder, SeeNothing, SeeDoubt, Verdict
  <2>4. status' \in Look
    BY <2>3 DEF Saw, Look, TradeTypeOK
  <2> QED
    BY <1>2, <1>3, <2>3, <2>4 DEF Saw, Quiet
<1>7. ASSUME NEW p \in Plans, AppendVerdict(p) PROVE TradeTypeOK'
  <2>1. status.verdict \in Verdict
    BY DEF TradeTypeOK, Look
  <2>2. source' \in [Plans -> Source \cup {None}]
    BY <1>7, <2>1, RowTypes
    DEF AppendVerdict, AppendReconciliation, TradeTypeOK, StoreTypeOK
  <2>3. StoreTypeOK'
    BY <1>7, <2>2, OutdateType
    DEF AppendVerdict, AppendReconciliation, TradeTypeOK, StoreTypeOK
  <2>4. [status EXCEPT !.pc = "raise"] \in Look
    BY DEF TradeTypeOK, Look
  <2>5. status' \in Look
    BY <1>4, <1>7, <2>4 DEF AppendVerdict
  <2> QED
    BY <1>3, <1>7, <2>3, <2>5 DEF AppendVerdict, Quiet
<1>8. ASSUME NEW p \in Plans, RaiseForStatus(p) PROVE TradeTypeOK'
    BY <1>2, <1>3, <1>4, <1>8, RaiseSourceHaltType DEF RaiseForStatus, Quiet
<1>9. ASSUME NEW p \in Manual, NEW s \in Plans, Attest(p, s) PROVE TradeTypeOK'
  <2>1. StoreTypeOK'
    BY <1>9 DEF Attest, PersistAttestation, TradeTypeOK, StoreTypeOK
  <2> QED
    BY <1>9, <2>1 DEF Attest, Elsewhere, TradeTypeOK
<1>10. ASSUME NEW p \in Plans \ Commands, NEW s \in Plans, GrantRecovery(p, s)
       PROVE TradeTypeOK'
  <2>1. PICK manual \in BOOLEAN : CreateRecoveryGrant(p, s, manual)
    BY <1>10 DEF GrantRecovery
  <2>2. [plan |-> p, source |-> s, manual |-> manual] \in Grant
    BY DEF Grant
  <2>3. attested' \in [Manual -> Plans \cup {None, Spent}]
    BY <2>1 DEF CreateRecoveryGrant, TradeTypeOK, StoreTypeOK
  <2>4. StoreTypeOK'
    BY <2>1, <2>2, <2>3 DEF CreateRecoveryGrant, TradeTypeOK, StoreTypeOK
  <2> QED
    BY <1>10, <2>4 DEF GrantRecovery, Elsewhere, TradeTypeOK
<1>11. ASSUME OtherHalt PROVE TradeTypeOK'
  <2>1. StoreTypeOK'
    BY <1>11 DEF OtherHalt, RaiseForeignHalt, RaisedFor, TradeTypeOK, StoreTypeOK
  <2> QED
    BY <1>11, <2>1 DEF OtherHalt, Elsewhere, TradeTypeOK
<1> QED
    BY <1>1, <1>5, <1>6, <1>7, <1>8, <1>9, <1>10, <1>11 DEF StatusStep, RecoveryStep
-----------------------------------------------------------------------------
\* The kinds of steps.

\* A process works towards its intent, or gives up.  The others keep their place;
\* what they know of existing sources they go on knowing.
Preparing(q) ==
    /\ run[q].pc \notin {"post", "answer", "record", "done"}
    /\ run'[q].pc \notin {"post", "answer", "record"}
    /\ run'[q].grant \in {None, run[q].grant} \cup Findable(PlanOf[q])
    /\ \A r \in Procs \ {q} :
          /\ run'[r].pc = run[r].pc
          /\ run'[r].grant = run[r].grant
          /\ run'[r].answer = run[r].answer
          /\ \A p \in run[r].known : Exists(p) => p \in run'[r].known
    /\ UNCHANGED <<source, raisedBy, grants, attested, status, venue, session,
                   mistaken>>

\* The process creates the source of its plan.
Intending(q) ==
    /\ At(q, "intend")
    /\ \/ /\ Typed(q)
          /\ PrepareTradeCommandCreate(PlanOf[q], q, run[q].known)
       \/ /\ ~Typed(q)
          /\ PrepareCreate(PlanOf[q], q, run[q].grant)
    /\ Goto(q, "post")
    /\ UNCHANGED Elsewhere

\* A step of the status run, of the people, or of another writer: no process and
\* no order moves, and a source keeps all but what was learned about it.
Clerical ==
    /\ UNCHANGED <<run, venue, session, mistaken>>
    /\ \A p \in Plans :
          /\ ~Exists(p) => source'[p] = source[p]
          /\ Exists(p) => /\ source'[p] # None
                          /\ source'[p].run = source[p].run
                          /\ source'[p].attempt = source[p].attempt
                          /\ source'[p].disposed = source[p].disposed
                          /\ source'[p].recovers = source[p].recovers

\* A process that leaves off forgets everything; the others are as they were.
LEMMA GoEffect ==
    ASSUME run \in [Procs -> Run], NEW q \in Procs, NEW memory \in Run,
           NEW step \in {"idle", "state", "leverage", "balance", "prepare",
                         "admit", "collect", "intend", "post", "answer",
                         "record", "done"},
           Go(q, memory, step)
    PROVE  /\ run'[q].pc = step
           /\ \A r \in Procs \ {q} : run'[r] = run[r]
           /\ step # "done" => /\ run'[q].grant = memory.grant
                               /\ run'[q].known = memory.known
                               /\ run'[q].answer = memory.answer
           /\ step = "done" => run'[q] = Begun("done")
<1>1. [memory EXCEPT !.pc = step].pc = step
    BY DEF Run
<1>2. /\ [memory EXCEPT !.pc = step].grant = memory.grant
      /\ [memory EXCEPT !.pc = step].known = memory.known
      /\ [memory EXCEPT !.pc = step].answer = memory.answer
    BY DEF Run
<1> QED
    BY <1>1, <1>2 DEF Go, Begun

\* A process that gives up is preparing.
LEMMA RefuseIsPreparing ==
    ASSUME TradeTypeOK, NEW q \in Procs, Refuse(q),
           run[q].pc \notin {"post", "answer", "record", "done"}
    PROVE  Preparing(q)
<1>1. run \in [Procs -> Run] /\ run[q] \in Run
    BY DEF TradeTypeOK
<1>2. Go(q, run[q], "done")
    BY DEF Refuse, Goto
<1>3. /\ run'[q] = Begun("done")
      /\ run'[q].pc = "done"
      /\ \A r \in Procs \ {q} : run'[r] = run[r]
    BY <1>1, <1>2, GoEffect
<1>4. run'[q].grant = None
    BY <1>3 DEF Begun
<1> QED
    BY <1>3, <1>4 DEF Refuse, AppendOutcome, Elsewhere, Preparing

\* A process that reads its target state is preparing.
LEMMA ReadEvidenceIsPreparing ==
    ASSUME TradeTypeOK, NEW q \in Procs, NEW memory \in Run,
           NEW step \in {"admit", "intend"}, ReadEvidence(q, memory, step),
           run[q].pc \notin {"post", "answer", "record", "done"},
           memory.grant = run[q].grant,
           UNCHANGED <<source, raisedBy, grants, attested, status, venue, session,
                       mistaken>>
    PROVE  Preparing(q)
<1>1. run \in [Procs -> Run]
    BY DEF TradeTypeOK
<1>2. run'[q] = [memory EXCEPT !.pc = step, !.known = Evidenced \ {PlanOf[q]}]
    BY <1>1 DEF ReadEvidence
<1>3. run'[q].pc = step /\ run'[q].grant = memory.grant
    BY <1>2 DEF Run
<1>4. ASSUME NEW r \in Procs \ {q}
      PROVE  /\ run'[r].pc = run[r].pc
             /\ run'[r].grant = run[r].grant
             /\ run'[r].answer = run[r].answer
             /\ \A p \in run[r].known : Exists(p) => p \in run'[r].known
  <2>1. run[r] \in Run
    BY <1>1
  <2>2. CASE Exists(PlanOf[q])
    BY <1>1, <2>2 DEF ReadEvidence
  <2>3. CASE ~Exists(PlanOf[q])
    <3>1. run'[r] = [run[r] EXCEPT !.known = run[r].known \ {PlanOf[q]}]
      BY <1>1, <2>3 DEF ReadEvidence
    <3>2. /\ run'[r].pc = run[r].pc
          /\ run'[r].grant = run[r].grant
          /\ run'[r].answer = run[r].answer
          /\ run'[r].known = run[r].known \ {PlanOf[q]}
      BY <2>1, <3>1 DEF Run
    <3> QED
      BY <2>3, <3>2
  <2> QED
    BY <2>2, <2>3
<1> QED
    BY <1>3, <1>4 DEF Preparing

\* So is one that goes on without creating its source.
LEMMA GoIsPreparing ==
    ASSUME TradeTypeOK, NEW q \in Procs, NEW memory \in Run,
           NEW step \in {"state", "leverage", "balance", "prepare",
                         "admit", "collect", "intend"},
           Go(q, memory, step),
           run[q].pc \notin {"post", "answer", "record", "done"},
           memory.grant \in {None, run[q].grant} \cup Findable(PlanOf[q]),
           UNCHANGED <<source, raisedBy, grants, attested, status, venue, session,
                       mistaken>>
    PROVE  Preparing(q)
<1>1. run \in [Procs -> Run]
    BY DEF TradeTypeOK
<1>2. /\ run'[q].pc = step /\ run'[q].grant = memory.grant
      /\ \A r \in Procs \ {q} : run'[r] = run[r]
    BY <1>1, GoEffect
<1> QED
    BY <1>2 DEF Preparing

\* Everything a process does up to its intent is preparing.
LEMMA CommandStepIsPreparing ==
    ASSUME TradeTypeOK, NEW q \in Procs, CommandStep(q)
    PROVE  Preparing(q)
<1>0. run[q] \in Run
    BY DEF TradeTypeOK
<1>1. CASE SaveReceipt(q)
    BY <1>0, <1>1, GoIsPreparing DEF SaveReceipt, At, Goto, PersistReceipt, Elsewhere
<1>2. CASE ReadTargetState(q)
  <2>1. CASE Refuse(q)
    BY <1>2, <2>1, RefuseIsPreparing DEF ReadTargetState, At
  <2>2. ASSUME NEW mark, NEW step \in {"balance", "leverage"},
               AppendOutcome(PlanOf[q], mark), Goto(q, step), UNCHANGED Elsewhere
        PROVE  Preparing(q)
    BY <1>0, <1>2, <2>2, GoIsPreparing
    DEF ReadTargetState, At, Goto, AppendOutcome, Elsewhere
  <2> QED
    BY <1>2, <2>1, <2>2 DEF ReadTargetState
<1>3. CASE SetLeverage(q)
  <2>1. CASE Refuse(q)
    BY <1>3, <2>1, RefuseIsPreparing DEF SetLeverage, At
  <2>2. CASE /\ AppendOutcome(PlanOf[q], "verified")
             /\ Goto(q, "balance")
             /\ UNCHANGED <<status, venue, session, mistaken>>
    BY <1>0, <1>3, <2>2, GoIsPreparing DEF SetLeverage, At, Goto, AppendOutcome
  <2> QED
    BY <1>3, <2>1, <2>2 DEF SetLeverage
<1>4. CASE ReadBalance(q)
  <2>1. CASE Refuse(q)
    BY <1>4, <2>1, RefuseIsPreparing DEF ReadBalance, At
  <2>2. CASE /\ Go(q, [run[q] EXCEPT !.counted = Answered], "prepare")
             /\ UNCHANGED <<storeVars, Elsewhere>>
    <3>1. /\ [run[q] EXCEPT !.counted = Answered] \in Run
          /\ [run[q] EXCEPT !.counted = Answered].grant = run[q].grant
      BY <1>0 DEF Run, Answered
    <3> QED
      BY <1>4, <2>2, <3>1, GoIsPreparing DEF ReadBalance, At, storeVars, Elsewhere
  <2> QED
    BY <1>4, <2>1, <2>2 DEF ReadBalance
<1>5. CASE Prepare(q)
  <2>1. CASE Refuse(q)
    BY <1>5, <2>1, RefuseIsPreparing DEF Prepare, At
  <2>2. CASE /\ Bind(PlanOf[q])
             /\ ReadEvidence(q, run[q], "admit")
             /\ UNCHANGED Elsewhere
    BY <1>0, <1>5, <2>2, ReadEvidenceIsPreparing DEF Prepare, At, Bind, Elsewhere
  <2> QED
    BY <1>5, <2>1, <2>2 DEF Prepare
<1> QED
    BY <1>1, <1>2, <1>3, <1>4, <1>5 DEF CommandStep

\* The admission writes nothing.
LEMMA AdmitIsPreparing ==
    ASSUME TradeTypeOK, NEW q \in Procs, Admit(q)
    PROVE  Preparing(q)
<1>0. run[q] \in Run
    BY DEF TradeTypeOK
<1>1. CASE AdmitCommand(q) /\ UNCHANGED <<storeVars, Elsewhere>>
    BY <1>0, <1>1, GoIsPreparing DEF AdmitCommand, At, Goto, storeVars, Elsewhere
<1>2. CASE AdmitApproval(q) /\ UNCHANGED <<storeVars, Elsewhere>>
  <2>1. PICK grant \in Findable(PlanOf[q]) \cup {None} :
            Go(q, [run[q] EXCEPT !.grant = grant], "collect")
    BY <1>2 DEF AdmitApproval
  <2>2. grant \in Grant \cup {None}
    BY DEF Findable, TradeTypeOK, StoreTypeOK
  <2>3. /\ [run[q] EXCEPT !.grant = grant] \in Run
        /\ [run[q] EXCEPT !.grant = grant].grant = grant
    BY <1>0, <2>2 DEF Run
  <2> QED
    BY <1>2, <2>1, <2>3, GoIsPreparing DEF AdmitApproval, At, storeVars, Elsewhere
<1>3. CASE At(q, "admit") /\ Refuse(q)
    BY <1>3, RefuseIsPreparing DEF At
<1> QED
    BY <1>1, <1>2, <1>3 DEF Admit

\* Nor does the collection of its evidence.
LEMMA CollectIsPreparing ==
    ASSUME TradeTypeOK, NEW q \in Procs, Collect(q)
    PROVE  Preparing(q)
<1>0. run[q] \in Run
    BY DEF TradeTypeOK
<1>1. /\ [run[q] EXCEPT !.counted = Answered] \in Run
      /\ [run[q] EXCEPT !.counted = Answered].grant = run[q].grant
    BY <1>0 DEF Run, Answered
<1>2. CASE Refuse(q)
    BY <1>2, RefuseIsPreparing DEF Collect, At
<1>3. CASE /\ ReadEvidence(q, [run[q] EXCEPT !.counted = Answered], "intend")
           /\ UNCHANGED <<storeVars, Elsewhere>>
    BY <1>1, <1>3, ReadEvidenceIsPreparing DEF Collect, At, storeVars, Elsewhere
<1>4. CASE /\ Go(q, [run[q] EXCEPT !.counted = Answered], "intend")
           /\ UNCHANGED <<storeVars, Elsewhere>>
    BY <1>1, <1>4, GoIsPreparing DEF Collect, At, storeVars, Elsewhere
<1>5. CASE Goto(q, "intend") /\ UNCHANGED <<storeVars, Elsewhere>>
    BY <1>0, <1>5, GoIsPreparing DEF Collect, At, Goto, storeVars, Elsewhere
<1> QED
    BY <1>2, <1>3, <1>4, <1>5 DEF Collect

\* An intent is created, or the process gives up.
LEMMA IntendKinds ==
    ASSUME TradeTypeOK, NEW q \in Procs, Intend(q)
    PROVE  Preparing(q) \/ Intending(q)
    BY RefuseIsPreparing DEF Intend, Intending, At

\* The status run, the people and other writers move no order.
LEMMA ClericalSteps ==
    ASSUME TradeTypeOK,
           \/ \E p \in Plans : StatusStep(p)
           \/ RecoveryStep \/ OtherHalt
    PROVE  Clerical
<1>1. UNCHANGED <<source, run, venue, session, mistaken>> => Clerical
    BY DEF Clerical, Exists
<1>2. ASSUME NEW p \in Plans, AppendManualAction(p), Quiet PROVE Clerical
  <2>1. source[p] \in Source /\ [source[p] EXCEPT !.declared = TRUE] \in Source
    BY <1>2, RowTypes DEF AppendManualAction
  <2>2. source'[p] = [source[p] EXCEPT !.declared = TRUE]
    BY <1>2 DEF AppendManualAction, TradeTypeOK, StoreTypeOK
  <2>3. \A r \in Plans \ {p} : source'[r] = source[r]
    BY <1>2 DEF AppendManualAction, TradeTypeOK, StoreTypeOK
  <2>4. /\ source'[p] # None
        /\ source'[p].run = source[p].run
        /\ source'[p].attempt = source[p].attempt
        /\ source'[p].disposed = source[p].disposed
        /\ source'[p].recovers = source[p].recovers
    BY <2>1, <2>2, RowAssumption DEF Source
  <2> QED
    BY <1>2, <2>3, <2>4 DEF AppendManualAction, Quiet, Clerical, Exists
<1>3. ASSUME NEW p \in Plans, NEW verdict \in Verdict,
             AppendReconciliation(p, verdict), Quiet
      PROVE  Clerical
  <2>1. source[p] \in Source /\ [source[p] EXCEPT !.latest = verdict] \in Source
    BY <1>3, RowTypes DEF AppendReconciliation
  <2>2. source'[p] = [source[p] EXCEPT !.latest = verdict]
    BY <1>3 DEF AppendReconciliation, TradeTypeOK, StoreTypeOK
  <2>3. \A r \in Plans \ {p} : source'[r] = source[r]
    BY <1>3 DEF AppendReconciliation, TradeTypeOK, StoreTypeOK
  <2>4. /\ source'[p] # None
        /\ source'[p].run = source[p].run
        /\ source'[p].attempt = source[p].attempt
        /\ source'[p].disposed = source[p].disposed
        /\ source'[p].recovers = source[p].recovers
    BY <2>1, <2>2, RowAssumption DEF Source
  <2> QED
    BY <1>3, <2>3, <2>4 DEF AppendReconciliation, Quiet, Clerical, Exists
<1>4. ASSUME NEW p \in Plans, StatusStep(p) PROVE Clerical
  <2>1. CASE BeginStatus(p)
    BY <1>1, <1>2, <2>1 DEF BeginStatus, storeVars, Quiet
  <2>2. CASE SeeOrder(p) \/ SeeNothing(p) \/ SeeDoubt(p)
    BY <1>1, <2>2 DEF SeeOrder, SeeNothing, SeeDoubt, Saw, storeVars, Quiet
  <2>3. CASE AppendVerdict(p)
    BY <1>3, <2>3 DEF AppendVerdict, TradeTypeOK, Look
  <2>4. CASE RaiseForStatus(p)
    BY <1>1, <2>4 DEF RaiseForStatus, RaiseSourceHalt, storeVars, Quiet
  <2> QED
    BY <1>4, <2>1, <2>2, <2>3, <2>4 DEF StatusStep
<1>5. CASE RecoveryStep
    BY <1>1, <1>5 DEF RecoveryStep, Attest, PersistAttestation, GrantRecovery,
       CreateRecoveryGrant, Elsewhere
<1>6. CASE OtherHalt
    BY <1>1, <1>6 DEF OtherHalt, RaiseForeignHalt, Elsewhere
<1> QED
    BY <1>4, <1>5, <1>6

\* Every step is of one of these kinds.
LEMMA StepKinds ==
    ASSUME TradeTypeOK, [Next]_vars
    PROVE  \/ \E q \in Procs : \/ Preparing(q) \/ Intending(q)
                               \/ Post(q) \/ Answer(q) \/ Record(q)
           \/ \E p \in Plans : Trade(p) \/ StatusStep(p)
           \/ RecoveryStep
           \/ OtherHalt
           \/ UNCHANGED vars
    BY CommandStepIsPreparing, AdmitIsPreparing, CollectIsPreparing, IntendKinds
    DEF Next, ExecuteStep

\* What the creation of a source leaves behind.
LEMMA IntentEffect ==
    ASSUME TradeTypeOK, GrantsExist, NEW q \in Procs, Intending(q)
    PROVE  /\ ~Exists(PlanOf[q])
           /\ source'[PlanOf[q]] # None
           /\ source'[PlanOf[q]].run = q
           /\ source'[PlanOf[q]].attempt = "none"
           /\ source'[PlanOf[q]].latest = "none"
           /\ ~source'[PlanOf[q]].disposed
           /\ source'[PlanOf[q]].recovers
                 \in {None} \cup {g.source : g \in grants}
           /\ \A p \in Plans \ {PlanOf[q]} :
                 /\ ~Exists(p) => source'[p] = source[p]
                 /\ Exists(p) => /\ source'[p] # None
                                 /\ source'[p].run = source[p].run
                                 /\ source'[p].attempt = source[p].attempt
                                 /\ source'[p].latest = source[p].latest
                                 /\ source'[p].recovers = source[p].recovers
                                 /\ \/ source'[p].disposed = source[p].disposed
                                    \/ /\ \E g \in grants : p = g.source
                                       /\ source'[p].disposed
           /\ grants' \subseteq grants
           /\ \A p \in Manual : attested'[p] \in {attested[p], Spent}
           /\ UNCHANGED raisedBy
           /\ run'[q].pc = "post"
           /\ run'[q].known = run[q].known
           /\ run'[q].grant = run[q].grant
           /\ \A r \in Procs \ {q} : run'[r] = run[r]
<1>0. /\ PlanOf[q] \in Plans
      /\ run \in [Procs -> Run] /\ run[q] \in Run
      /\ source \in [Plans -> Source \cup {None}]
      /\ attested \in [Manual -> Plans \cup {None, Spent}]
    BY TradeAssumption DEF TradeTypeOK, StoreTypeOK
<1>1. /\ run'[q].pc = "post"
      /\ run'[q].known = run[q].known
      /\ run'[q].grant = run[q].grant
      /\ \A r \in Procs \ {q} : run'[r] = run[r]
    BY <1>0, GoEffect DEF Intending, Goto
<1>2. ~Exists(PlanOf[q])
    BY DEF Intending, PrepareTradeCommandCreate, CommandAdmitted, PrepareCreate,
           ApprovalAdmitted
<1>3. ASSUME NEW old \in Plans \cup {None}
      PROVE  /\ NewSource(q, old) # None
             /\ NewSource(q, old).run = q
             /\ NewSource(q, old).attempt = "none"
             /\ NewSource(q, old).latest = "none"
             /\ ~NewSource(q, old).disposed
             /\ NewSource(q, old).recovers = old
  <2>1. NewSource(q, old) # None
    BY RowTypes, RowAssumption
  <2> QED
    BY <2>1 DEF NewSource
<1>4. ASSUME NEW old \in Plans \cup {None},
             source' = [source EXCEPT ![PlanOf[q]] = NewSource(q, old)]
      PROVE  /\ source'[PlanOf[q]] = NewSource(q, old)
             /\ \A p \in Plans \ {PlanOf[q]} : source'[p] = source[p]
    BY <1>0, <1>4
<1>7. ASSUME NEW old \in Plans \cup {None}, old \in {None} \cup {g.source : g \in grants},
             source' = [source EXCEPT ![PlanOf[q]] = NewSource(q, old)],
             grants' \subseteq grants, UNCHANGED <<attested, raisedBy>>
      PROVE  /\ source'[PlanOf[q]] # None
             /\ source'[PlanOf[q]].run = q
             /\ source'[PlanOf[q]].attempt = "none"
             /\ source'[PlanOf[q]].latest = "none"
             /\ ~source'[PlanOf[q]].disposed
             /\ source'[PlanOf[q]].recovers
                   \in {None} \cup {g.source : g \in grants}
             /\ \A p \in Plans \ {PlanOf[q]} : source'[p] = source[p]
             /\ grants' \subseteq grants
             /\ \A p \in Manual : attested'[p] \in {attested[p], Spent}
             /\ UNCHANGED raisedBy
  <2>1. /\ source'[PlanOf[q]] = NewSource(q, old)
        /\ \A p \in Plans \ {PlanOf[q]} : source'[p] = source[p]
    BY <1>4, <1>7
  <2> QED
    BY <1>3, <1>7, <2>1
<1>5. CASE PrepareTradeCommandCreate(PlanOf[q], q, run[q].known)
  <2>1. /\ source' = [source EXCEPT ![PlanOf[q]] = NewSource(q, None)]
        /\ grants' \subseteq grants /\ UNCHANGED <<attested, raisedBy>>
    BY <1>5 DEF PrepareTradeCommandCreate
  <2> QED
    BY <1>1, <1>2, <1>7, <2>1 DEF Exists
<1>6. CASE PrepareCreate(PlanOf[q], q, run[q].grant)
  <2>0. UNCHANGED raisedBy
    BY <1>6 DEF PrepareCreate
  <2>1. CASE /\ source' = [source EXCEPT ![PlanOf[q]] = NewSource(q, None)]
             /\ UNCHANGED <<grants, attested>>
    BY <1>1, <1>2, <1>7, <2>0, <2>1 DEF Exists
  <2>2. CASE run[q].grant # None /\ ConsumeGrant(PlanOf[q], q, run[q].grant)
    <3> DEFINE g == run[q].grant
               s == g.source
    <3>1. g \in grants
      BY <1>6, <2>2 DEF PrepareCreate, ApprovalAdmitted
    <3>2. s \in Plans /\ Exists(s)
      BY <3>1 DEF GrantsExist, TradeTypeOK, StoreTypeOK, Grant
    <3>3. grants' \subseteq grants
      BY <2>2 DEF ConsumeGrant
    <3>4. CASE source' = [source EXCEPT ![PlanOf[q]] = NewSource(q, s)]
               /\ UNCHANGED attested
      <4> HIDE DEF g, s
      <4>1. s \in {None} \cup {h.source : h \in grants}
        BY <3>1 DEF s
      <4> QED
        BY <1>1, <1>2, <1>7, <2>0, <3>2, <3>3, <3>4, <4>1 DEF Exists
    <3>5. CASE /\ source' = [source EXCEPT ![PlanOf[q]] = NewSource(q, s),
                                          ![s].disposed = TRUE]
               /\ attested' = [p \in Manual |-> IF attested[p] = s
                                                THEN Spent ELSE attested[p]]
      <4> HIDE DEF g, s
      <4>0. s # PlanOf[q]
        BY <1>2, <3>2
      <4>1. s \in {None} \cup {h.source : h \in grants}
        BY <3>1 DEF s
      <4>2. source' = [source EXCEPT ![PlanOf[q]] = NewSource(q, s),
                              ![s] = [source[s] EXCEPT !.disposed = TRUE]]
        BY <1>0, <3>2, <3>5, <4>0
      <4>3. /\ source'[PlanOf[q]] = NewSource(q, s)
            /\ source'[s] = [source[s] EXCEPT !.disposed = TRUE]
            /\ \A p \in Plans \ {PlanOf[q], s} : source'[p] = source[p]
        BY <1>0, <3>2, <4>0, <4>2
      <4>4. source[s] \in Source /\ [source[s] EXCEPT !.disposed = TRUE] \in Source
        BY <3>2, RowTypes
      <4>5. /\ source'[s] # None
            /\ source'[s].run = source[s].run
            /\ source'[s].attempt = source[s].attempt
            /\ source'[s].latest = source[s].latest
            /\ source'[s].recovers = source[s].recovers
            /\ source'[s].disposed
        BY <4>3, <4>4, RowAssumption DEF Source
      <4>6. \E h \in grants : s = h.source
        BY <3>1 DEF s
      <4>7. \A p \in Manual : attested'[p] \in {attested[p], Spent}
        BY <3>5
      <4>8. /\ source'[PlanOf[q]] # None
            /\ source'[PlanOf[q]].run = q
            /\ source'[PlanOf[q]].attempt = "none"
            /\ source'[PlanOf[q]].latest = "none"
            /\ ~source'[PlanOf[q]].disposed
            /\ source'[PlanOf[q]].recovers = s
        BY <1>3, <3>2, <4>3
      <4>9. UNCHANGED raisedBy
        BY <1>6 DEF PrepareCreate
      <4>10. \A p \in Plans \ {PlanOf[q]} :
                /\ ~Exists(p) => source'[p] = source[p]
                /\ Exists(p) => /\ source'[p] # None
                                /\ source'[p].run = source[p].run
                                /\ source'[p].attempt = source[p].attempt
                                /\ source'[p].latest = source[p].latest
                                /\ source'[p].recovers = source[p].recovers
                                /\ \/ source'[p].disposed = source[p].disposed
                                   \/ /\ \E h \in grants : p = h.source
                                      /\ source'[p].disposed
        <5> SUFFICES ASSUME NEW p \in Plans \ {PlanOf[q]}
                     PROVE  /\ ~Exists(p) => source'[p] = source[p]
                            /\ Exists(p) =>
                                 /\ source'[p] # None
                                 /\ source'[p].run = source[p].run
                                 /\ source'[p].attempt = source[p].attempt
                                 /\ source'[p].latest = source[p].latest
                                 /\ source'[p].recovers = source[p].recovers
                                 /\ \/ source'[p].disposed = source[p].disposed
                                    \/ /\ \E h \in grants : p = h.source
                                       /\ source'[p].disposed
          OBVIOUS
        <5>1. CASE p = s
          BY <3>2, <4>5, <4>6, <5>1
        <5>2. CASE p # s
          BY <4>3, <5>2 DEF Exists
        <5> QED
          BY <5>1, <5>2
      <4> QED
        BY <1>1, <1>2, <3>3, <4>1, <4>7, <4>8, <4>9, <4>10
    <3> QED
      BY <2>2, <3>4, <3>5 DEF ConsumeGrant
  <2> QED
    BY <1>6, <2>1, <2>2 DEF PrepareCreate
<1> QED
    BY <1>5, <1>6 DEF Intending

\* The record of an attempt, or the HALT in its place.
LEMMA RecordEffect ==
    ASSUME TradeTypeOK, NEW q \in Procs, Record(q)
    PROVE  /\ Exists(PlanOf[q])
           /\ source'[PlanOf[q]] # None
           /\ source'[PlanOf[q]].run = source[PlanOf[q]].run
           /\ source'[PlanOf[q]].latest = source[PlanOf[q]].latest
           /\ source'[PlanOf[q]].disposed = source[PlanOf[q]].disposed
           /\ source'[PlanOf[q]].recovers = source[PlanOf[q]].recovers
           /\ \/ source'[PlanOf[q]].attempt = source[PlanOf[q]].attempt
              \/ /\ source[PlanOf[q]].attempt = "none"
                 /\ source'[PlanOf[q]].attempt = Classified(run[q].answer)
                 /\ run[q].answer = "misnamed" => PlanOf[q] \in mistaken'
           /\ mistaken \subseteq mistaken'
           /\ mistaken' \subseteq mistaken \cup {PlanOf[q]}
           /\ PlanOf[q] \in mistaken' =>
                 PlanOf[q] \in mistaken \/ source'[PlanOf[q]].attempt = "rejected"
           /\ source'[PlanOf[q]].attempt = "ambiguous" =>
                 \/ source[PlanOf[q]].attempt = "ambiguous"
                 \/ raisedBy' = raisedBy \cup {PlanOf[q]}
           /\ raisedBy \subseteq raisedBy'
           /\ \A p \in Plans \ {PlanOf[q]} : source'[p] = source[p]
           /\ grants' \subseteq {g \in grants : g.source # PlanOf[q]}
           /\ \A p \in Manual : attested'[p] \in {attested[p], Spent}
           /\ run'[q] = Begun("done")
           /\ \A r \in Procs \ {q} : run'[r] = run[r]
<1>0. /\ PlanOf[q] \in Plans
      /\ run \in [Procs -> Run] /\ run[q] \in Run
      /\ source \in [Plans -> Source \cup {None}]
      /\ attested \in [Manual -> Plans \cup {None, Spent}]
    BY TradeAssumption DEF TradeTypeOK, StoreTypeOK
<1>1. /\ run'[q] = Begun("done")
      /\ \A r \in Procs \ {q} : run'[r] = run[r]
    BY <1>0, GoEffect DEF Record, Goto
<1> DEFINE outcome == Classified(run[q].answer)
<1> HIDE DEF outcome
<1>2. CASE RaiseSourceHalt(PlanOf[q]) /\ UNCHANGED mistaken
    BY <1>1, <1>2 DEF RaiseSourceHalt, RaisedFor, Exists
<1>3. CASE /\ RecordAttempt(PlanOf[q], q, outcome)
           /\ mistaken' = mistaken \cup
                            {p \in {PlanOf[q]} : run[q].answer = "misnamed"}
  <2>1. /\ source'[PlanOf[q]] = [source[PlanOf[q]] EXCEPT !.attempt = outcome]
        /\ \A p \in Plans \ {PlanOf[q]} : source'[p] = source[p]
    BY <1>0, <1>3 DEF RecordAttempt
  <2>2. source[PlanOf[q]] \in Source
    BY <1>0, <1>3, RowTypes DEF RecordAttempt
  <2>3. /\ source'[PlanOf[q]].run = source[PlanOf[q]].run
        /\ source'[PlanOf[q]].latest = source[PlanOf[q]].latest
        /\ source'[PlanOf[q]].disposed = source[PlanOf[q]].disposed
        /\ source'[PlanOf[q]].recovers = source[PlanOf[q]].recovers
        /\ source'[PlanOf[q]].attempt = outcome
    BY <2>1, <2>2 DEF Source
  <2>4. outcome \in Attempt
    BY <1>0 DEF Run, Attempt, outcome, Classified
  <2>5. source'[PlanOf[q]] # None
    BY <1>0, <1>3, <2>1, <2>4, RowTypes, RowAssumption DEF RecordAttempt
  <2>6. /\ grants' \subseteq {g \in grants : g.source # PlanOf[q]}
        /\ \A p \in Manual : attested'[p] \in {attested[p], Spent}
        /\ raisedBy \subseteq raisedBy'
        /\ outcome = "ambiguous" => raisedBy' = raisedBy \cup {PlanOf[q]}
    BY <1>3 DEF RecordAttempt, RaisedFor, Outdate
  <2>7. Exists(PlanOf[q]) /\ source[PlanOf[q]].attempt = "none"
    BY <1>3 DEF RecordAttempt
  <2>8. /\ run[q].answer = "misnamed" => PlanOf[q] \in mistaken'
        /\ mistaken \subseteq mistaken'
        /\ mistaken' \subseteq mistaken \cup {PlanOf[q]}
        /\ PlanOf[q] \in mistaken' =>
              PlanOf[q] \in mistaken \/ outcome = "rejected"
    BY <1>3 DEF outcome, Classified
  <2> QED
    BY <1>1, <2>1, <2>3, <2>5, <2>6, <2>7, <2>8 DEF outcome
<1> QED
    BY <1>2, <1>3 DEF Record, outcome

\* Whoever posts sends an order that was not sent before.
LEMMA PostEffect ==
    ASSUME TradeTypeOK, Ownership, SentOnce, NEW q \in Procs, Post(q)
    PROVE  /\ Exists(PlanOf[q])
           /\ source[PlanOf[q]].run = q
           /\ UNCHANGED <<source, raisedBy, grants, attested, status, session, mistaken>>
           /\ \A r \in Procs \ {q} : run'[r] = run[r]
           /\ run'[q].grant = run[q].grant
           /\ run'[q].known = run[q].known
           /\ venue[PlanOf[q]] = "absent"
           /\ \/ /\ venue' = [venue EXCEPT ![PlanOf[q]] = "inflight"]
                 /\ run'[q].pc = "answer"
                 /\ ~Halted
              \/ /\ UNCHANGED venue
                 /\ run'[q].pc = "record" /\ run'[q].answer = "ambiguous"
<1>0. /\ PlanOf[q] \in Plans
      /\ run \in [Procs -> Run] /\ run[q] \in Run
    BY TradeAssumption DEF TradeTypeOK
<1>1. Exists(PlanOf[q]) /\ source[PlanOf[q]].run = q
    BY DEF Post, At, Ownership
<1>2. venue[PlanOf[q]] = "absent"
    BY <1>0, <1>1 DEF SentOnce, Post, At
<1>3. UNCHANGED <<source, raisedBy, grants, attested, status, session, mistaken>>
    BY DEF Post, storeVars
<1>4. CASE /\ SourceIsCurrent(q)
           /\ venue' = [venue EXCEPT ![PlanOf[q]] =
                           IF @ = "absent" THEN "inflight" ELSE "twice"]
           /\ Goto(q, "answer")
  <2>1. /\ run'[q].pc = "answer"
        /\ run'[q].grant = run[q].grant
        /\ run'[q].known = run[q].known
        /\ \A r \in Procs \ {q} : run'[r] = run[r]
    BY <1>0, <1>4, GoEffect DEF Goto
  <2>2. venue' = [venue EXCEPT ![PlanOf[q]] = "inflight"]
    BY <1>0, <1>2, <1>4 DEF TradeTypeOK
  <2> QED
    BY <1>1, <1>2, <1>3, <1>4, <2>1, <2>2 DEF SourceIsCurrent
<1>5. CASE /\ Go(q, [run[q] EXCEPT !.answer = "ambiguous"], "record")
           /\ UNCHANGED venue
  <2>1. /\ [run[q] EXCEPT !.answer = "ambiguous"] \in Run
        /\ [run[q] EXCEPT !.answer = "ambiguous"].grant = run[q].grant
        /\ [run[q] EXCEPT !.answer = "ambiguous"].known = run[q].known
        /\ [run[q] EXCEPT !.answer = "ambiguous"].answer = "ambiguous"
    BY <1>0 DEF Run, Attempt
  <2>2. /\ run'[q].pc = "record"
        /\ run'[q].grant = run[q].grant
        /\ run'[q].known = run[q].known
        /\ run'[q].answer = "ambiguous"
        /\ \A r \in Procs \ {q} : run'[r] = run[r]
    BY <1>0, <1>5, <2>1, GoEffect
  <2> QED
    BY <1>1, <1>2, <1>3, <1>5, <2>2
<1> QED
    BY <1>4, <1>5 DEF Post

\* The answer of the exchange is the truth, or ambiguous.
LEMMA AnswerEffect ==
    ASSUME TradeTypeOK, NEW q \in Procs, Answer(q)
    PROVE  /\ At(q, "answer")
           /\ UNCHANGED <<source, raisedBy, grants, attested, status, venue, session,
                       mistaken>>
           /\ \A r \in Procs \ {q} : run'[r] = run[r]
           /\ run'[q].pc = "record"
           /\ run'[q].grant = run[q].grant
           /\ run'[q].answer = "rejected" => venue[PlanOf[q]] = "refused"
<1>0. run \in [Procs -> Run] /\ run[q] \in Run
    BY DEF TradeTypeOK
<1>1. PICK answer \in Answers(PlanOf[q]) :
          Go(q, [run[q] EXCEPT !.answer = answer], "record")
    BY DEF Answer
<1>2. answer \in Attempt \cup {"misnamed"}
    BY DEF Answers, Attempt
<1>3. /\ [run[q] EXCEPT !.answer = answer] \in Run
      /\ [run[q] EXCEPT !.answer = answer].grant = run[q].grant
      /\ [run[q] EXCEPT !.answer = answer].answer = answer
    BY <1>0, <1>2 DEF Run
<1>4. answer = "rejected" => venue[PlanOf[q]] = "refused"
    BY <1>1 DEF Answers
<1> QED
    BY <1>0, <1>1, <1>3, <1>4, GoEffect DEF Answer, storeVars, Elsewhere

\* Nobody takes a source away, and the owner of an order is past its POST.
LEMMA OwnershipStep ==
    ASSUME TradeTypeOK, GrantsExist, Ownership, SentOnce, [Next]_vars
    PROVE  Ownership' /\ SentOnce'
<1>0. /\ run \in [Procs -> Run]
      /\ \A q \in Procs : PlanOf[q] \in Plans
      /\ \A p \in Plans : Exists(p) => source[p].run \in Procs
      /\ venue \in [Plans -> Venue]
    BY TradeAssumption, RowTypes DEF TradeTypeOK, Source
<1>1. ASSUME NEW q \in Procs, Preparing(q) PROVE Ownership' /\ SentOnce'
  <2>1. \A r \in Procs : run'[r].pc \in {"post", "answer", "record"} =>
            r # q /\ run'[r].pc = run[r].pc
    BY <1>1 DEF Preparing
  <2>2. \A r \in Procs : run[r].pc \in {"answer", "record", "done"} =>
            run'[r].pc = run[r].pc
    BY <1>1 DEF Preparing
  <2>3. UNCHANGED <<source, venue>>
    BY <1>1 DEF Preparing
  <2>4. Ownership'
    BY <2>1, <2>3 DEF Ownership, Exists
  <2>5. SentOnce'
    BY <1>0, <2>2, <2>3 DEF SentOnce, Exists
  <2> QED
    BY <2>4, <2>5
<1>2. ASSUME NEW q \in Procs, Intending(q) PROVE Ownership' /\ SentOnce'
  <2>0. /\ ~Exists(PlanOf[q]) /\ At(q, "intend") /\ UNCHANGED venue
        /\ Exists(PlanOf[q])'
        /\ source'[PlanOf[q]].run = q
        /\ source'[PlanOf[q]].attempt = "none"
        /\ \A p \in Plans \ {PlanOf[q]} :
              /\ ~Exists(p) => ~Exists(p)'
              /\ Exists(p) => /\ Exists(p)'
                              /\ source'[p].run = source[p].run
                              /\ source'[p].attempt = source[p].attempt
        /\ run'[q].pc = "post"
        /\ \A r \in Procs \ {q} : run'[r] = run[r]
    BY <1>2, IntentEffect DEF Intending, Exists, Elsewhere
  <2>1. \A r \in Procs \ {q} : run[r].pc \in {"post", "answer", "record"} =>
            PlanOf[r] # PlanOf[q]
    BY <2>0 DEF Ownership
  <2>2. Ownership'
    BY <1>0, <2>0, <2>1 DEF Ownership
  <2>3. SentOnce'
    BY <1>0, <2>0 DEF SentOnce, At
  <2> QED
    BY <2>2, <2>3
<1>3. ASSUME NEW q \in Procs, Post(q) PROVE Ownership' /\ SentOnce'
  <2>0. /\ Exists(PlanOf[q]) /\ source[PlanOf[q]].run = q
        /\ source[PlanOf[q]].attempt = "none"
        /\ UNCHANGED source
        /\ \A r \in Procs \ {q} : run'[r] = run[r]
        /\ run'[q].pc \in {"answer", "record"}
        /\ \/ UNCHANGED venue
           \/ /\ venue' = [venue EXCEPT ![PlanOf[q]] = "inflight"]
              /\ run'[q].pc = "answer"
    BY <1>3, PostEffect DEF Ownership, Post, At
  <2>1. Ownership'
    BY <1>0, <2>0 DEF Ownership, Exists
  <2>2. \A p \in Plans : venue'[p] = venue[p] \/ (p = PlanOf[q] /\ venue'[p] = "inflight")
    BY <1>0, <2>0
  <2>3. SentOnce'
    BY <1>0, <2>0, <2>2 DEF SentOnce, Exists
  <2> QED
    BY <2>1, <2>3
<1>4. ASSUME NEW q \in Procs, Answer(q) PROVE Ownership' /\ SentOnce'
  <2>0. /\ At(q, "answer") /\ UNCHANGED <<source, venue>>
        /\ \A r \in Procs \ {q} : run'[r] = run[r]
        /\ run'[q].pc = "record"
    BY <1>4, AnswerEffect
  <2>1. Ownership'
    BY <1>0, <2>0 DEF Ownership, Exists, At
  <2>2. SentOnce'
    BY <1>0, <2>0 DEF SentOnce, Exists
  <2> QED
    BY <2>1, <2>2
<1>5. ASSUME NEW q \in Procs, Record(q) PROVE Ownership' /\ SentOnce'
  <2>0. /\ At(q, "record") /\ Exists(PlanOf[q]) /\ Exists(PlanOf[q])'
        /\ UNCHANGED venue
        /\ source'[PlanOf[q]].run = source[PlanOf[q]].run
        /\ \A p \in Plans \ {PlanOf[q]} : source'[p] = source[p]
        /\ \A r \in Procs \ {q} : run'[r] = run[r]
        /\ run'[q].pc = "done"
    BY <1>5, RecordEffect DEF Record, Elsewhere, Exists, Begun
  <2>1. \A r \in Procs \ {q} : run[r].pc \in {"post", "answer", "record"} =>
            PlanOf[r] # PlanOf[q]
    BY <2>0 DEF Ownership, At
  <2>2. Ownership'
    BY <1>0, <2>0, <2>1 DEF Ownership, Exists
  <2>3. SentOnce'
    BY <1>0, <2>0 DEF SentOnce, Exists
  <2> QED
    BY <2>2, <2>3
<1>6. ASSUME NEW p \in Plans, Trade(p) PROVE Ownership' /\ SentOnce'
  <2>1. UNCHANGED <<source, run>>
    BY <1>6 DEF Trade, storeVars
  <2>2. \A r \in Plans : venue'[r] # "absent" =>
            venue[r] # "absent" /\ (venue'[r] = "twice" => venue[r] = "twice")
    BY <1>0, <1>6 DEF Trade, Becomes
  <2>3. Ownership'
    BY <2>1 DEF Ownership, Exists
  <2>4. SentOnce'
    BY <2>1, <2>2 DEF SentOnce, Exists
  <2> QED
    BY <2>3, <2>4
<1>7. CASE Clerical
  <2>1. \A p \in Plans : (Exists(p)' <=> Exists(p))
    BY <1>7 DEF Clerical, Exists
  <2>2. Ownership'
    BY <1>0, <1>7, <2>1 DEF Clerical, Ownership
  <2>3. SentOnce'
    BY <1>0, <1>7, <2>1 DEF Clerical, SentOnce
  <2> QED
    BY <2>2, <2>3
<1>8. CASE UNCHANGED vars
    BY <1>8 DEF vars, storeVars, Ownership, SentOnce, Exists
<1> QED
    BY <1>1, <1>2, <1>3, <1>4, <1>5, <1>6, <1>7, <1>8, StepKinds, ClericalSteps

\* What has ended stays ended.
LEMMA EndedStays ==
    ASSUME TradeTypeOK, Ownership, SentOnce, [Next]_vars, NEW p \in Plans, Ended(p)
    PROVE  Ended(p)'
<1>0. mistaken \subseteq mistaken'
    BY RecordEffect, PostEffect, AnswerEffect, StepKinds, ClericalSteps
    DEF Preparing, Intending, Elsewhere, Trade, Clerical, vars
<1> SUFFICES ASSUME p \notin mistaken PROVE Ended(p)'
    BY <1>0 DEF Ended
<1>1. venue \in [Plans -> Venue] /\ venue[p] \in {"refused", "over", "hand"}
    BY DEF TradeTypeOK, Ended, OverIn
<1>2. UNCHANGED venue => Ended(p)'
    BY <1>1 DEF Ended, OverIn
<1>3. ASSUME NEW q \in Procs, Post(q) PROVE Ended(p)'
  <2>1. venue'[p] = venue[p]
    BY <1>1, <1>3, PostEffect
  <2> QED
    BY <1>1, <2>1 DEF Ended, OverIn
<1>4. ASSUME NEW r \in Plans, Trade(r) PROVE Ended(p)'
  <2>1. venue'[p] = venue[p]
    BY <1>1, <1>4 DEF Trade, Becomes
  <2> QED
    BY <1>1, <2>1 DEF Ended, OverIn
<1> QED
    BY <1>2, <1>3, <1>4, StepKinds, ClericalSteps
    DEF Preparing, Intending, Answer, Record, Elsewhere, Clerical, vars

\* Only existing sources are granted, and they go on existing.
LEMMA SourcesStay ==
    ASSUME TradeTypeOK, GrantsExist, Ownership, SentOnce, [Next]_vars,
           NEW p \in Plans, Exists(p)
    PROVE  Exists(p)'
<1>1. UNCHANGED source => Exists(p)'
    BY DEF Exists
<1>2. ASSUME NEW q \in Procs, Intending(q) PROVE Exists(p)'
    BY <1>2, IntentEffect DEF Exists
<1>3. ASSUME NEW q \in Procs, Record(q) PROVE Exists(p)'
    BY <1>3, RecordEffect DEF Exists
<1>4. Clerical => Exists(p)'
    BY DEF Clerical, Exists
<1>5. ASSUME NEW q \in Procs, Post(q) \/ Answer(q) PROVE UNCHANGED source
    BY <1>5, PostEffect, AnswerEffect
<1> QED
    BY <1>1, <1>2, <1>3, <1>4, <1>5, StepKinds, ClericalSteps
    DEF Preparing, Trade, storeVars, vars

\* Every step keeps the types.
LEMMA TradeTypeStep ==
    ASSUME TradeTypeOK, GrantsExist, [Next]_vars
    PROVE  TradeTypeOK'
<1>1. CASE UNCHANGED vars
    BY <1>1 DEF vars, storeVars, TradeTypeOK, StoreTypeOK
<1> QED
    BY <1>1, CommandStepType, ExecuteStepType, ClericalStepType DEF Next

-----------------------------------------------------------------------------
\* What releases a source is true.

\* A grant that appears had its proof; an attestation that appears was true.
LEMMA ReleaseSteps ==
    ASSUME TradeTypeOK, GrantsExist, Ownership, SentOnce, [Next]_vars
    PROVE  /\ \A g \in grants' : \/ g \in grants
                                 \/ /\ Exists(g.source)
                                    /\ \/ /\ ~g.manual
                                          /\ source[g.source].latest = "clean"
                                       \/ /\ g.manual /\ g.plan \in Manual
                                          /\ attested[g.plan] = g.source
           /\ \A p \in Manual : \/ attested'[p] \in {attested[p], Spent}
                                \/ attested'[p] \in {s \in Plans : venue[s] \in OverIn}
<1> DEFINE Goal ==
           /\ \A g \in grants' : \/ g \in grants
                                 \/ /\ Exists(g.source)
                                    /\ \/ /\ ~g.manual
                                          /\ source[g.source].latest = "clean"
                                       \/ /\ g.manual /\ g.plan \in Manual
                                          /\ attested[g.plan] = g.source
           /\ \A p \in Manual : \/ attested'[p] \in {attested[p], Spent}
                                \/ attested'[p] \in {s \in Plans : venue[s] \in OverIn}
<1>1. ASSUME grants' \subseteq grants,
             \A p \in Manual : attested'[p] \in {attested[p], Spent}
      PROVE  Goal
    BY <1>1
<1>2. ASSUME NEW q \in Procs,
             Preparing(q) \/ Intending(q) \/ Post(q) \/ Answer(q) \/ Record(q)
      PROVE  Goal
  <2>1. grants' \subseteq grants
    BY <1>2, IntentEffect, PostEffect, AnswerEffect, RecordEffect DEF Preparing
  <2>2. \A p \in Manual : attested'[p] \in {attested[p], Spent}
    BY <1>2, IntentEffect, PostEffect, AnswerEffect, RecordEffect DEF Preparing
  <2> QED
    BY <1>1, <2>1, <2>2
<1>3. UNCHANGED storeVars => Goal
    BY <1>1 DEF storeVars
<1>4. ASSUME NEW p \in Plans, StatusStep(p) PROVE Goal
  <2>1. \/ UNCHANGED storeVars \/ Outdate(p)
        \/ grants' = {} /\ UNCHANGED attested
    BY <1>4 DEF StatusStep, BeginStatus, SeeOrder, SeeNothing, SeeDoubt, Saw,
       AppendVerdict, AppendReconciliation, AppendManualAction, RaiseForStatus,
       RaiseSourceHalt, RaisedFor
  <2>2. Outdate(p) => Goal
    BY <1>1 DEF Outdate
  <2> QED
    BY <1>1, <1>3, <2>1, <2>2
<1>5. ASSUME NEW p \in Manual, NEW s \in Plans, Attest(p, s) PROVE Goal
  <2>1. /\ venue[s] \in OverIn
        /\ attested' = [attested EXCEPT ![p] = s]
        /\ UNCHANGED grants
    BY <1>5 DEF Attest, PersistAttestation
  <2>2. \A r \in Manual : attested'[r] = attested[r] \/ attested'[r] = s
    BY <2>1 DEF TradeTypeOK, StoreTypeOK
  <2> QED
    BY <2>1, <2>2
<1>6. ASSUME NEW p \in Plans \ Commands, NEW s \in Plans, GrantRecovery(p, s)
      PROVE  Goal
  <2>1. PICK manual \in BOOLEAN : CreateRecoveryGrant(p, s, manual)
    BY <1>6 DEF GrantRecovery
  <2> DEFINE new == [plan |-> p, source |-> s, manual |-> manual]
  <2>2. /\ Exists(s)
        /\ \/ ~manual /\ source[s].latest = "clean"
           \/ manual /\ p \in Manual /\ attested[p] = s
        /\ grants' \subseteq grants \cup {new}
    BY <2>1 DEF CreateRecoveryGrant, Recoverable, ProvedOver
  <2>3. new.plan = p /\ new.source = s /\ new.manual = manual
    OBVIOUS
  <2>4. \A r \in Manual : attested'[r] \in {attested[r], Spent}
    BY <2>1 DEF CreateRecoveryGrant, TradeTypeOK, StoreTypeOK
  <2> HIDE DEF new
  <2> QED
    BY <2>2, <2>3, <2>4
<1>7. ASSUME OtherHalt PROVE Goal
    BY <1>1, <1>7 DEF OtherHalt, RaiseForeignHalt, RaisedFor
<1> HIDE DEF Goal
<1>8. Goal
    BY <1>2, <1>3, <1>4, <1>5, <1>6, <1>7, StepKinds
    DEF Trade, vars, RecoveryStep
<1> QED
    BY <1>8 DEF Goal

\* Grants and attestations go on being true.
LEMMA ReleasesTrueStep ==
    ASSUME TradeTypeOK, GrantsExist, Ownership, SentOnce, RowsTrue, ReleasesTrue,
           [Next]_vars
    PROVE  GrantsExist' /\ ReleasesTrue'
<1>1. ASSUME NEW g \in grants' PROVE Exists(g.source)' /\ Ended(g.source)'
  <2>1. CASE g \in grants
    <3>1. g.source \in Plans
      BY <2>1 DEF TradeTypeOK, StoreTypeOK, Grant
    <3> QED
      BY <2>1, <3>1, EndedStays, SourcesStay DEF GrantsExist, ReleasesTrue
  <2>2. CASE g \notin grants
    <3>1. /\ Exists(g.source)
          /\ \/ /\ ~g.manual
                /\ source[g.source].latest = "clean"
             \/ /\ g.manual /\ g.plan \in Manual
                /\ attested[g.plan] = g.source
      BY <2>2, ReleaseSteps
    <3>2. g.source \in Plans
      BY TradeTypeStep DEF TradeTypeOK, StoreTypeOK, Grant
    <3>3. Ended(g.source)
      BY <3>1, <3>2 DEF RowsTrue, ReleasesTrue
    <3> QED
      BY <3>1, <3>2, <3>3, EndedStays, SourcesStay
  <2> QED
    BY <2>1, <2>2
<1>2. ASSUME NEW p \in Manual, attested'[p] \in Plans PROVE Ended(attested[p])'
  <2>1. Ended(attested'[p])
    BY <1>2, ReleaseSteps, OperatorAssumption DEF ReleasesTrue, Ended
  <2> QED
    BY <1>2, <2>1, EndedStays
<1> QED
    BY <1>1, <1>2 DEF GrantsExist, ReleasesTrue

\* An answer that says rejected is true; only one that is misnamed is not.
LEMMA AnswersTrueStep ==
    ASSUME TradeTypeOK, GrantsExist, Ownership, SentOnce, AnswersTrue, [Next]_vars
    PROVE  AnswersTrue'
<1>0. \A q \in Procs : PlanOf[q] \in Plans
    BY TradeAssumption
<1>1. ASSUME NEW r \in Procs, run'[r].pc = run[r].pc, run'[r].answer = run[r].answer
      PROVE  At(r, "record")' /\ run'[r].answer = "rejected" => Ended(PlanOf[r])'
    BY <1>0, <1>1, EndedStays DEF AnswersTrue, At
<1>2. ASSUME NEW q \in Procs,
             \A r \in Procs \ {q} : /\ run'[r].pc = run[r].pc
                                     /\ run'[r].answer = run[r].answer,
             At(q, "record")' /\ run'[q].answer = "rejected" => Ended(PlanOf[q])'
      PROVE  AnswersTrue'
    BY <1>1, <1>2 DEF AnswersTrue
<1>3. ASSUME NEW q \in Procs, Preparing(q) PROVE AnswersTrue'
    BY <1>2, <1>3 DEF Preparing, At
<1>4. ASSUME NEW q \in Procs, Intending(q) PROVE AnswersTrue'
    BY <1>2, <1>4, IntentEffect DEF At
<1>5. ASSUME NEW q \in Procs, Post(q) PROVE AnswersTrue'
    BY <1>2, <1>5, PostEffect DEF At
<1>6. ASSUME NEW q \in Procs, Answer(q) PROVE AnswersTrue'
    BY <1>2, <1>6, AnswerEffect DEF At, Ended
<1>7. ASSUME NEW q \in Procs, Record(q) PROVE AnswersTrue'
    BY <1>2, <1>7, RecordEffect DEF At, Begun
<1>8. CASE UNCHANGED run
    BY <1>1, <1>8 DEF AnswersTrue
<1> QED
    BY <1>3, <1>4, <1>5, <1>6, <1>7, <1>8, StepKinds, ClericalSteps
    DEF Clerical, Trade, vars

\* The conclusions of a status run are true, however late they are.
LEMMA LookTrueStep ==
    ASSUME TradeTypeOK, GrantsExist, Ownership, SentOnce, RowsTrue, LookTrue,
           [Next]_vars
    PROVE  LookTrue'
<1>1. CASE UNCHANGED status
    BY <1>1, EndedStays DEF LookTrue, Asks
<1>2. ASSUME status' = NotLooking PROVE LookTrue'
    BY <1>2 DEF LookTrue, Asks, NotLooking
<1>3. ASSUME NEW p \in Plans, StatusStep(p) PROVE LookTrue'
  <2>1. CASE BeginStatus(p)
    <3>1. /\ status' = [pc |-> "look", of |-> p, unseen |-> VerdictUnseen(p),
                        verdict |-> "none"]
          /\ Exists(p) /\ UNCHANGED <<venue, mistaken>>
      BY <2>1 DEF BeginStatus, Quiet
    <3>2. VerdictUnseen(p) = "clean" => Ended(p)
      BY <3>1 DEF VerdictUnseen, RowsTrue
    <3> QED
      BY <3>1, <3>2 DEF LookTrue, Asks, Ended
  <2>2. ASSUME NEW verdict, Saw(p, verdict), verdict = "clean" => Ended(p)
        PROVE  LookTrue'
    <3>1. /\ status' = [status EXCEPT !.pc = "append", !.verdict = verdict]
          /\ UNCHANGED <<venue, mistaken>> /\ status.of = p
      BY <2>2 DEF Saw, Asks, Quiet
    <3>2. /\ status'.pc = "append" /\ status'.verdict = verdict
          /\ status'.of = p
      BY <3>1 DEF TradeTypeOK, Look
    <3> QED
      BY <2>2, <3>1, <3>2 DEF LookTrue, Asks, Ended
  <2>3. CASE SeeOrder(p)
    <3>1. VerdictOf(p) = "clean" => Ended(p)
      BY DEF VerdictOf, Ended, OverIn
    <3> QED
      BY <2>2, <2>3, <3>1 DEF SeeOrder
  <2>4. CASE SeeNothing(p)
    BY <2>2, <2>4 DEF SeeNothing, Saw, LookTrue
  <2>5. CASE SeeDoubt(p)
    BY <2>2, <2>5 DEF SeeDoubt
  <2>6. CASE AppendVerdict(p)
    <3>1. CASE status' = [status EXCEPT !.pc = "raise"]
      <4>1. status'.pc = "raise"
        BY <3>1 DEF TradeTypeOK, Look
      <4> QED
        BY <4>1 DEF LookTrue, Asks
    <3> QED
      BY <1>2, <2>6, <3>1 DEF AppendVerdict
  <2>7. CASE RaiseForStatus(p)
    BY <1>2, <2>7 DEF RaiseForStatus
  <2> QED
    BY <1>3, <2>1, <2>3, <2>4, <2>5, <2>6, <2>7 DEF StatusStep
<1> QED
    BY <1>1, <1>3, StepKinds, PostEffect, AnswerEffect
    DEF Preparing, Intending, Record, Elsewhere, Trade, RecoveryStep, Attest,
        GrantRecovery, OtherHalt, vars

\* What a status run or a person learned about a source.
LEMMA LatestSteps ==
    ASSUME TradeTypeOK,
           \/ \E p \in Plans : StatusStep(p)
           \/ RecoveryStep \/ OtherHalt
    PROVE  \A p \in Plans : Exists(p) =>
               \/ source'[p].latest = source[p].latest
               \/ /\ Asks(p, "append") /\ source'[p].latest = status.verdict
                  /\ Outdate(p)
<1>1. ASSUME NEW p \in Plans, AppendManualAction(p), NEW r \in Plans
      PROVE  source'[r].latest = source[r].latest
  <2>1. source[p] \in Source
    BY <1>1, RowTypes DEF AppendManualAction
  <2>2. source'[p] = [source[p] EXCEPT !.declared = TRUE]
    BY <1>1 DEF AppendManualAction, TradeTypeOK, StoreTypeOK
  <2>3. r # p => source'[r] = source[r]
    BY <1>1 DEF AppendManualAction, TradeTypeOK, StoreTypeOK
  <2> QED
    BY <2>1, <2>2, <2>3 DEF Source
<1>2. ASSUME NEW p \in Plans, AppendVerdict(p), NEW r \in Plans
      PROVE  \/ source'[r].latest = source[r].latest
             \/ r = p /\ source'[r].latest = status.verdict
  <2>1. source[p] \in Source
    BY <1>2, RowTypes DEF AppendVerdict, AppendReconciliation
  <2>2. source'[p] = [source[p] EXCEPT !.latest = status.verdict]
    BY <1>2 DEF AppendVerdict, AppendReconciliation, TradeTypeOK, StoreTypeOK
  <2>3. r # p => source'[r] = source[r]
    BY <1>2 DEF AppendVerdict, AppendReconciliation, TradeTypeOK, StoreTypeOK
  <2> QED
    BY <2>1, <2>2, <2>3 DEF Source
<1>3. ASSUME NEW p \in Plans, StatusStep(p), NEW r \in Plans
      PROVE  \/ source'[r].latest = source[r].latest
             \/ /\ Asks(r, "append") /\ source'[r].latest = status.verdict
                /\ Outdate(r)
  <2>1. CASE AppendVerdict(p)
    BY <1>2, <2>1 DEF AppendVerdict, AppendReconciliation
  <2>2. CASE BeginStatus(p)
    BY <1>1, <2>2 DEF BeginStatus, storeVars
  <2>3. CASE SeeOrder(p) \/ SeeNothing(p) \/ SeeDoubt(p)
    BY <2>3 DEF SeeOrder, SeeNothing, SeeDoubt, Saw, storeVars
  <2>4. CASE RaiseForStatus(p)
    BY <2>4 DEF RaiseForStatus, RaiseSourceHalt, storeVars
  <2> QED
    BY <1>3, <2>1, <2>2, <2>3, <2>4 DEF StatusStep
<1>4. RecoveryStep \/ OtherHalt => UNCHANGED source
    BY DEF RecoveryStep, Attest, PersistAttestation, GrantRecovery,
       CreateRecoveryGrant, OtherHalt, RaiseForeignHalt
<1> QED
    BY <1>3, <1>4

\* The rows tell the truth about the end of an order.
LEMMA RowsTrueStep ==
    ASSUME TradeTypeOK, GrantsExist, Ownership, SentOnce, Truthful, [Next]_vars
    PROVE  RowsTrue'
<1>0. /\ \A q \in Procs : PlanOf[q] \in Plans
      /\ \A p \in Plans : Exists(p) => source[p].recovers \in Plans \cup {None}
      /\ \A g \in grants : g.source \in Plans
    BY TradeAssumption, RowTypes DEF TradeTypeOK, StoreTypeOK, Source, Grant
<1>1. \A p \in Plans : Ended(p) => Ended(p)'
    BY EndedStays
<1>2. ASSUME NEW p \in Plans, source'[p] = source[p], Exists(p)'
      PROVE  /\ source'[p].attempt = "rejected" => Ended(p)'
             /\ source'[p].latest = "clean" => Ended(p)'
             /\ source'[p].disposed => Ended(p)'
             /\ source'[p].recovers # None => Ended(source[p].recovers)'
  <2>1. /\ source[p].attempt = "rejected" => Ended(p)
        /\ source[p].latest = "clean" => Ended(p)
        /\ source[p].disposed => Ended(p)
        /\ source[p].recovers # None => Ended(source[p].recovers)
    BY <1>2 DEF Truthful, RowsTrue, Exists
  <2>2. source[p].recovers \in Plans \cup {None}
    BY <1>0, <1>2 DEF Exists
  <2> QED
    BY <1>1, <1>2, <2>1, <2>2 DEF Ended
<1>3. CASE UNCHANGED source
    BY <1>2, <1>3 DEF RowsTrue
<1>4. ASSUME NEW q \in Procs, Intending(q) PROVE RowsTrue'
  <2> SUFFICES ASSUME NEW p \in Plans, Exists(p)'
               PROVE  /\ source'[p].attempt = "rejected" => Ended(p)'
                      /\ source'[p].latest = "clean" => Ended(p)'
                      /\ source'[p].disposed => Ended(p)'
                      /\ source'[p].recovers # None => Ended(source[p].recovers)'
    BY DEF RowsTrue
  <2>1. CASE p = PlanOf[q]
    <3>1. /\ source'[p].attempt = "none" /\ source'[p].latest = "none"
          /\ ~source'[p].disposed
          /\ source'[p].recovers \in {None} \cup {g.source : g \in grants}
      BY <1>4, <2>1, IntentEffect
    <3>2. \A g \in grants : g.source \in Plans /\ Ended(g.source)
      BY <1>0 DEF Truthful, ReleasesTrue
    <3>3. \A g \in grants : Ended(g.source)'
      BY <1>1, <3>2
    <3> QED
      BY <3>1, <3>3 DEF Ended
  <2>2. CASE p # PlanOf[q]
    <3>1. /\ Exists(p)
          /\ source'[p].attempt = source[p].attempt
          /\ source'[p].latest = source[p].latest
          /\ source'[p].recovers = source[p].recovers
          /\ \/ source'[p].disposed = source[p].disposed
             \/ \E g \in grants : p = g.source
      BY <1>4, <2>2, IntentEffect DEF Exists
    <3>2. \A g \in grants : Ended(g.source)
      BY DEF Truthful, ReleasesTrue
    <3>3. source[p].recovers # None =>
              source[p].recovers \in Plans /\ Ended(source[p].recovers)
      BY <1>0, <3>1 DEF Truthful, RowsTrue
    <3> QED
      BY <1>1, <3>1, <3>2, <3>3 DEF Truthful, RowsTrue, Ended
  <2> QED
    BY <2>1, <2>2
<1>5. ASSUME NEW q \in Procs, Record(q) PROVE RowsTrue'
  <2> SUFFICES ASSUME NEW p \in Plans, Exists(p)'
               PROVE  /\ source'[p].attempt = "rejected" => Ended(p)'
                      /\ source'[p].latest = "clean" => Ended(p)'
                      /\ source'[p].disposed => Ended(p)'
                      /\ source'[p].recovers # None => Ended(source[p].recovers)'
    BY DEF RowsTrue
  <2>1. CASE p = PlanOf[q]
    <3>1. /\ Exists(p) /\ At(q, "record")
          /\ source'[p].latest = source[p].latest
          /\ source'[p].disposed = source[p].disposed
          /\ source'[p].recovers = source[p].recovers
          /\ \/ source'[p].attempt = source[p].attempt
             \/ /\ source'[p].attempt = Classified(run[q].answer)
                /\ run[q].answer = "misnamed" => p \in mistaken'
      BY <1>5, <2>1, RecordEffect DEF Record
    <3>2. Classified(run[q].answer) = "rejected" =>
              Ended(p) \/ run[q].answer = "misnamed"
      BY <2>1, <3>1 DEF Truthful, AnswersTrue, Classified
    <3>3. source[p].recovers # None =>
              source[p].recovers \in Plans /\ Ended(source[p].recovers)
      BY <1>0, <3>1 DEF Truthful, RowsTrue
    <3> QED
      BY <1>1, <3>1, <3>2, <3>3 DEF Truthful, RowsTrue, Ended
  <2>2. CASE p # PlanOf[q]
    BY <1>2, <1>5, <2>2, RecordEffect
  <2> QED
    BY <2>1, <2>2
<1>6. ASSUME \/ \E p \in Plans : StatusStep(p)
             \/ RecoveryStep \/ OtherHalt
      PROVE  RowsTrue'
  <2> SUFFICES ASSUME NEW p \in Plans, Exists(p)'
               PROVE  /\ source'[p].attempt = "rejected" => Ended(p)'
                      /\ source'[p].latest = "clean" => Ended(p)'
                      /\ source'[p].disposed => Ended(p)'
                      /\ source'[p].recovers # None => Ended(source[p].recovers)'
    BY DEF RowsTrue
  <2>1. /\ Exists(p)
        /\ source'[p].attempt = source[p].attempt
        /\ source'[p].disposed = source[p].disposed
        /\ source'[p].recovers = source[p].recovers
    BY <1>6, ClericalSteps DEF Clerical, Exists
  <2>2. \/ source'[p].latest = source[p].latest
        \/ Asks(p, "append") /\ source'[p].latest = status.verdict
    BY <1>6, <2>1, LatestSteps
  <2>3. source'[p].latest = "clean" => Ended(p)
    BY <2>1, <2>2 DEF Truthful, RowsTrue, LookTrue
  <2>4. source[p].recovers # None =>
            source[p].recovers \in Plans /\ Ended(source[p].recovers)
    BY <1>0, <2>1 DEF Truthful, RowsTrue
  <2> QED
    BY <1>1, <2>1, <2>3, <2>4 DEF Truthful, RowsTrue, Ended
<1>7. ASSUME NEW q \in Procs, Preparing(q) \/ Post(q) \/ Answer(q)
      PROVE  UNCHANGED source
    BY <1>7, PostEffect, AnswerEffect DEF Preparing
<1> QED
    BY <1>3, <1>4, <1>5, <1>6, <1>7, StepKinds DEF Trade, storeVars, vars

\* An unsettled order keeps its source pending.
LEMMA UnsettledIsPending ==
    ASSUME RowsTrue, NEW p \in Plans, Unsettled(p)
    PROVE  p \in PendingSources
    BY DEF RowsTrue, Unsettled, PendingSources

\* An exposed order that is not mistaken has a source and is unsettled.
LEMMA ExposedIsUnsettled ==
    ASSUME SentOnce, NEW p \in Understood, Exposed(p)
    PROVE  Unsettled(p)
    BY DEF SentOnce, Exposed, ExposedIn, Unsettled, Ended, OverIn, Understood

\* Whose attempt is not a rejection is not mistaken.
LEMMA DoubtIsUnderstood ==
    ASSUME MistakesRecorded, NEW p \in Plans, source[p].attempt # "rejected"
    PROVE  p \in Understood
    BY DEF MistakesRecorded, Understood

\* The order of a process that awaits its answer is not mistaken.
LEMMA AwaitedIsUnsettled ==
    ASSUME Ownership, SentOnce, MistakesRecorded, NEW q \in Procs, At(q, "answer"),
           Exposed(PlanOf[q])
    PROVE  Unsettled(PlanOf[q])
<1>1. PlanOf[q] \in Plans /\ source[PlanOf[q]].attempt = "none"
    BY TradeAssumption DEF Ownership, At
<1> QED
    BY <1>1, DoubtIsUnderstood, ExposedIsUnsettled

\* A mistake is made with the record, and no attempt is recorded twice.
LEMMA MistakesRecordedStep ==
    ASSUME TradeTypeOK, GrantsExist, Ownership, SentOnce, MistakesRecorded,
           [Next]_vars
    PROVE  MistakesRecorded'
<1>0. mistaken \subseteq Plans /\ \A q \in Procs : PlanOf[q] \in Plans
    BY TradeAssumption DEF TradeTypeOK
<1>1. UNCHANGED <<source, mistaken>> => MistakesRecorded'
    BY DEF MistakesRecorded, Exists
<1>2. ASSUME NEW q \in Procs, Intending(q) PROVE MistakesRecorded'
  <2>1. /\ UNCHANGED mistaken /\ ~Exists(PlanOf[q])
        /\ \A p \in Plans \ {PlanOf[q]} : Exists(p) =>
              Exists(p)' /\ source'[p].attempt = source[p].attempt
    BY <1>2, IntentEffect DEF Intending, Elsewhere, Exists
  <2> QED
    BY <1>0, <2>1 DEF MistakesRecorded
<1>3. ASSUME NEW q \in Procs, Record(q) PROVE MistakesRecorded'
  <2>1. /\ mistaken' \subseteq mistaken \cup {PlanOf[q]}
        /\ Exists(PlanOf[q])'
        /\ PlanOf[q] \in mistaken' =>
              PlanOf[q] \in mistaken \/ source'[PlanOf[q]].attempt = "rejected"
        /\ \/ source'[PlanOf[q]].attempt = source[PlanOf[q]].attempt
           \/ source[PlanOf[q]].attempt = "none"
        /\ \A p \in Plans \ {PlanOf[q]} : source'[p] = source[p]
    BY <1>3, RecordEffect DEF Exists
  <2> QED
    BY <1>0, <2>1 DEF MistakesRecorded, Exists
<1>4. CASE Clerical
    BY <1>0, <1>4 DEF Clerical, MistakesRecorded, Exists
<1>5. ASSUME NEW q \in Procs, Post(q) \/ Answer(q) PROVE UNCHANGED <<source, mistaken>>
    BY <1>5, PostEffect, AnswerEffect
<1> QED
    BY <1>1, <1>2, <1>3, <1>4, <1>5, StepKinds, ClericalSteps
    DEF Preparing, Trade, storeVars, vars

\* HALT stays up for an order of unknown fate.
LEMMA DoubtHoldsHaltStep ==
    ASSUME TradeTypeOK, GrantsExist, Ownership, SentOnce, Truthful,
           MistakesRecorded, DoubtHoldsHalt,
           [Next]_vars
    PROVE  DoubtHoldsHalt'
<1>0. /\ \A q \in Procs : PlanOf[q] \in Plans
      /\ venue \in [Plans -> Venue]
    BY TradeAssumption DEF TradeTypeOK
<1> DEFINE Doubt(p) == Exposed(p) /\ source[p].attempt = "ambiguous"
<1>1. \A p \in Plans : Doubt(p) => raisedBy # {}
    BY DEF DoubtHoldsHalt, Halted
<1>2. ASSUME \A p \in Plans : Doubt(p)' => raisedBy' # {}
      PROVE  DoubtHoldsHalt'
    BY <1>2 DEF DoubtHoldsHalt, Halted
<1>3. ASSUME raisedBy \subseteq raisedBy', UNCHANGED venue,
             \A p \in Plans : Exists(p) => source'[p].attempt = source[p].attempt
      PROVE  DoubtHoldsHalt'
    BY <1>1, <1>2, <1>3 DEF Exposed, ExposedIn, SentOnce
<1>4. ASSUME NEW q \in Procs, Preparing(q) \/ Answer(q) PROVE DoubtHoldsHalt'
    BY <1>3, <1>4, AnswerEffect DEF Preparing
<1>5. ASSUME NEW q \in Procs, Intending(q) PROVE DoubtHoldsHalt'
    BY <1>3, <1>5, IntentEffect DEF Intending, Elsewhere
<1>6. ASSUME NEW q \in Procs, Post(q) PROVE DoubtHoldsHalt'
  <2>1. /\ UNCHANGED <<source, raisedBy>>
        /\ source[PlanOf[q]].attempt = "none"
        /\ UNCHANGED venue \/ venue' = [venue EXCEPT ![PlanOf[q]] = "inflight"]
    BY <1>6, PostEffect DEF Post, At, Ownership
  <2>2. \A p \in Plans : Doubt(p)' => Doubt(p)
    BY <1>0, <2>1 DEF Exposed
  <2> QED
    BY <1>1, <1>2, <2>1, <2>2
<1>7. ASSUME NEW q \in Procs, Record(q) PROVE DoubtHoldsHalt'
  <2>1. /\ UNCHANGED venue
        /\ source'[PlanOf[q]].attempt = "ambiguous" =>
              \/ source[PlanOf[q]].attempt = "ambiguous"
              \/ raisedBy' = raisedBy \cup {PlanOf[q]}
        /\ raisedBy \subseteq raisedBy'
        /\ \A p \in Plans \ {PlanOf[q]} : source'[p] = source[p]
    BY <1>7, RecordEffect DEF Record, Elsewhere
  <2>2. \A p \in Plans : Doubt(p)' => Doubt(p) \/ raisedBy' # {}
    BY <2>1 DEF Exposed
  <2> QED
    BY <1>1, <1>2, <2>1, <2>2
<1>8. ASSUME NEW r \in Plans, Trade(r) PROVE DoubtHoldsHalt'
  <2>1. UNCHANGED <<source, raisedBy>>
    BY <1>8 DEF Trade, storeVars
  <2>2. \A p \in Plans : Exposed(p)' => Exposed(p)
    BY <1>0, <1>8 DEF Trade, Becomes, Exposed, ExposedIn
  <2> QED
    BY <1>1, <1>2, <2>1, <2>2
<1>9. ASSUME NEW p \in Plans \ Commands, NEW s \in Plans, GrantRecovery(p, s)
      PROVE  DoubtHoldsHalt'
  <2>1. PICK manual \in BOOLEAN : CreateRecoveryGrant(p, s, manual)
    BY <1>9 DEF GrantRecovery
  <2>2. PendingSources \subseteq {s} /\ Exists(s)
    BY <2>1 DEF CreateRecoveryGrant, Recoverable
  <2>3. Ended(s)
    BY <2>1, <2>2 DEF CreateRecoveryGrant, ProvedOver, Truthful, RowsTrue, ReleasesTrue
  <2>4. \A r \in Understood : ~Exposed(r)
    BY <2>2, <2>3, ExposedIsUnsettled, UnsettledIsPending
    DEF Understood, Unsettled, Truthful
  <2>5. UNCHANGED <<source, venue>>
    BY <1>9, <2>1 DEF GrantRecovery, CreateRecoveryGrant, Elsewhere
  <2>6. \A r \in Plans : ~Doubt(r)
    BY <2>4, DoubtIsUnderstood
  <2> QED
    BY <1>2, <2>5, <2>6 DEF Exposed
<1>10. ASSUME \/ \E p \in Plans : StatusStep(p)
              \/ \E p \in Manual, s \in Plans : Attest(p, s)
              \/ OtherHalt
       PROVE  DoubtHoldsHalt'
  <2>1. Clerical
    BY <1>10, ClericalSteps DEF RecoveryStep
  <2>2. raisedBy \subseteq raisedBy'
    BY <1>10 DEF StatusStep, BeginStatus, SeeOrder, SeeNothing, SeeDoubt, Saw,
       AppendVerdict, AppendReconciliation, AppendManualAction, RaiseForStatus,
       RaiseSourceHalt, RaisedFor, storeVars, Attest, PersistAttestation,
       OtherHalt, RaiseForeignHalt
  <2> QED
    BY <1>3, <2>1, <2>2 DEF Clerical
<1>11. CASE UNCHANGED vars
    BY <1>3, <1>11 DEF vars, storeVars
<1> QED
    BY <1>4, <1>5, <1>6, <1>7, <1>8, <1>9, <1>10, <1>11, StepKinds DEF RecoveryStep

\* The invariant holds from the beginning.
LEMMA TradeInvInit == Init => TradeInv
<1> SUFFICES ASSUME Init PROVE TradeInv
    OBVIOUS
<1>1. \A p \in Plans : ~Exists(p)
    BY DEF Init, StoreInit, Exists
<1>2. \A step \in {"idle", "done"} : Begun(step) \in Run /\ Begun(step).pc = step
    BY DEF Begun, Run, Attempt
<1>3. \A q \in Procs : run[q] \in Run /\ run[q].pc \in {"idle", "done"}
    BY <1>2 DEF Init
<1>4. TradeTypeOK
  <2>1. StoreTypeOK
    BY DEF Init, StoreInit, StoreTypeOK
  <2>2. status \in Look
    BY DEF Init, NotLooking, Look, Verdict
  <2>3. run \in [Procs -> Run]
    BY <1>3 DEF Init
  <2> QED
    BY <2>1, <2>2, <2>3, TradeAssumption DEF Init, TradeTypeOK, Venue
<1>5. GrantsExist /\ ReleasesTrue
    BY OperatorAssumption DEF Init, StoreInit, GrantsExist, ReleasesTrue
<1>6. Ownership
    BY <1>1, <1>3 DEF Ownership
<1>7. SentOnce /\ DoubtHoldsHalt
    BY DEF Init, SentOnce, DoubtHoldsHalt, Exposed, ExposedIn
<1>8. RowsTrue /\ AnswersTrue /\ MistakesRecorded
    BY <1>1, <1>3 DEF Init, RowsTrue, AnswersTrue, MistakesRecorded, At
<1>9. LookTrue
    BY DEF Init, NotLooking, LookTrue, Asks
<1> QED
    BY <1>4, <1>5, <1>6, <1>7, <1>8, <1>9 DEF TradeInv, Truthful

\* The invariant is inductive.
LEMMA TradeInvStep == TradeInv /\ [Next]_vars => TradeInv'
    BY TradeTypeStep, OwnershipStep, ReleasesTrueStep, AnswersTrueStep,
       LookTrueStep, RowsTrueStep, MistakesRecordedStep, DoubtHoldsHaltStep
    DEF TradeInv, Truthful

\* So it holds in every session.
LEMMA TradeInvariant == Spec => []TradeInv
    BY TradeInvInit, TradeInvStep, PTL DEF Spec

-----------------------------------------------------------------------------
\* What holds in every session.

\* Every reachable state is well-formed.
THEOREM TradesAreTyped == Spec => []TradeTypeOK
    BY TradeInvariant, PTL DEF TradeInv

\* No order is sent twice, whatever crashes, answers and second executions do.
THEOREM OrdersAreSentOnce == Spec => []NeverResent
<1>1. TradeInv => NeverResent
    BY DEF TradeInv, SentOnce, NeverResent
<1> QED
    BY <1>1, TradeInvariant, PTL

\* A source stops being pending only when its order cannot cost money any more; or
\* when its accepted order was recorded as rejected, for a misnamed acknowledgement.
THEOREM ReleasesAreTrue == Spec => []ReleasedMeansOver
<1>1. TradeInv => ReleasedMeansOver
    BY ExposedIsUnsettled, UnsettledIsPending
    DEF TradeInv, Truthful, ReleasedMeansOver, Understood
<1> QED
    BY <1>1, TradeInvariant, PTL

\* HALT is up as long as the fate of any order is unknown.
THEOREM HaltHoldsForDoubt == Spec => []DoubtHoldsHalt
    BY TradeInvariant, PTL DEF TradeInv

\* A plan that recovered a source found its order over, unless it was mistaken.
THEOREM RecoveriesFollowExposure == Spec => []RecoveryAfterExposure
<1>1. TradeInv => RecoveryAfterExposure
    BY OperatorAssumption
    DEF TradeInv, Truthful, RowsTrue, RecoveryAfterExposure, Exposed, ExposedIn,
        Ended, OverIn, Understood
<1> QED
    BY <1>1, TradeInvariant, PTL

\* A HALT that names no operator source survives every recovery.
THEOREM ForeignHaltIsNotLowered == Spec => ForeignHaltStays
<1>1. ASSUME TradeTypeOK, [Next]_vars, Foreign \in raisedBy
      PROVE  Foreign \in raisedBy'
  <2>1. ASSUME NEW q \in Procs,
               Preparing(q) \/ Intending(q) \/ Post(q) \/ Answer(q) \/ Record(q)
        PROVE  raisedBy \subseteq raisedBy'
    <3>1. CASE Record(q)
      BY <1>1, <3>1, RecordEffect
    <3>2. CASE Preparing(q) \/ Post(q) \/ Answer(q)
      BY <3>2 DEF Preparing, Post, Answer, storeVars
    <3>3. CASE Intending(q)
      BY <3>3 DEF Intending, PrepareTradeCommandCreate, PrepareCreate
    <3> QED
      BY <2>1, <3>1, <3>2, <3>3
  <2>2. ASSUME NEW p \in Plans \ Commands, NEW s \in Plans, GrantRecovery(p, s)
        PROVE  FALSE
    BY <1>1, <2>2, OperatorAssumption DEF GrantRecovery, CreateRecoveryGrant,
       Recoverable, OriginProved
  <2>3. ASSUME \/ \E p \in Plans : StatusStep(p)
               \/ \E p \in Manual, s \in Plans : Attest(p, s)
               \/ OtherHalt
        PROVE  raisedBy \subseteq raisedBy'
    BY <2>3 DEF StatusStep, BeginStatus, SeeOrder, SeeNothing, SeeDoubt, Saw,
       AppendVerdict, AppendReconciliation, AppendManualAction, RaiseForStatus,
       RaiseSourceHalt, RaisedFor, storeVars, Attest, PersistAttestation,
       OtherHalt, RaiseForeignHalt
  <2> QED
    BY <1>1, <2>1, <2>2, <2>3, StepKinds DEF RecoveryStep, Trade, storeVars, vars
<1>2. TradeTypeOK /\ [Next]_vars
        => [(Foreign \in raisedBy) => (Foreign \in raisedBy')]_vars
    BY <1>1
<1> QED
    BY <1>2, TradesAreTyped, PTL DEF Spec, ForeignHaltStays

-----------------------------------------------------------------------------
\* What holds when no typed command of another symbol runs beside an attested
\* recovery.

\* Only processes of the session act and own sources.
LEMMA ActiveStep ==
    ASSUME TradeInv, Active, [Next]_vars
    PROVE  Active'
<1>0. /\ TradeTypeOK /\ GrantsExist /\ Ownership /\ SentOnce
      /\ \A q \in Procs : PlanOf[q] \in Plans
    BY TradeAssumption DEF TradeInv
<1>1. ASSUME UNCHANGED session,
             \A r \in Procs : run'[r].pc # "done" => run[r].pc # "done",
             \A p \in Plans : Exists(p)' => Exists(p) /\ source'[p].run = source[p].run
      PROVE  Active'
    BY <1>1 DEF Active
<1>2. ASSUME NEW q \in Procs, Preparing(q) PROVE Active'
    BY <1>1, <1>2 DEF Preparing, Exists
<1>3. ASSUME NEW q \in Procs, Intending(q) PROVE Active'
  <2>1. q \in session /\ UNCHANGED session
    BY <1>3 DEF Active, Intending, At, Elsewhere
  <2>2. /\ source'[PlanOf[q]].run = q
        /\ \A p \in Plans \ {PlanOf[q]} :
              Exists(p)' => Exists(p) /\ source'[p].run = source[p].run
        /\ \A r \in Procs \ {q} : run'[r] = run[r]
    BY <1>0, <1>3, IntentEffect DEF Exists
  <2> QED
    BY <2>1, <2>2 DEF Active
<1>4. ASSUME NEW q \in Procs, Post(q) PROVE Active'
    BY <1>0, <1>1, <1>4, PostEffect DEF Post, At, Exists
<1>5. ASSUME NEW q \in Procs, Answer(q) PROVE Active'
    BY <1>0, <1>1, <1>5, AnswerEffect DEF At, Exists
<1>6. ASSUME NEW q \in Procs, Record(q) PROVE Active'
  <2>1. UNCHANGED session /\ run[q].pc # "done"
    BY <1>6 DEF Record, Elsewhere, At
  <2>2. /\ \A r \in Procs \ {q} : run'[r] = run[r]
        /\ \A p \in Plans : Exists(p)' => Exists(p) /\ source'[p].run = source[p].run
    BY <1>0, <1>6, RecordEffect DEF Exists
  <2> QED
    BY <1>1, <2>1, <2>2
<1>7. CASE Clerical
    BY <1>1, <1>7 DEF Clerical, Exists
<1>8. CASE UNCHANGED <<source, run, session>>
    BY <1>1, <1>8 DEF Exists
<1> QED
    BY <1>0, <1>2, <1>3, <1>4, <1>5, <1>6, <1>7, <1>8, StepKinds, ClericalSteps
    DEF Trade, storeVars, vars

\* A grant stays what it was minted as: an event of its source takes it away.
LEMMA GrantKindsStep ==
    ASSUME TradeInv, GrantKinds, [Next]_vars
    PROVE  GrantKinds'
<1>0. /\ TradeTypeOK /\ GrantsExist /\ Ownership /\ SentOnce
      /\ \A q \in Procs : PlanOf[q] \in Plans
      /\ \A g \in grants : g.source \in Plans
      /\ \A g \in grants' : g.source \in Plans
    BY TradeAssumption, TradeTypeStep DEF TradeInv, TradeTypeOK, StoreTypeOK, Grant
<1>1. ASSUME NEW q \in Procs, run'[q].grant # None
      PROVE  run'[q].grant.plan = PlanOf[q]
  <2>1. UNCHANGED run => run'[q].grant.plan = PlanOf[q]
    BY <1>1 DEF GrantKinds
  <2>2. ASSUME NEW r \in Procs, Preparing(r) PROVE run'[q].grant.plan = PlanOf[q]
    <3>1. CASE r # q
      BY <1>1, <2>2, <3>1 DEF Preparing, GrantKinds
    <3>2. CASE r = q
      BY <1>1, <2>2, <3>2 DEF Preparing, GrantKinds, Findable
    <3> QED
      BY <3>1, <3>2
  <2>3. ASSUME NEW r \in Procs, Intending(r) \/ Post(r) \/ Answer(r)
        PROVE  run'[q].grant = run[q].grant
    BY <1>0, <2>3, IntentEffect, PostEffect, AnswerEffect
  <2>4. ASSUME NEW r \in Procs, Record(r)
        PROVE  run'[q].grant \in {None, run[q].grant}
    BY <1>0, <2>4, RecordEffect DEF Begun
  <2> QED
    BY <1>0, <1>1, <2>1, <2>2, <2>3, <2>4, StepKinds, ClericalSteps
    DEF GrantKinds, Clerical, Trade, vars
<1>2. ASSUME NEW g \in grants'
      PROVE  /\ g.manual => g.plan \in Manual
             /\ ~g.manual => source[g.source].latest = "clean"
    BY <1>0, <1>2, ReleaseSteps DEF GrantKinds
<1>3. ASSUME NEW g \in grants' PROVE source'[g.source].latest = source[g.source].latest
  <2>0. g.source \in Plans /\ Exists(g.source)
    BY <1>0, <1>3, ReleaseSteps DEF GrantsExist
  <2>1. ASSUME NEW q \in Procs,
               Preparing(q) \/ Intending(q) \/ Post(q) \/ Answer(q) \/ Record(q)
        PROVE  source'[g.source].latest = source[g.source].latest
    <3>1. CASE Preparing(q) \/ Post(q) \/ Answer(q)
      BY <1>0, <3>1, PostEffect, AnswerEffect DEF Preparing
    <3>2. CASE Intending(q)
      BY <1>0, <2>0, <3>2, IntentEffect
    <3>3. CASE Record(q)
      BY <1>0, <2>0, <3>3, RecordEffect
    <3> QED
      BY <2>1, <3>1, <3>2, <3>3
  <2>2. Outdate(g.source) => FALSE
    BY <1>3 DEF Outdate
  <2> QED
    BY <1>0, <2>0, <2>1, <2>2, StepKinds, LatestSteps DEF Trade, storeVars, vars
<1> QED
    BY <1>1, <1>2, <1>3 DEF GrantKinds

\* Away from intents no order becomes unsettled or doubtful.
LEMMA UnsettledStep ==
    ASSUME TradeInv, [Next]_vars, NEW p \in Plans,
           \A q \in Procs : Intending(q) => p # PlanOf[q]
    PROVE  /\ Unsettled(p)' => Unsettled(p)
           /\ Doubtful(p)' => Doubtful(p)
<1>0. /\ TradeTypeOK /\ GrantsExist /\ Ownership /\ SentOnce
      /\ \A q \in Procs : PlanOf[q] \in Plans
    BY TradeAssumption DEF TradeInv
<1>1. ASSUME Exists(p)' => /\ Exists(p)
                           /\ source'[p].attempt \in {"none", "ambiguous"} =>
                                 source[p].attempt \in {"none", "ambiguous"}
      PROVE  /\ Unsettled(p)' => Unsettled(p)
             /\ Doubtful(p)' => Doubtful(p)
    BY <1>0, <1>1, EndedStays DEF Unsettled, Doubtful
<1>2. CASE source'[p] = source[p]
    BY <1>1, <1>2 DEF Exists
<1>3. ASSUME NEW q \in Procs, Intending(q)
      PROVE  Exists(p)' => Exists(p) /\ source'[p].attempt = source[p].attempt
    BY <1>0, <1>3, IntentEffect DEF Exists
<1>4. ASSUME NEW q \in Procs, Record(q)
      PROVE  Exists(p)' => /\ Exists(p)
                           /\ \/ source'[p].attempt = source[p].attempt
                              \/ source[p].attempt = "none"
    BY <1>0, <1>4, RecordEffect DEF Exists
<1>5. CASE Clerical
    BY <1>1, <1>5 DEF Clerical, Exists
<1>6. ASSUME NEW q \in Procs, Preparing(q) \/ Post(q) \/ Answer(q)
      PROVE  UNCHANGED source
    BY <1>0, <1>6, PostEffect, AnswerEffect DEF Preparing
<1> QED
    BY <1>0, <1>1, <1>2, <1>3, <1>4, <1>5, <1>6, StepKinds, ClericalSteps
    DEF Trade, storeVars, vars

\* When an approved plan gets its intent no order is unsettled.
LEMMA ApprovalAlone ==
    ASSUME Unmixed, TradeInv, UnmixedInv, NEW q \in Procs, Intending(q), ~Typed(q)
    PROVE  \A p \in Plans : ~Unsettled(p)
<1> DEFINE grant == run[q].grant
<1>1. q \in session /\ session \in Sessions
    BY DEF UnmixedInv, Active, Intending, At, TradeInv, TradeTypeOK
<1>2. /\ grant # None => grant \in grants
      /\ PendingSources # {} =>
            grant # None /\ \E first \in PendingSources : first = grant.source
    BY DEF Intending, PrepareCreate, ApprovalAdmitted
<1>3. CASE PendingSources = {}
    BY <1>3, UnsettledIsPending DEF TradeInv, Truthful
<1>4. CASE PendingSources # {}
  <2>1. /\ grant \in grants /\ grant.source \in PendingSources
        /\ grant.plan = PlanOf[q]
    BY <1>2, <1>4 DEF UnmixedInv, GrantKinds
  <2>2. CASE \A r \in session \cap Procs : PlanOf[r] \notin Manual
    <3>1. ~grant.manual
      BY <1>1, <2>1, <2>2 DEF UnmixedInv, GrantKinds
    <3>2. source[grant.source].latest = "clean"
      BY <2>1, <3>1 DEF UnmixedInv, GrantKinds
    <3> QED
      BY <2>1, <3>2 DEF PendingSources
  <2>3. CASE NoneSlipsIn(session)
    BY <2>1, <2>3 DEF UnmixedInv, GrantsApart
  <2> QED
    BY <1>1, <2>2, <2>3 DEF Unmixed
<1> QED
    BY <1>3, <1>4

\* When a command gets its intent, the unsettled orders are of other symbols,
\* accepted, and known to it.
LEMMA CommandBeside ==
    ASSUME TradeInv, NEW q \in Procs, Intending(q), Typed(q),
           NEW p \in Plans, Unsettled(p)
    PROVE  /\ SymbolOf[p] # SymbolOf[PlanOf[q]]
           /\ ~Doubtful(p)
           /\ p \in run[q].known
<1>1. p \in PendingSources
    BY UnsettledIsPending DEF TradeInv, Truthful
<1>2. ~BlocksCommand(p, PlanOf[q], run[q].known)
    BY <1>1 DEF Intending, PrepareTradeCommandCreate, CommandAdmitted
<1>3. source[p].attempt \in Attempt
    BY RowTypes DEF TradeInv, Unsettled, Source
<1>4. source[p].attempt # "rejected"
    BY DEF TradeInv, Truthful, RowsTrue, Unsettled
<1> QED
    BY <1>2, <1>3, <1>4 DEF BlocksCommand, Attempt, Doubtful

\* Whether typed or approved, an intent comes after every doubt is gone.
LEMMA IntentBeside ==
    ASSUME Unmixed, TradeInv, UnmixedInv, NEW q \in Procs, Intending(q),
           NEW p \in Plans, Unsettled(p)
    PROVE  /\ SymbolOf[p] # SymbolOf[PlanOf[q]]
           /\ ~Doubtful(p)
           /\ Typed(q) /\ p \in run[q].known
    BY ApprovalAlone, CommandBeside

\* A new intent stays clear of the unsettled orders.
LEMMA SeparateStep ==
    ASSUME Unmixed, TradeInv, UnmixedInv, [Next]_vars
    PROVE  Separate'
<1>0. \A q \in Procs : PlanOf[q] \in Plans
    BY TradeAssumption
<1> SUFFICES ASSUME NEW p \in Plans, NEW r \in Plans, p # r,
                    Unsettled(p)', Unsettled(r)'
             PROVE  SymbolOf[p] # SymbolOf[r] /\ ~(Doubtful(p)' /\ Doubtful(r)')
    BY DEF Separate
<1>1. CASE \E q \in Procs : Intending(q) /\ PlanOf[q] \in {p, r}
  <2>1. PICK q \in Procs : Intending(q) /\ PlanOf[q] \in {p, r}
    BY <1>1
  <2>2. \A s \in Procs : Intending(s) => s = q
    BY <2>1, IntentEffect DEF TradeInv, Intending, At
  <2>3. \A s \in Plans \ {PlanOf[q]} : /\ Unsettled(s)' => Unsettled(s)
                                       /\ Doubtful(s)' => Doubtful(s)
    BY <2>2, UnsettledStep
  <2> QED
    BY <2>1, <2>3, IntentBeside
<1>2. CASE \A q \in Procs : Intending(q) => PlanOf[q] \notin {p, r}
  <2>1. /\ Unsettled(p) /\ Unsettled(r)
        /\ Doubtful(p)' => Doubtful(p)
        /\ Doubtful(r)' => Doubtful(r)
    BY <1>2, UnsettledStep
  <2> QED
    BY <2>1 DEF UnmixedInv, Separate
<1> QED
    BY <1>1, <1>2

\* Nobody gets an intent beside an order that is being sent.
LEMMA KnownStep ==
    ASSUME Unmixed, TradeInv, UnmixedInv, [Next]_vars
    PROVE  Known'
<1>0. /\ \A q \in Procs : PlanOf[q] \in Plans
      /\ TradeTypeOK /\ GrantsExist /\ Ownership /\ SentOnce
    BY TradeAssumption DEF TradeInv
<1> SUFFICES ASSUME NEW r \in Procs, run'[r].pc \in {"post", "answer"},
                    Unsettled(PlanOf[r])',
                    NEW p \in Plans \ {PlanOf[r]}, Unsettled(p)'
             PROVE  Typed(r) /\ p \in run'[r].known
    BY DEF Known, Typed
<1>1. ASSUME NEW q \in Procs, Intending(q) PROVE Typed(r) /\ p \in run'[r].known
  <2>0. /\ run'[q].known = run[q].known
        /\ \A s \in Procs \ {q} : run'[s] = run[s]
        /\ ~Exists(PlanOf[q])
    BY <1>0, <1>1, IntentEffect
  <2>1. \A s \in Procs : Intending(s) => s = q
    BY <1>0, <1>1, IntentEffect DEF Intending, At
  <2>2. \A s \in Plans \ {PlanOf[q]} : Unsettled(s)' => Unsettled(s)
    BY <2>1, UnsettledStep
  <2>3. CASE r = q
    <3>1. Unsettled(p)
      BY <2>2, <2>3
    <3> QED
      BY <1>1, <2>0, <2>3, <3>1, IntentBeside
  <2>4. CASE r # q
    <3>1. run[r].pc \in {"post", "answer"}
      BY <2>0, <2>4
    <3>2. /\ Exists(PlanOf[r]) /\ PlanOf[r] # PlanOf[q]
          /\ source[PlanOf[r]].attempt = "none"
      BY <1>0, <2>0, <3>1 DEF Ownership
    <3>3. Doubtful(PlanOf[r])
      BY <1>0, <2>2, <3>2 DEF Doubtful
    <3> QED
      BY <1>0, <1>1, <3>3, IntentBeside DEF Doubtful
  <2> QED
    BY <2>3, <2>4
<1>2. ASSUME \A q \in Procs : ~Intending(q)
      PROVE  Typed(r) /\ p \in run'[r].known
  <2>1. Unsettled(p) /\ Unsettled(PlanOf[r])
    BY <1>0, <1>2, UnsettledStep
  <2>2. ASSUME run[r].pc \in {"post", "answer"}
        PROVE  Typed(r) /\ p \in run[r].known
    BY <2>1, <2>2 DEF UnmixedInv, Known
  <2>3. UNCHANGED run => Typed(r) /\ p \in run'[r].known
    BY <2>2
  <2>4. ASSUME NEW q \in Procs, Preparing(q) PROVE Typed(r) /\ p \in run'[r].known
    <3>1. /\ r # q /\ run[r].pc = run'[r].pc
          /\ \A s \in run[r].known : Exists(s) => s \in run'[r].known
      BY <2>4 DEF Preparing
    <3> QED
      BY <2>1, <2>2, <3>1 DEF Unsettled
  <2>5. ASSUME NEW q \in Procs, Post(q) PROVE Typed(r) /\ p \in run'[r].known
    <3>1. /\ run'[q].known = run[q].known /\ run[q].pc = "post"
          /\ \A s \in Procs \ {q} : run'[s] = run[s]
      BY <1>0, <2>5, PostEffect DEF Post, At
    <3> QED
      BY <2>2, <3>1
  <2>6. ASSUME NEW q \in Procs, Answer(q) \/ Record(q)
        PROVE  Typed(r) /\ p \in run'[r].known
    <3>1. /\ run'[q].pc \in {"record", "done"}
          /\ \A s \in Procs \ {q} : run'[s] = run[s]
      BY <1>0, <2>6, AnswerEffect, RecordEffect DEF Begun
    <3> QED
      BY <2>2, <3>1
  <2> QED
    BY <1>0, <1>2, <2>3, <2>4, <2>5, <2>6, StepKinds, ClericalSteps
    DEF Clerical, Trade, vars
<1> QED
    BY <1>1, <1>2

\* Where none slips in, a grant for a pending source stays the only one.
LEMMA GrantsApartStep ==
    ASSUME Unmixed, TradeInv, UnmixedInv, [Next]_vars
    PROVE  GrantsApart'
<1>0. /\ TradeTypeOK /\ GrantsExist /\ Ownership /\ SentOnce
      /\ \A q \in Procs : PlanOf[q] \in Plans
      /\ \A g \in grants : g.source \in Plans
    BY TradeAssumption DEF TradeInv, TradeTypeOK, StoreTypeOK, Grant
<1>1. UNCHANGED session
    BY <1>0, StepKinds, ClericalSteps, PostEffect, AnswerEffect
    DEF Preparing, Intending, Record, Elsewhere, Trade, Clerical, vars
<1> SUFFICES ASSUME NoneSlipsIn(session),
                    NEW g \in grants', g.source \in PendingSources'
             PROVE  /\ \A h \in grants' : h.source \in PendingSources' => h = g
                    /\ \A p \in Plans : ~Unsettled(p)'
    BY <1>1 DEF GrantsApart, NoneSlipsIn, Typed
<1>2. ASSUME g \in grants, g.source \in PendingSources,
             \A h \in grants' : h.source \in PendingSources' =>
                 h \in grants /\ h.source \in PendingSources,
             \A p \in Plans : Unsettled(p)' => Unsettled(p)
      PROVE  /\ \A h \in grants' : h.source \in PendingSources' => h = g
             /\ \A p \in Plans : ~Unsettled(p)'
    BY <1>2 DEF UnmixedInv, GrantsApart
<1>3. ASSUME NEW q \in Procs, Intending(q) PROVE FALSE
  <2>1. q \in session
    BY <1>3 DEF UnmixedInv, Active, Intending, At
  <2>2. /\ grants' \subseteq grants
        /\ PlanOf[q] \notin {h.source : h \in grants}
    BY <1>0, <1>3, IntentEffect DEF GrantsExist
  <2>3. g \in grants /\ g.source \in Plans \ {PlanOf[q]}
    BY <1>0, <2>2
  <2>4. g.source \in PendingSources
    <3>1. /\ Exists(g.source)
          /\ source'[g.source].latest = source[g.source].latest
          /\ source[g.source].disposed => source'[g.source].disposed
      BY <1>0, <1>3, <2>3, IntentEffect DEF GrantsExist
    <3> QED
      BY <2>3, <3>1 DEF PendingSources
  <2>5. CASE Typed(q)
    <3> DEFINE owner == source[g.source].run
    <3>1. owner \in session /\ owner \in Procs /\ PlanOf[owner] = g.source
      <4>1. Exists(g.source) /\ source[g.source] \in Source
        BY <1>0, <2>3, RowTypes DEF GrantsExist
      <4> QED
        BY <1>0, <2>3, <4>1, TradeAssumption
        DEF Source, Ownership, UnmixedInv, Active
    <3>2. SymbolOf[g.source] = SymbolOf[PlanOf[q]]
      BY <2>1, <2>5, <3>1 DEF NoneSlipsIn
    <3> QED
      BY <1>3, <2>4, <2>5, <3>2
      DEF Intending, PrepareTradeCommandCreate, CommandAdmitted, BlocksCommand
  <2>6. CASE ~Typed(q)
    <3>1. /\ run[q].grant # None /\ run[q].grant \in grants
          /\ run[q].grant.source \in PendingSources
          /\ grants' = grants \ {run[q].grant}
      BY <1>3, <2>4, <2>6 DEF Intending, PrepareCreate, ApprovalAdmitted, ConsumeGrant
    <3>2. run[q].grant = g
      BY <2>3, <2>4, <3>1 DEF UnmixedInv, GrantsApart
    <3> QED
      BY <3>1, <3>2
  <2> QED
    BY <2>5, <2>6
<1>4. ASSUME \A q \in Procs : ~Intending(q)
      PROVE  \A p \in Plans : Unsettled(p)' => Unsettled(p)
    BY <1>4, UnsettledStep
<1>5. CASE UNCHANGED <<source, grants>>
    BY <1>2, <1>3, <1>4, <1>5 DEF PendingSources, Exists
<1>6. ASSUME NEW q \in Procs, Record(q)
      PROVE  /\ grants' \subseteq grants
             /\ \A p \in Plans : p \in PendingSources' => p \in PendingSources
  <2>1. \A p \in Plans : Exists(p)' => /\ Exists(p)
                                       /\ source'[p].latest = source[p].latest
                                       /\ source'[p].disposed = source[p].disposed
    BY <1>0, <1>6, RecordEffect DEF Exists
  <2> QED
    BY <1>0, <1>6, <2>1, RecordEffect DEF PendingSources
<1>7. ASSUME NEW p \in Plans \ Commands, NEW s \in Plans, GrantRecovery(p, s)
      PROVE  /\ \A h \in grants' : h.source \in PendingSources' => h = g
             /\ \A r \in Plans : ~Unsettled(r)'
  <2>1. PICK manual \in BOOLEAN : CreateRecoveryGrant(p, s, manual)
    BY <1>7 DEF GrantRecovery
  <2>2. /\ PendingSources \subseteq {s} /\ Exists(s)
        /\ UNCHANGED <<source, venue, mistaken>>
        /\ grants' = {h \in grants : h.source # s}
                        \cup {[plan |-> p, source |-> s, manual |-> manual]}
    BY <1>7, <2>1 DEF CreateRecoveryGrant, Recoverable, GrantRecovery, Elsewhere
  <2>3. Ended(s)
    BY <2>1, <2>2 DEF CreateRecoveryGrant, ProvedOver, TradeInv, Truthful, RowsTrue,
                      ReleasesTrue
  <2>4. PendingSources' = PendingSources
    BY <2>2 DEF PendingSources, Exists
  <2>5. \A h \in grants' : h.source \in PendingSources' =>
            h = [plan |-> p, source |-> s, manual |-> manual]
    BY <2>2, <2>4
  <2>6. \A r \in Plans : ~Unsettled(r)
    BY <2>2, <2>3, UnsettledIsPending DEF TradeInv, Truthful, Unsettled
  <2> QED
    BY <2>2, <2>5, <2>6 DEF Unsettled, Ended, Exists
<1>8. ASSUME \/ \E p \in Plans : StatusStep(p)
             \/ \E p \in Manual, s \in Plans : Attest(p, s)
             \/ OtherHalt
      PROVE  /\ grants' \subseteq grants
             /\ \A h \in grants' : h.source \in PendingSources'
                    => h.source \in PendingSources
  <2>1. grants' \subseteq grants
    BY <1>8 DEF StatusStep, BeginStatus, SeeOrder, SeeNothing, SeeDoubt, Saw,
       AppendVerdict, AppendReconciliation, AppendManualAction, RaiseForStatus,
       RaiseSourceHalt, RaisedFor, Outdate, storeVars, Attest, PersistAttestation,
       OtherHalt, RaiseForeignHalt
  <2>2. ASSUME NEW h \in grants', h.source \in PendingSources'
        PROVE  h.source \in PendingSources
    <3>1. h.source \in Plans /\ Exists(h.source)
      BY <1>0, <2>1, <2>2 DEF GrantsExist
    <3>2. source'[h.source].disposed = source[h.source].disposed
      BY <1>0, <1>8, <3>1, ClericalSteps DEF Clerical, RecoveryStep
    <3>3. ~Outdate(h.source)
      BY <2>2 DEF Outdate
    <3>4. source'[h.source].latest = source[h.source].latest
      BY <1>0, <1>8, <3>1, <3>3, LatestSteps DEF RecoveryStep
    <3> QED
      BY <2>2, <3>1, <3>2, <3>4 DEF PendingSources
  <2> QED
    BY <2>1, <2>2
<1>9. ASSUME grants' \subseteq grants,
             \A h \in grants' : h.source \in PendingSources'
                 => h.source \in PendingSources
      PROVE  /\ \A h \in grants' : h.source \in PendingSources' => h = g
             /\ \A p \in Plans : ~Unsettled(p)'
    BY <1>2, <1>3, <1>4, <1>9
<1>10. ASSUME NEW q \in Procs, Preparing(q) \/ Post(q) \/ Answer(q)
       PROVE  UNCHANGED <<source, grants>>
    BY <1>0, <1>10, PostEffect, AnswerEffect DEF Preparing
<1>11. ASSUME NEW q \in Procs, Record(q)
       PROVE  \A h \in grants' : h.source \in PendingSources'
                 => h.source \in PendingSources
    BY <1>0, <1>6, <1>11
<1>12. \/ UNCHANGED <<source, grants>>
       \/ \E q \in Procs : Intending(q) \/ Record(q)
       \/ \E p \in Plans \ Commands, s \in Plans : GrantRecovery(p, s)
       \/ \E p \in Plans : StatusStep(p)
       \/ \E p \in Manual, s \in Plans : Attest(p, s)
       \/ OtherHalt
    BY <1>0, <1>10, StepKinds DEF Trade, storeVars, vars, RecoveryStep
<1> QED
    BY <1>3, <1>5, <1>6, <1>7, <1>8, <1>9, <1>11, <1>12

\* The layer about several orders holds in every unmixed session.
LEMMA UnmixedInvariant ==
    ASSUME Unmixed PROVE Spec => []UnmixedInv
<1>1. Init => UnmixedInv
  <2> SUFFICES ASSUME Init PROVE UnmixedInv
    OBVIOUS
  <2>1. \A p \in Plans : ~Exists(p)
    BY DEF Init, StoreInit, Exists
  <2>2. \A q \in Procs : /\ run[q] = Begun(IF q \in session THEN "idle" ELSE "done")
                         /\ run[q].grant = None
                         /\ run[q].pc = IF q \in session THEN "idle" ELSE "done"
    BY DEF Init, Begun
  <2>3. Active /\ Known
    BY <2>1, <2>2 DEF Active, Known
  <2>4. GrantKinds /\ GrantsApart
    BY <2>2 DEF GrantKinds, GrantsApart, Init, StoreInit
  <2>5. Separate
    BY <2>1 DEF Separate, Unsettled
  <2> QED
    BY <2>3, <2>4, <2>5 DEF UnmixedInv
<1>2. TradeInv /\ UnmixedInv /\ [Next]_vars => UnmixedInv'
    BY ActiveStep, GrantKindsStep, GrantsApartStep, SeparateStep, KnownStep
    DEF UnmixedInv
<1> QED
    BY <1>1, <1>2, TradeInvariant, PTL DEF Spec

\* A symbol never holds two orders or positions of the operator that were
\* understood.
THEOREM OneOrderPerSymbol ==
    ASSUME Unmixed PROVE Spec => []OneExposurePerSymbol
<1>1. TradeInv /\ UnmixedInv => OneExposurePerSymbol
    BY ExposedIsUnsettled
    DEF TradeInv, UnmixedInv, Separate, OneExposurePerSymbol, Understood
<1> QED
    BY <1>1, TradeInvariant, UnmixedInvariant, PTL

\* At most one order's fate is unknown to the journal.
THEOREM OneDoubtAtATime ==
    ASSUME Unmixed PROVE Spec => []OneUnknownOutcome
<1>1. ASSUME TradeInv, NEW p \in Plans, UnknownOutcome(p) PROVE Doubtful(p)
    BY <1>1, ExposedIsUnsettled, DoubtIsUnderstood
    DEF TradeInv, UnknownOutcome, Doubtful
<1>2. TradeInv /\ UnmixedInv => OneUnknownOutcome
    BY <1>1 DEF UnmixedInv, Separate, OneUnknownOutcome, Doubtful
<1> QED
    BY <1>2, TradeInvariant, UnmixedInvariant, PTL

\* A command's order leaves with evidence younger than every understood order that
\* may cost money.
THEOREM EvidenceFollows ==
    ASSUME Unmixed PROVE Spec => []EvidenceInOrder
<1>1. TradeInv /\ UnmixedInv => EvidenceInOrder
    BY ExposedIsUnsettled, AwaitedIsUnsettled, TradeAssumption
    DEF TradeInv, UnmixedInv, Known, EvidenceInOrder, At, Understood
<1> QED
    BY <1>1, TradeInvariant, UnmixedInvariant, PTL

\* An approved plan's order leaves alone but for mistaken ones: what the run
\* operator_recovery_race refutes needs a typed command of another symbol beside an
\* attested recovery.
THEOREM ApprovalsStandAlone ==
    ASSUME Unmixed PROVE Spec => []ApprovalStandsAlone
<1>1. TradeInv /\ UnmixedInv => ApprovalStandsAlone
    BY ExposedIsUnsettled, AwaitedIsUnsettled, TradeAssumption
    DEF TradeInv, UnmixedInv, Known, ApprovalStandsAlone, At, Understood
<1> QED
    BY <1>1, TradeInvariant, UnmixedInvariant, PTL
=============================================================================
