------------------------- MODULE PreparedGridProofs -------------------------
(***************************************************************************)
(* What the Mainnet boundary promises for every number of processes, runs  *)
(* and legs, and for every way to share run ids among the processes.       *)
(*                                                                         *)
(* The argument: the transaction that commits the intent of a leg finds no *)
(* source and leaves one, so at most one process ever stands between that  *)
(* commit and the call; and whoever finds the source reconciles it.        *)
(***************************************************************************)
EXTENDS PreparedGrid, ExecutionJournalProofs

-----------------------------------------------------------------------------
\* Type correctness

\* The steps at which a process has a leg at hand, and those between the commit
\* of an intent and its call.
AtWork == Step \ {"idle", "gone", "scan", "release"}
Committed == {"revalidate", "dispatch", "reassure", "send"}

Placed(memory) == memory.step \in AtWork => memory.at \in Legs

GridInv == GridTypeOK /\ \A p \in Procs : Placed(proc[p])

\* The process moves to a step that is not between a commit and its call.
Rests(p) ==
    \E memory \in Proc :
        /\ proc' = [proc EXCEPT ![p] = memory]
        /\ Placed(memory)
        /\ memory.step \notin Committed

\* What a process keeps at rest is well typed and places it nowhere.
LEMMA RestingType ==
    ASSUME NEW step \in Step
    PROVE  /\ Resting(step) \in Proc
           /\ Resting(step).step = step
<1>1. Nothing \in [Legs -> Order] /\ NoOrder \in Order
    BY LegAssumption DEF Nothing, NoOrder, Order
<1> QED
    BY <1>1 DEF Resting, Proc

\* Forgetting what was read changes neither where a process is nor its leg.
LEMMA ForgetfulType ==
    ASSUME NEW memory \in Proc
    PROVE  /\ Forgetful(memory) \in Proc
           /\ Forgetful(memory).at = memory.at
           /\ Forgetful(memory).todo = memory.todo
<1>1. Nothing \in [Legs -> Order] /\ NoOrder \in Order
    BY LegAssumption DEF Nothing, NoOrder, Order
<1> QED
    BY <1>1 DEF Forgetful, Proc

\* Deciding on a result keeps the leg.
LEMMA DecidedType ==
    ASSUME NEW memory \in Proc, NEW status \in LegStatus
    PROVE  /\ Decided(memory, status) \in Proc
           /\ Decided(memory, status).at = memory.at
<1>1. NoOrder \in Order
    BY LegAssumption DEF NoOrder, Order
<1>2. /\ Forgetful(memory) \in Proc
      /\ Forgetful(memory).at = memory.at
    BY ForgetfulType
<1>3. memory.fresh \in BOOLEAN /\ memory.proof \in Order
    BY DEF Proc
<1>4. (IF status = "PROTECTED" THEN memory.proof ELSE NoOrder) \in Order
    BY <1>1, <1>3
<1> QED
    BY <1>2, <1>3, <1>4 DEF Decided, Proc

\* Going on to a step outside the committed ones rests the process.
LEMMA GoRests ==
    ASSUME NEW p \in Procs, NEW memory \in Proc, NEW step \in Step \ Committed,
           step \in AtWork => memory.at \in Legs,
           Go(p, memory, step)
    PROVE  Rests(p)
<1>1. CASE step = "idle"
  <2>1. proc' = [proc EXCEPT ![p] = Resting("idle")]
      BY <1>1 DEF Go
  <2>2. Resting("idle") \in Proc /\ Resting("idle").step = "idle"
      BY RestingType DEF Step
  <2> QED
      BY <2>1, <2>2 DEF Rests, Placed, AtWork, Committed
<1>2. CASE step # "idle"
  <2> DEFINE next == [memory EXCEPT !.step = step]
  <2>1. proc' = [proc EXCEPT ![p] = next]
      BY <1>2 DEF Go
  <2>2. next \in Proc /\ next.step = step /\ next.at = memory.at
      BY DEF Proc
  <2> HIDE DEF next
  <2> QED
      BY <2>1, <2>2 DEF Rests, Placed
<1> QED
    BY <1>1, <1>2

\* The next leg of a sweep is one of those it still has to visit.
LEMMA NextOfSweepRests ==
    ASSUME NEW p \in Procs, proc \in [Procs -> Proc], NEW doubt \in BOOLEAN,
           NextOfSweep(p, doubt)
    PROVE  Rests(p)
<1> DEFINE memory == [Forgetful(proc[p]) EXCEPT !.doubt = doubt]
           todo == proc[p].todo
<1>1. /\ Forgetful(proc[p]) \in Proc
      /\ proc[p] \in Proc
      /\ todo \subseteq Legs
    BY ForgetfulType DEF Proc
<1>2. memory \in Proc
    BY <1>1 DEF Proc
<1>3. {"lease", "release", "idle"} \subseteq Step \ Committed
    BY DEF Step, Committed
<1>4. "release" \notin AtWork /\ "idle" \notin AtWork
    BY DEF AtWork
<1>5. ASSUME NEW l \in todo,
             Go(p, [memory EXCEPT !.at = l, !.todo = todo \ {l}], "lease")
      PROVE  Rests(p)
  <2> DEFINE next == [memory EXCEPT !.at = l, !.todo = todo \ {l}]
  <2>1. next \in Proc /\ next.at \in Legs
      BY <1>1, <1>2 DEF Proc
  <2>2. Go(p, next, "lease")
      BY <1>5
  <2> HIDE DEF next
  <2> QED
      BY <1>3, <2>1, <2>2, GoRests
<1>6. ASSUME Goto(p, "idle") PROVE Rests(p)
    BY <1>1, <1>3, <1>4, <1>6, GoRests DEF Goto
<1>7. ASSUME Go(p, memory, "release") PROVE Rests(p)
    BY <1>2, <1>3, <1>4, <1>7, GoRests
<1> QED
    BY <1>5, <1>6, <1>7 DEF NextOfSweep

\* An operation that fails leaves its leg, or goes to the next of the sweep.
LEMMA FailRests ==
    ASSUME NEW p \in Procs, proc \in [Procs -> Proc], Fail(p)
    PROVE  Rests(p)
<1>1. proc[p] \in Proc /\ Forgetful(proc[p]) \in Proc
    BY ForgetfulType
<1>2. {"release", "idle"} \subseteq Step \ Committed
    BY DEF Step, Committed
<1>3. "release" \notin AtWork /\ "idle" \notin AtWork
    BY DEF AtWork
<1>4. ASSUME Goto(p, "idle") PROVE Rests(p)
    BY <1>1, <1>2, <1>3, <1>4, GoRests DEF Goto
<1>5. ASSUME Go(p, Forgetful(proc[p]), "release") PROVE Rests(p)
    BY <1>1, <1>2, <1>3, <1>5, GoRests
<1>6. ASSUME NextOfSweep(p, TRUE) PROVE Rests(p)
    BY <1>6, NextOfSweepRests
<1> QED
    BY <1>4, <1>5, <1>6 DEF Fail

\* So does a reconciliation without a result, unless it puts fills in doubt.
LEMMA FailReconcilingRests ==
    ASSUME NEW p \in Procs, proc \in [Procs -> Proc], Leg(p) \in Legs,
           FailReconciling(p)
    PROVE  Rests(p)
<1>1. proc[p] \in Proc
    OBVIOUS
<1>2. {"degrade", "idle"} \subseteq Step \ Committed
    BY DEF Step, Committed
<1>3. "idle" \notin AtWork
    BY DEF AtWork
<1>4. ASSUME Goto(p, "idle") PROVE Rests(p)
    BY <1>1, <1>2, <1>3, <1>4, GoRests DEF Goto
<1>5. ASSUME Goto(p, "degrade") PROVE Rests(p)
    BY <1>1, <1>2, <1>5, GoRests DEF Goto, Leg
<1> QED
    BY <1>4, <1>5, FailRests DEF FailReconciling

\* After a recorded result a grid goes on to the next leg there is.
LEMMA ContinueRests ==
    ASSUME NEW p \in Procs, proc \in [Procs -> Proc], Leg(p) \in Legs,
           NEW status, Continue(p, status)
    PROVE  Rests(p)
<1>1. proc[p] \in Proc /\ Forgetful(proc[p]) \in Proc
    BY ForgetfulType
<1>2. {"lease", "release", "idle", "withdraw"} \subseteq Step \ Committed
    BY DEF Step, Committed
<1>3. "release" \notin AtWork /\ "idle" \notin AtWork
    BY DEF AtWork
<1>4. ASSUME Goto(p, "idle") PROVE Rests(p)
    BY <1>1, <1>2, <1>3, <1>4, GoRests DEF Goto
<1>5. ASSUME Go(p, Forgetful(proc[p]), "release") PROVE Rests(p)
    BY <1>1, <1>2, <1>3, <1>5, GoRests
<1>6. ASSUME Leg(p) < NLegs,
             Go(p, [Forgetful(proc[p]) EXCEPT !.at = Leg(p) + 1], "lease")
      PROVE  Rests(p)
  <2> DEFINE next == [Forgetful(proc[p]) EXCEPT !.at = Leg(p) + 1]
  <2>1. Leg(p) + 1 \in Legs
      BY <1>6, LegAssumption DEF Legs
  <2>2. next \in Proc /\ next.at \in Legs
      BY <1>1, <2>1 DEF Proc
  <2>3. Go(p, next, "lease")
      BY <1>6
  <2> HIDE DEF next
  <2> QED
      BY <1>2, <2>2, <2>3, GoRests
<1>7. ASSUME NextOfSweep(p, InDoubt(p, status)) PROVE Rests(p)
  <2>1. InDoubt(p, status) \in BOOLEAN
      BY <1>1 DEF InDoubt, Proc
  <2> QED
      BY <1>7, <2>1, NextOfSweepRests
<1>8. ASSUME FailReconciling(p) PROVE Rests(p)
    BY <1>8, FailReconcilingRests
<1>9. ASSUME Go(p, [Forgetful(proc[p]) EXCEPT !.proof = proc[p].proof], "withdraw")
      PROVE  Rests(p)
  <2> DEFINE next == [Forgetful(proc[p]) EXCEPT !.proof = proc[p].proof]
  <2>1. next \in Proc /\ next.at \in Legs
      BY <1>1, ForgetfulType DEF Proc, Leg
  <2>2. Go(p, next, "withdraw")
      BY <1>9
  <2> HIDE DEF next
  <2> QED
      BY <1>2, <2>1, <2>2, GoRests
<1> QED
    BY <1>4, <1>5, <1>6, <1>7, <1>8, <1>9 DEF Continue

-----------------------------------------------------------------------------
\* Steps that neither commit an intent nor call the exchange

Uncommitted == UNCHANGED <<order, posted, revoked, createIntent, cancelIntent>>

Quiet(p) == Rests(p) /\ LegTypeOK' /\ Uncommitted

\* The store's rows keep their types where only the lease and HALT move.
LEMMA LegVarsKeepType ==
    ASSUME LegTypeOK, TypeOK', UNCHANGED legVars
    PROVE  LegTypeOK'
    BY DEF LegTypeOK, legVars

\* Nothing of the store moves.
LEMMA JournalsKeepType ==
    ASSUME LegTypeOK, UNCHANGED Journals
    PROVE  LegTypeOK'
<1>1. UNCHANGED journalVars /\ UNCHANGED legVars
    BY DEF Journals
<1>2. TypeOK'
    BY <1>1 DEF LegTypeOK, TypeOK, journalVars
<1> QED
    BY <1>1, <1>2, LegVarsKeepType

\* Only HALT moves, and only upwards.
LEMMA HaltKeepsType ==
    ASSUME TypeOK, HaltUp \/ UNCHANGED halt, UNCHANGED JournalButHalt
    PROVE  TypeOK'
<1>1. ASSUME RaiseHaltRow
      PROVE  halt' \in [active : BOOLEAN, revision : Nat]
    BY <1>1 DEF RaiseHaltRow, TypeOK
<1>2. UNCHANGED halt \/ RaiseHaltRow
    BY DEF HaltUp
<1>3. halt' \in [active : BOOLEAN, revision : Nat]
    BY <1>1, <1>2 DEF TypeOK
<1> QED
    BY <1>3 DEF JournalButHalt, TypeOK

\* A run that may have lost its lease can do no more than raise HALT.
LEMMA TryHaltKeepsType ==
    ASSUME TypeOK, NEW g, TryHalt(g)
    PROVE  TypeOK'
<1>1. HaltUp \/ UNCHANGED halt
    BY DEF TryHalt
<1>2. UNCHANGED JournalButHalt
    BY DEF TryHalt
<1> QED
    BY <1>1, <1>2, HaltKeepsType

\* An operation that gets its lease goes on where it wanted to.
LEMMA HoldLeaseRests ==
    ASSUME TypeOK, NEW p \in Procs, NEW memory \in Proc,
           NEW step \in Step \ Committed,
           step \in AtWork => memory.at \in Legs,
           HoldLease(p, memory, step)
    PROVE  Rests(p) /\ TypeOK'
<1>1. RunOf[p] \in Runs
    BY ProcessAssumption
<1>2. Len(grants) \in Nat
    BY DEF TypeOK
<1>3. ASSUME NEW n \in Nat, Go(p, [memory EXCEPT !.grant = n], step)
      PROVE  Rests(p)
  <2> DEFINE next == [memory EXCEPT !.grant = n]
  <2>1. next \in Proc /\ next.at = memory.at
      BY DEF Proc
  <2>2. Go(p, next, step)
      BY <1>3
  <2> HIDE DEF next
  <2> QED
      BY <2>1, <2>2, GoRests
<1>4. \/ UNCHANGED journalVars
      \/ AcquireFreeLease(RunOf[p])
      \/ TakeOverLease(RunOf[p])
    BY DEF HoldLease
<1>5. [JournalNext]_journalVars
    BY <1>1, <1>4 DEF JournalNext, LeaseStep
<1>6. TypeOK'
    BY <1>5, TypeStep
<1>7. Rests(p)
    BY <1>2, <1>3 DEF HoldLease
<1> QED
    BY <1>6, <1>7

\* A process that only looks leaves everything as it is.
LEMMA LookingIsQuiet ==
    ASSUME LegTypeOK, NEW p \in Procs, Rests(p), UNCHANGED <<Journals, Exchange>>
    PROVE  Quiet(p)
<1>1. LegTypeOK'
    BY JournalsKeepType
<1> QED
    BY <1>1 DEF Quiet, Uncommitted, Journals, legVars, Exchange

\* One that moves the lease or HALT leaves the legs as they are.
LEMMA LeasingIsQuiet ==
    ASSUME LegTypeOK, NEW p \in Procs, Rests(p), TypeOK',
           UNCHANGED <<legVars, Exchange>>
    PROVE  Quiet(p)
<1>1. LegTypeOK'
    BY LegVarsKeepType
<1> QED
    BY <1>1 DEF Quiet, Uncommitted, legVars, Exchange

\* Whoever is at work has a leg.
LEMMA AtWorkOnLeg ==
    ASSUME GridInv, NEW p \in Procs, NEW step, At(p, step)
    PROVE  /\ proc[p] \in Proc
           /\ step \in AtWork => Leg(p) \in Legs /\ proc[p].at \in Legs
    BY DEF GridInv, GridTypeOK, Placed, At, Leg

\* The premises of the lemmas below.
LEMMA GridInvParts ==
    ASSUME GridInv
    PROVE  LegTypeOK /\ TypeOK /\ proc \in [Procs -> Proc]
    BY DEF GridInv, GridTypeOK, LegTypeOK

\* An operation starts with the lease and a leg, or with a scan for one.
LEMMA StartQuiet ==
    ASSUME GridInv, NEW p \in Procs, Start(p) PROVE Quiet(p)
<1>1. UNCHANGED <<legVars, Exchange>>
    BY DEF Start
<1>2. Resting("idle") \in Proc
    BY RestingType DEF Step
<1>3. {"scan", "check", "read", "settle"} \subseteq Step \ Committed
    BY DEF Step, Committed
<1>4. ASSUME HoldLease(p, [Resting("idle") EXCEPT !.op = "grid"], "scan")
      PROVE  Rests(p) /\ TypeOK'
  <2> DEFINE memory == [Resting("idle") EXCEPT !.op = "grid"]
  <2>1. memory \in Proc
      BY <1>2 DEF Proc
  <2>2. HoldLease(p, memory, "scan")
      BY <1>4
  <2>3. "scan" \notin AtWork
      BY DEF AtWork
  <2> HIDE DEF memory
  <2> QED
      BY <1>3, <2>1, <2>2, <2>3, GridInvParts, HoldLeaseRests
<1>5. ASSUME NEW l \in Legs, NEW op \in {"leg", "recover", "cancel"},
             NEW step \in {"check", "read", "settle"},
             HoldLease(p, [Resting("idle") EXCEPT !.op = op, !.at = l], step)
      PROVE  Rests(p) /\ TypeOK'
  <2> DEFINE memory == [Resting("idle") EXCEPT !.op = op, !.at = l]
  <2>1. memory \in Proc /\ memory.at \in Legs
      BY <1>2 DEF Proc
  <2>2. HoldLease(p, memory, step)
      BY <1>5
  <2> HIDE DEF memory
  <2> QED
      BY <1>3, <2>1, <2>2, GridInvParts, HoldLeaseRests
<1>6. Rests(p) /\ TypeOK'
  <2>1. CASE HoldLease(p, [Resting("idle") EXCEPT !.op = "grid"], "scan")
      BY <2>1, <1>4
  <2>2. CASE ~HoldLease(p, [Resting("idle") EXCEPT !.op = "grid"], "scan")
    <3>1. PICK l \in Legs, op \in {"leg", "recover", "cancel"} :
             HoldLease(p, [Resting("idle") EXCEPT !.op = op, !.at = l],
                   CASE op = "leg" -> "check"
                     [] op = "recover" -> "read"
                     [] op = "cancel" -> "settle")
        BY <2>2 DEF Start
    <3> DEFINE step == CASE op = "leg" -> "check"
                         [] op = "recover" -> "read"
                         [] op = "cancel" -> "settle"
    <3>2. step \in {"check", "read", "settle"}
        OBVIOUS
    <3>3. HoldLease(p, [Resting("idle") EXCEPT !.op = op, !.at = l], step)
        BY <3>1
    <3> HIDE DEF step
    <3> QED
        BY <3>2, <3>3, <1>5
  <2> QED
      BY <2>1, <2>2
<1> QED
    BY <1>1, <1>6, GridInvParts, LeasingIsQuiet

\* The lease of the next leg comes before everything that is done about it.
LEMMA ReletQuiet ==
    ASSUME GridInv, NEW p \in Procs, Relet(p) PROVE Quiet(p)
<1>1. UNCHANGED <<legVars, Exchange>>
    BY DEF Relet
<1>2. proc[p] \in Proc /\ proc[p].at \in Legs
    BY AtWorkOnLeg DEF Relet, AtWork, Step
<1>3. {"check", "read"} \subseteq Step \ Committed
    BY DEF Step, Committed
<1>4. ASSUME NEW step \in {"check", "read"},
             HoldLease(p, [proc[p] EXCEPT !.inGrid = TRUE], step)
      PROVE  Rests(p) /\ TypeOK'
  <2> DEFINE memory == [proc[p] EXCEPT !.inGrid = TRUE]
  <2>1. memory \in Proc /\ memory.at \in Legs
      BY <1>2 DEF Proc
  <2>2. HoldLease(p, memory, step)
      BY <1>4
  <2> HIDE DEF memory
  <2> QED
      BY <1>3, <2>1, <2>2, GridInvParts, HoldLeaseRests
<1>5. ASSUME Fail(p), UNCHANGED journalVars PROVE Rests(p) /\ TypeOK'
    BY <1>5, GridInvParts, FailRests DEF TypeOK, journalVars
<1>6. (IF proc[p].op = "grid" THEN "check" ELSE "read") \in {"check", "read"}
    OBVIOUS
<1>7. Rests(p) /\ TypeOK'
    BY <1>4, <1>5, <1>6 DEF Relet
<1> QED
    BY <1>1, <1>7, GridInvParts, LeasingIsQuiet

\* A release ends an operation.
LEMMA ReleaseQuiet ==
    ASSUME GridInv, NEW p \in Procs, Release(p) PROVE Quiet(p)
<1>1. UNCHANGED <<legVars, Exchange>> /\ Goto(p, "idle")
    BY DEF Release
<1>2. "idle" \in Step \ Committed /\ "idle" \notin AtWork
    BY DEF Step, Committed, AtWork
<1>3. Rests(p)
    BY <1>1, <1>2, GridInvParts, GoRests DEF Goto
<1>4. [JournalNext]_journalVars
  <2>1. CASE UNCHANGED journalVars
      BY <2>1
  <2>2. CASE ReleaseLease(GrantOf(p))
    <3>1. GrantOf(p) \in 1 .. Len(grants)
        BY <2>2 DEF ReleaseLease, Authoritative
    <3> QED
        BY <2>2, <3>1 DEF JournalNext, LeaseStep
  <2> QED
      BY <2>1, <2>2 DEF Release
<1>5. TypeOK'
    BY <1>4, TypeStep, GridInvParts
<1> QED
    BY <1>1, <1>3, <1>5, GridInvParts, LeasingIsQuiet

\* A scan makes the operation a sweep, or starts a grid at its first leg.
LEMMA ScanQuiet ==
    ASSUME GridInv, NEW p \in Procs, Scan(p) PROVE Quiet(p)
<1>1. UNCHANGED <<Journals, Exchange>>
    BY DEF Scan
<1>2. proc[p] \in Proc
    BY GridInvParts
<1>3. {"lease", "release", "idle"} \subseteq Step \ Committed
    BY DEF Step, Committed
<1>4. "release" \notin AtWork /\ "idle" \notin AtWork
    BY DEF AtWork
<1>5. Sources \subseteq Legs
    BY DEF Sources
<1>6. 1 \in Legs
    BY LegAssumption DEF Legs
<1>7. ASSUME NEW memory \in Proc, memory.at \in Legs, Go(p, memory, "lease")
      PROVE  Rests(p)
    BY <1>3, <1>7, GoRests
<1>8. ASSUME NEW l \in Sources,
             Go(p, [proc[p] EXCEPT !.op = "sweep", !.at = l,
                       !.found = Sources, !.todo = Sources \ {l}], "lease")
      PROVE  Rests(p)
  <2> DEFINE memory == [proc[p] EXCEPT !.op = "sweep", !.at = l,
                           !.found = Sources, !.todo = Sources \ {l}]
  <2>1. memory \in Proc /\ memory.at \in Legs
      BY <1>2, <1>5 DEF Proc
  <2>2. Go(p, memory, "lease")
      BY <1>8
  <2> HIDE DEF memory
  <2> QED
      BY <2>1, <2>2, <1>7
<1>9. ASSUME Go(p, [proc[p] EXCEPT !.at = 1], "lease") PROVE Rests(p)
  <2> DEFINE memory == [proc[p] EXCEPT !.at = 1]
  <2>1. memory \in Proc /\ memory.at \in Legs
      BY <1>2, <1>6 DEF Proc
  <2>2. Go(p, memory, "lease")
      BY <1>9
  <2> HIDE DEF memory
  <2> QED
      BY <2>1, <2>2, <1>7
<1>10. ASSUME Goto(p, "idle") \/ Goto(p, "release") PROVE Rests(p)
    BY <1>10, <1>2, <1>3, <1>4, GoRests DEF Goto
<1>11. Rests(p)
    BY <1>8, <1>9, <1>10 DEF Scan
<1> QED
    BY <1>1, <1>11, GridInvParts, LookingIsQuiet

\* The steps of a leg between one await and the next.
LEMMA GotoRests ==
    ASSUME GridInv, NEW p \in Procs, NEW from \in AtWork, At(p, from),
           NEW step \in Step \ Committed, Goto(p, step)
    PROVE  Rests(p)
<1>1. proc[p] \in Proc /\ proc[p].at \in Legs
    BY AtWorkOnLeg
<1> QED
    BY <1>1, GoRests DEF Goto

\* The same with a changed memory of the same leg.
LEMMA GoOnRests ==
    ASSUME GridInv, NEW p \in Procs, NEW from \in AtWork, At(p, from),
           NEW step \in Step \ Committed, NEW memory \in Proc,
           memory.at = proc[p].at, Go(p, memory, step)
    PROVE  Rests(p)
<1>1. proc[p].at \in Legs
    BY AtWorkOnLeg
<1> QED
    BY <1>1, GoRests

\* A leg that is known is reconciled, any other is refused or looked into.
LEMMA CheckQuiet ==
    ASSUME GridInv, NEW p \in Procs, Check(p) PROVE Quiet(p)
<1>1. UNCHANGED <<Journals, Exchange>> /\ At(p, "check")
    BY DEF Check
<1>2. "check" \in AtWork /\ {"read", "evidence"} \subseteq Step \ Committed
    BY DEF Step, Committed, AtWork
<1>3. proc[p] \in Proc
    BY GridInvParts
<1>4. ASSUME Go(p, [proc[p] EXCEPT !.inGrid = FALSE], "read") PROVE Rests(p)
  <2> DEFINE memory == [proc[p] EXCEPT !.inGrid = FALSE]
  <2>1. memory \in Proc /\ memory.at = proc[p].at
      BY <1>3 DEF Proc
  <2>2. Go(p, memory, "read")
      BY <1>4
  <2> HIDE DEF memory
  <2> QED
      BY <1>1, <1>2, <2>1, <2>2, GoOnRests
<1>5. ASSUME Goto(p, "evidence") PROVE Rests(p)
    BY <1>1, <1>2, <1>5, GotoRests
<1>6. ASSUME Fail(p) PROVE Rests(p)
    BY <1>6, GridInvParts, FailRests
<1>7. Rests(p)
    BY <1>4, <1>5, <1>6 DEF Check
<1> QED
    BY <1>1, <1>7, GridInvParts, LookingIsQuiet

\* The evidence is collected, or is not to be had.
LEMMA CollectQuiet ==
    ASSUME GridInv, NEW p \in Procs, Collect(p) PROVE Quiet(p)
<1>1. UNCHANGED <<Journals, Exchange>> /\ At(p, "evidence")
    BY DEF Collect
<1>2. "evidence" \in AtWork /\ "prepare" \in Step \ Committed
    BY DEF Step, Committed, AtWork
<1>3. ASSUME Goto(p, "prepare") PROVE Rests(p)
    BY <1>1, <1>2, <1>3, GotoRests
<1>4. ASSUME Fail(p) PROVE Rests(p)
    BY <1>4, GridInvParts, FailRests
<1>5. Rests(p)
    BY <1>3, <1>4 DEF Collect
<1> QED
    BY <1>1, <1>5, GridInvParts, LookingIsQuiet

\* The attempt of a create call is recorded, or HALT is tried.
LEMMA AcknowledgeQuiet ==
    ASSUME GridInv, NEW p \in Procs, Acknowledge(p) PROVE Quiet(p)
<1>1. UNCHANGED Exchange /\ At(p, "ack")
    BY DEF Acknowledge
<1>2. "ack" \in AtWork /\ "read" \in Step \ Committed
    BY DEF Step, Committed, AtWork
<1>3. proc[p] \in Proc /\ Leg(p) \in Legs
    BY <1>1, <1>2, AtWorkOnLeg
<1>4. ASSUME NEW force \in BOOLEAN,
             AppendCreateAttempt(GrantOf(p), Leg(p)),
             Go(p, [proc[p] EXCEPT !.fresh = TRUE, !.force = force], "read"),
             UNCHANGED journalVars
      PROVE  Quiet(p)
  <2> DEFINE memory == [proc[p] EXCEPT !.fresh = TRUE, !.force = force]
  <2>1. memory \in Proc /\ memory.at = proc[p].at
      BY <1>3 DEF Proc
  <2>2. Go(p, memory, "read")
      BY <1>4
  <2> HIDE DEF memory
  <2>3. Rests(p)
      BY <1>1, <1>2, <2>1, <2>2, GoOnRests
  <2>4. TypeOK'
      BY <1>4, GridInvParts DEF TypeOK, journalVars
  <2>5. LegTypeOK'
      BY <1>3, <1>4, <2>4, GridInvParts DEF AppendCreateAttempt, LegTypeOK
  <2> QED
      BY <1>1, <1>4, <2>3, <2>5
      DEF AppendCreateAttempt, Quiet, Uncommitted, Exchange
<1>5. ASSUME TryHalt(GrantOf(p)), Fail(p), UNCHANGED legVars
      PROVE  Quiet(p)
    BY <1>1, <1>5, GridInvParts, FailRests, TryHaltKeepsType, LeasingIsQuiet
<1> QED
    BY <1>4, <1>5 DEF Acknowledge

\* The account state is read, or the reconciliation ends there.
LEMMA ReadStateQuiet ==
    ASSUME GridInv, NEW p \in Procs, ReadState(p) PROVE Quiet(p)
<1>1. UNCHANGED <<legVars, Exchange>> /\ At(p, "read")
    BY DEF ReadState
<1>2. "read" \in AtWork /\ "observe" \in Step \ Committed
    BY DEF Step, Committed, AtWork
<1>3. proc[p] \in Proc /\ Leg(p) \in Legs /\ order \in [Legs -> Order]
    BY <1>1, <1>2, AtWorkOnLeg DEF GridInv, GridTypeOK
<1>4. ASSUME NEW pending \in BOOLEAN,
             Go(p, [proc[p] EXCEPT !.seen = order, !.pending = pending],
                "observe")
      PROVE  Rests(p)
  <2> DEFINE memory == [proc[p] EXCEPT !.seen = order, !.pending = pending]
  <2>1. memory \in Proc /\ memory.at = proc[p].at
      BY <1>3 DEF Proc
  <2>2. Go(p, memory, "observe")
      BY <1>4
  <2> HIDE DEF memory
  <2> QED
      BY <1>1, <1>2, <2>1, <2>2, GoOnRests
<1>5. (cancelIntent[Leg(p)] # None) \in BOOLEAN
    OBVIOUS
<1>6. UNCHANGED journalVars => TypeOK'
    BY GridInvParts DEF TypeOK, journalVars
<1>7. Rests(p) /\ TypeOK'
    BY <1>3, <1>4, <1>5, <1>6, GridInvParts, FailRests, FailReconcilingRests,
       TryHaltKeepsType DEF ReadState
<1> QED
    BY <1>1, <1>7, GridInvParts, LeasingIsQuiet

\* The order can be shown, or the leg is unresolved.
LEMMA ObserveQuiet ==
    ASSUME GridInv, NEW p \in Procs, Observe(p) PROVE Quiet(p)
<1>1. UNCHANGED <<Journals, Exchange>> /\ At(p, "observe")
    BY DEF Observe
<1>2. "observe" \in AtWork /\ {"fills", "record"} \subseteq Step \ Committed
    BY DEF Step, Committed, AtWork
<1>3. proc[p] \in Proc /\ Leg(p) \in Legs /\ order[Leg(p)] \in Order
    BY <1>1, <1>2, AtWorkOnLeg DEF GridInv, GridTypeOK
<1>4. ASSUME NEW o \in Order, Go(p, [proc[p] EXCEPT !.proof = o], "fills")
      PROVE  Rests(p)
  <2> DEFINE memory == [proc[p] EXCEPT !.proof = o]
  <2>1. memory \in Proc /\ memory.at = proc[p].at
      BY <1>3 DEF Proc
  <2>2. Go(p, memory, "fills")
      BY <1>4
  <2> HIDE DEF memory
  <2> QED
      BY <1>1, <1>2, <2>1, <2>2, GoOnRests
<1>5. "UNRESOLVED" \in LegStatus
    BY DEF LegStatus, Doubtful
<1>6. ASSUME Go(p, Decided(proc[p], "UNRESOLVED"), "record") PROVE Rests(p)
    BY <1>1, <1>2, <1>3, <1>5, <1>6, DecidedType, GoOnRests
<1>7. Rests(p)
    BY <1>3, <1>4, <1>6 DEF Observe
<1> QED
    BY <1>1, <1>7, GridInvParts, LookingIsQuiet

\* The fills are listed and the verdict is reached; a missing attempt may be
\* recorded on the way.
LEMMA ListFillsQuiet ==
    ASSUME GridInv, NEW p \in Procs, ListFills(p) PROVE Quiet(p)
<1>1. UNCHANGED journalVars /\ UNCHANGED Exchange /\ At(p, "fills")
    BY DEF ListFills
<1>2. "fills" \in AtWork /\ "record" \in Step \ Committed
    BY DEF Step, Committed, AtWork
<1>3. proc[p] \in Proc /\ Leg(p) \in Legs
    BY <1>1, <1>2, AtWorkOnLeg
<1>4. PICK status \in LegStatus : Go(p, Decided(proc[p], status), "record")
    BY DEF ListFills
<1>5. Rests(p)
    BY <1>1, <1>2, <1>3, <1>4, DecidedType, GoOnRests
<1>6. TypeOK'
    BY <1>1, GridInvParts DEF TypeOK, journalVars
<1>7. AppendCreateAttempt(GrantOf(p), Leg(p)) \/ UNCHANGED legVars
    BY DEF ListFills
<1>8. ASSUME AppendCreateAttempt(GrantOf(p), Leg(p)) PROVE Quiet(p)
  <2>1. LegTypeOK'
      BY <1>3, <1>6, <1>8, GridInvParts DEF AppendCreateAttempt, LegTypeOK
  <2> QED
      BY <1>1, <1>5, <1>8, <2>1
      DEF AppendCreateAttempt, Quiet, Uncommitted, Exchange
<1>9. ASSUME UNCHANGED legVars PROVE Quiet(p)
    BY <1>1, <1>5, <1>6, <1>9, GridInvParts, LeasingIsQuiet
<1> QED
    BY <1>7, <1>8, <1>9

\* A result becomes durable.
LEMMA AppendResultType ==
    ASSUME LegTypeOK, NEW g, NEW l \in Legs,
           NEW status \in LegStatus \cup {"none"}, NEW proof \in Order,
           AppendLegReconciliation(g, l, status, proof)
    PROVE  LegTypeOK' /\ UNCHANGED <<createIntent, cancelIntent>>
<1>1. HaltUp \/ UNCHANGED halt
    BY DEF AppendLegReconciliation
<1>2. UNCHANGED JournalButHalt
    BY DEF AppendLegReconciliation
<1>3. TypeOK'
    BY <1>1, <1>2, HaltKeepsType DEF LegTypeOK
<1>4. shield' \in [Legs -> Order \cup {None}]
  <2>1. shield' = [shield EXCEPT ![l] = proof] \/ shield' = shield
      BY DEF AppendLegReconciliation
  <2> QED
      BY <2>1 DEF LegTypeOK
<1>5. outcome' \in [Legs -> LegStatus \cup {"none"}]
    BY DEF AppendLegReconciliation, LegTypeOK
<1>6. UNCHANGED <<createIntent, answered, cancelIntent, cancelAttempt>>
    BY DEF AppendLegReconciliation
<1> QED
    BY <1>3, <1>4, <1>5, <1>6 DEF LegTypeOK

\* A reconciliation ends with its result on record, or without one.
LEMMA RecordQuiet ==
    ASSUME GridInv, NEW p \in Procs, Record(p) PROVE Quiet(p)
<1>1. UNCHANGED Exchange /\ At(p, "record")
    BY DEF Record
<1>2. "record" \in AtWork
    BY DEF Step, AtWork
<1>3. proc[p] \in Proc /\ Leg(p) \in Legs
    BY <1>1, <1>2, AtWorkOnLeg
<1>4. proc[p].verdict \in LegStatus \cup {"none"} /\ proc[p].proof \in Order
    BY <1>3 DEF Proc
<1>5. ASSUME AppendLegReconciliation(GrantOf(p), Leg(p), proc[p].verdict,
                                     proc[p].proof),
             Continue(p, proc[p].verdict)
      PROVE  Quiet(p)
  <2>1. Rests(p)
      BY <1>3, <1>5, GridInvParts, ContinueRests
  <2>2. LegTypeOK' /\ UNCHANGED <<createIntent, cancelIntent>>
      BY <1>3, <1>4, <1>5, GridInvParts, AppendResultType
  <2> QED
      BY <1>1, <2>1, <2>2 DEF Quiet, Uncommitted, Exchange
<1>6. ASSUME FailReconciling(p), UNCHANGED Journals PROVE Quiet(p)
    BY <1>1, <1>3, <1>6, GridInvParts, FailReconcilingRests, LookingIsQuiet
<1> QED
    BY <1>5, <1>6 DEF Record

\* A cancel that was asked for before is reconciled, a new one is looked into.
LEMMA SettleQuiet ==
    ASSUME GridInv, NEW p \in Procs, Settle(p) PROVE Quiet(p)
<1>1. UNCHANGED <<Journals, Exchange>> /\ At(p, "settle")
    BY DEF Settle
<1>2. /\ "settle" \in AtWork
      /\ {"read", "degrade", "idle", "revoke"} \subseteq Step \ Committed
    BY DEF Step, Committed, AtWork
<1>3. proc[p] \in Proc /\ Leg(p) \in Legs
    BY <1>1, <1>2, AtWorkOnLeg
<1>4. ASSUME NEW force \in BOOLEAN,
             Go(p, [proc[p] EXCEPT !.force = force], "read")
      PROVE  Rests(p)
  <2> DEFINE memory == [proc[p] EXCEPT !.force = force]
  <2>1. memory \in Proc /\ memory.at = proc[p].at
      BY <1>3 DEF Proc
  <2>2. Go(p, memory, "read")
      BY <1>4
  <2> HIDE DEF memory
  <2> QED
      BY <1>1, <1>2, <2>1, <2>2, GoOnRests
<1>5. ASSUME Goto(p, "degrade") \/ Goto(p, "idle")
      PROVE  Rests(p)
    BY <1>1, <1>2, <1>5, GotoRests
<1>6. ASSUME Go(p, [proc[p] EXCEPT !.verdict = outcome[Leg(p)]], "revoke")
      PROVE  Rests(p)
  <2> DEFINE memory == [proc[p] EXCEPT !.verdict = outcome[Leg(p)]]
  <2>1. outcome[Leg(p)] \in LegStatus \cup {"none"}
      BY <1>3, GridInvParts DEF LegTypeOK
  <2>2. memory \in Proc /\ memory.at = proc[p].at
      BY <1>3, <2>1 DEF Proc
  <2>3. Go(p, memory, "revoke")
      BY <1>6
  <2> HIDE DEF memory
  <2> QED
      BY <1>1, <1>2, <2>2, <2>3, GoOnRests
<1>7. (cancelAttempt[Leg(p)] # "accepted") \in BOOLEAN
    OBVIOUS
<1>8. Rests(p)
    BY <1>4, <1>5, <1>6, <1>7 DEF Settle
<1> QED
    BY <1>1, <1>8, GridInvParts, LookingIsQuiet

\* The proof for a cancel is had, or is not to be had.
LEMMA ProveQuiet ==
    ASSUME GridInv, NEW p \in Procs, Prove(p) PROVE Quiet(p)
<1>1. UNCHANGED <<Journals, Exchange>> /\ At(p, "revoke")
    BY DEF Prove
<1>2. /\ "revoke" \in AtWork
      /\ {"withdraw", "record", "read", "degrade", "idle"} \subseteq Step \ Committed
    BY DEF Step, Committed, AtWork
<1>3. proc[p] \in Proc /\ Leg(p) \in Legs /\ order[Leg(p)] \in Order
    BY <1>1, <1>2, AtWorkOnLeg DEF GridInv, GridTypeOK
<1>4. Forgetful(proc[p]) \in Proc /\ Forgetful(proc[p]).at = proc[p].at
    BY <1>3, ForgetfulType
<1>5. ASSUME NEW o \in Order,
             Go(p, [Forgetful(proc[p]) EXCEPT !.proof = o], "withdraw")
      PROVE  Rests(p)
  <2> DEFINE memory == [Forgetful(proc[p]) EXCEPT !.proof = o]
  <2>1. memory \in Proc /\ memory.at = proc[p].at
      BY <1>4 DEF Proc
  <2>2. Go(p, memory, "withdraw")
      BY <1>5
  <2> HIDE DEF memory
  <2> QED
      BY <1>1, <1>2, <2>1, <2>2, GoOnRests
<1>6. ASSUME NEW o \in Order,
             Go(p, Decided([proc[p] EXCEPT !.fresh = TRUE, !.proof = o], "PROTECTED"),
                "record")
      PROVE  Rests(p)
  <2> DEFINE seen == [proc[p] EXCEPT !.fresh = TRUE, !.proof = o]
             memory == Decided(seen, "PROTECTED")
  <2>1. seen \in Proc /\ seen.at = proc[p].at
      BY <1>3 DEF Proc
  <2>2. "PROTECTED" \in LegStatus
      BY DEF LegStatus
  <2> HIDE DEF seen
  <2>3. memory \in Proc /\ memory.at = proc[p].at
      BY <2>1, <2>2, DecidedType
  <2>4. Go(p, memory, "record")
      BY <1>6 DEF seen
  <2> HIDE DEF memory
  <2> QED
      BY <1>1, <1>2, <2>3, <2>4, GoOnRests
<1>7. ASSUME Goto(p, "degrade") \/ Goto(p, "idle")
      PROVE  Rests(p)
    BY <1>1, <1>2, <1>7, GotoRests
<1>8. ASSUME Go(p, Forgetful(proc[p]), "read") PROVE Rests(p)
    BY <1>1, <1>2, <1>4, <1>8, GoOnRests
<1>9. Rests(p)
    BY <1>3, <1>5, <1>6, <1>7, <1>8 DEF Prove
<1> QED
    BY <1>1, <1>9, GridInvParts, LookingIsQuiet

\* The answer to a cancel call is recorded, or HALT is tried.
LEMMA ReplyQuiet ==
    ASSUME GridInv, NEW p \in Procs, Reply(p) PROVE Quiet(p)
<1>1. UNCHANGED Exchange /\ At(p, "reply")
    BY DEF Reply
<1>2. "reply" \in AtWork /\ {"read", "idle"} \subseteq Step \ Committed
    BY DEF Step, Committed, AtWork
<1>3. /\ proc[p] \in Proc /\ Leg(p) \in Legs
      /\ Forgetful(proc[p]) \in Proc
      /\ Forgetful(proc[p]).at = proc[p].at
    BY <1>1, <1>2, AtWorkOnLeg, ForgetfulType
<1>4. ASSUME NEW result \in {"accepted", "ambiguous"},
             AppendCancelAttempt(GrantOf(p), Leg(p), result),
             Go(p, [Forgetful(proc[p]) EXCEPT !.force = result # "accepted"],
                "read"),
             UNCHANGED journalVars
      PROVE  Quiet(p)
  <2> DEFINE memory ==
                [Forgetful(proc[p]) EXCEPT !.force = result # "accepted"]
  <2>1. memory \in Proc /\ memory.at = proc[p].at
      BY <1>3 DEF Proc
  <2>2. Go(p, memory, "read")
      BY <1>4
  <2> HIDE DEF memory
  <2>3. Rests(p)
      BY <1>1, <1>2, <2>1, <2>2, GoOnRests
  <2>4. TypeOK'
      BY <1>4, GridInvParts DEF TypeOK, journalVars
  <2>5. LegTypeOK'
      BY <1>3, <1>4, <2>4, GridInvParts DEF AppendCancelAttempt, LegTypeOK
  <2> QED
      BY <1>1, <1>4, <2>3, <2>5
      DEF AppendCancelAttempt, Quiet, Uncommitted, Exchange
<1>5. ASSUME TryHalt(GrantOf(p)), Goto(p, "idle"), UNCHANGED legVars
      PROVE  Quiet(p)
    BY <1>1, <1>2, <1>5, GridInvParts, GotoRests, TryHaltKeepsType,
       LeasingIsQuiet
<1> QED
    BY <1>4, <1>5 DEF Reply

\* The last protected result is put in doubt.
LEMMA DegradeQuiet ==
    ASSUME GridInv, NEW p \in Procs, Degrade(p) PROVE Quiet(p)
<1>1. UNCHANGED Exchange /\ At(p, "degrade") /\ Goto(p, "idle")
    BY DEF Degrade
<1>2. "degrade" \in AtWork /\ "idle" \in Step \ Committed
    BY DEF Step, Committed, AtWork
<1>3. Rests(p) /\ Leg(p) \in Legs
    BY <1>1, <1>2, AtWorkOnLeg, GotoRests
<1>4. ASSUME shield[Leg(p)] # None,
             AppendLegReconciliation(GrantOf(p), Leg(p), "PROTECTION_PENDING",
                                     shield[Leg(p)])
      PROVE  Quiet(p)
  <2>1. shield[Leg(p)] \in Order /\ "PROTECTION_PENDING" \in LegStatus
      BY <1>3, <1>4, GridInvParts DEF LegTypeOK, LegStatus, Doubtful
  <2>2. LegTypeOK' /\ UNCHANGED <<createIntent, cancelIntent>>
      BY <1>3, <1>4, <2>1, GridInvParts, AppendResultType
  <2> QED
      BY <1>1, <1>3, <2>2 DEF Quiet, Uncommitted, Exchange
<1>5. ASSUME UNCHANGED Journals PROVE Quiet(p)
    BY <1>1, <1>3, <1>5, GridInvParts, LookingIsQuiet
<1> QED
    BY <1>4, <1>5 DEF Degrade

\* A process that dies leaves everything else as it is.
LEMMA CrashQuiet ==
    ASSUME GridInv, NEW p \in Procs, Crash(p) PROVE Quiet(p)
<1>1. Resting("gone") \in Proc /\ Resting("gone").step = "gone"
    BY RestingType DEF Step
<1>2. "gone" \notin AtWork /\ "gone" \notin Committed
    BY DEF AtWork, Committed
<1>3. Rests(p)
    BY <1>1, <1>2 DEF Crash, Rests, Placed
<1> QED
    BY <1>3, GridInvParts, LookingIsQuiet DEF Crash

-----------------------------------------------------------------------------
\* One call for each intent

Creating(memory) == memory.step \in {"revalidate", "dispatch"}
Cancelling(memory) == memory.step \in {"reassure", "send"}

\* No call without its intent, and none twice.
CallsCovered ==
    \A l \in Legs : /\ posted[l] <= 1
                    /\ revoked[l] <= 1
                    /\ createIntent[l] = None => posted[l] = 0
                    /\ cancelIntent[l] = None => revoked[l] = 0

\* Who stands between an intent and its call knows that both are as they should.
IntentsUnused ==
    \A p \in Procs :
        /\ Creating(proc[p]) => /\ createIntent[proc[p].at] # None
                                /\ posted[proc[p].at] = 0
        /\ Cancelling(proc[p]) => /\ cancelIntent[proc[p].at] # None
                                  /\ revoked[proc[p].at] = 0

\* No two processes stand there for the same leg.
IntentsExclusive ==
    \A p, q \in Procs :
        /\ p # q
        /\ \/ Creating(proc[p]) /\ Creating(proc[q])
           \/ Cancelling(proc[p]) /\ Cancelling(proc[q])
        => proc[p].at # proc[q].at

CallInv == GridInv /\ CallsCovered /\ IntentsUnused /\ IntentsExclusive

\* A quiet step disturbs none of it.
LEMMA QuietKeepsGrid ==
    ASSUME GridInv, NEW p \in Procs, Quiet(p) PROVE GridInv'
<1>1. PICK memory \in Proc : /\ proc' = [proc EXCEPT ![p] = memory]
                             /\ Placed(memory)
    BY DEF Quiet, Rests
<1>2. proc' \in [Procs -> Proc]
    BY <1>1, GridInvParts
<1>3. \A q \in Procs : Placed(proc'[q])
    BY <1>1 DEF GridInv, GridTypeOK
<1>4. UNCHANGED <<order, posted, revoked>>
    BY DEF Quiet, Uncommitted
<1> QED
    BY <1>2, <1>3, <1>4 DEF Quiet, GridInv, GridTypeOK, Placed

\* The process is not between a commit and its call any more.
LEMMA QuietKeepsCalls ==
    ASSUME CallInv, NEW p \in Procs, Quiet(p) PROVE CallInv'
<1>1. PICK memory \in Proc : /\ proc' = [proc EXCEPT ![p] = memory]
                             /\ memory.step \notin Committed
    BY DEF Quiet, Rests
<1>2. proc \in [Procs -> Proc]
    BY GridInvParts DEF CallInv
<1>3. ~Creating(proc'[p]) /\ ~Cancelling(proc'[p])
    BY <1>1, <1>2 DEF Creating, Cancelling, Committed
<1>4. \A q \in Procs \ {p} : proc'[q] = proc[q]
    BY <1>1, <1>2
<1>5. UNCHANGED <<posted, revoked, createIntent, cancelIntent>>
    BY DEF Quiet, Uncommitted
<1>6. GridInv'
    BY QuietKeepsGrid DEF CallInv
<1>7. CallsCovered'
    BY <1>5 DEF CallInv, CallsCovered
<1>8. IntentsUnused'
    BY <1>3, <1>4, <1>5 DEF CallInv, IntentsUnused, Creating, Cancelling
<1>9. IntentsExclusive'
    BY <1>3, <1>4 DEF CallInv, IntentsExclusive, Creating, Cancelling
<1> QED
    BY <1>6, <1>7, <1>8, <1>9 DEF CallInv

\* Going on between the commit and the call keeps the leg.
LEMMA CommittedMove ==
    ASSUME GridInv, NEW p \in Procs, NEW from \in AtWork, At(p, from),
           NEW step \in Step \ {"idle"}, Goto(p, step)
    PROVE  /\ proc' \in [Procs -> Proc]
           /\ proc'[p].step = step
           /\ proc'[p].at = proc[p].at
           /\ proc[p].at \in Legs
           /\ \A q \in Procs \ {p} : proc'[q] = proc[q]
           /\ \A q \in Procs : Placed(proc'[q])
<1> DEFINE next == [proc[p] EXCEPT !.step = step]
<1>1. proc[p] \in Proc /\ proc[p].at \in Legs
    BY AtWorkOnLeg
<1>2. next \in Proc /\ next.step = step /\ next.at = proc[p].at
    BY <1>1 DEF Proc
<1>3. proc' = [proc EXCEPT ![p] = next]
    BY DEF Goto, Go
<1> HIDE DEF next
<1> QED
    BY <1>1, <1>2, <1>3, GridInvParts DEF GridInv, Placed

\* The intent of a create call is committed by a process that finds none.
LEMMA PrepareCalls ==
    ASSUME CallInv, NEW p \in Procs, Prepare(p) PROVE CallInv'
<1>1. /\ UNCHANGED <<journalVars, Exchange>>
      /\ UNCHANGED <<order, posted, revoked>>
      /\ At(p, "prepare")
    BY DEF Prepare, Exchange
<1>2. "prepare" \in AtWork /\ {"revalidate", "read"} \subseteq Step
    BY DEF Step, AtWork
<1>3. proc[p] \in Proc /\ Leg(p) \in Legs
    BY <1>1, <1>2, AtWorkOnLeg DEF CallInv
<1>4. TypeOK'
    BY <1>1, GridInvParts DEF CallInv, TypeOK, journalVars
<1>5. ASSUME NEW step \in AfterPrepare(p),
             PreparePreparedLegCreate(GrantOf(p), Leg(p)), Goto(p, step)
      PROVE  CallInv'
  <2> DEFINE l == Leg(p)
             row == [run |-> grants[GrantOf(p)].owner,
                     epoch |-> grants[GrantOf(p)].epoch]
  <2>1. createIntent[l] = None
      BY <1>5 DEF PreparePreparedLegCreate, NewSource
  <2>2. step = "revalidate"
      BY <1>5, <2>1 DEF AfterPrepare, NewSource
  <2>3. /\ proc' \in [Procs -> Proc]
        /\ proc'[p].step = "revalidate"
        /\ proc'[p].at = l
        /\ l \in Legs
        /\ \A q \in Procs \ {p} : proc'[q] = proc[q]
        /\ \A q \in Procs : Placed(proc'[q])
      BY <1>1, <1>2, <1>5, <2>2, CommittedMove DEF CallInv, Leg
  <2>4. grants[GrantOf(p)] \in Grant
      BY <1>5, GridInvParts
      DEF CallInv, PreparePreparedLegCreate, CreateAllowed, Authoritative, TypeOK
  <2>5. row \in CreateIntent
      BY <2>4 DEF Grant, CreateIntent
  <2>6. createIntent' = [createIntent EXCEPT ![l] = row]
      BY <1>5 DEF PreparePreparedLegCreate
  <2>7. UNCHANGED <<answered, cancelIntent, cancelAttempt, outcome, shield>>
      BY <1>5 DEF PreparePreparedLegCreate
  <2> HIDE DEF row
  <2>8. createIntent' \in [Legs -> CreateIntent \cup {None}]
      BY <2>5, <2>6, GridInvParts DEF CallInv, LegTypeOK
  <2>9. LegTypeOK'
      BY <1>4, <2>7, <2>8, GridInvParts DEF CallInv, LegTypeOK
  <2>10. GridInv'
      BY <1>1, <2>3, <2>9 DEF CallInv, GridInv, GridTypeOK, Placed
  <2>11. /\ createIntent'[l] # None
         /\ \A k \in Legs \ {l} : createIntent'[k] = createIntent[k]
         /\ posted[l] = 0
      BY <2>1, <2>3, <2>5, <2>6, GridInvParts, RowAssumption
      DEF CallInv, LegTypeOK, CallsCovered
  <2>12. CallsCovered'
      BY <1>1, <2>7, <2>11 DEF CallInv, CallsCovered
  <2>13. \A q \in Procs \ {p} : Creating(proc[q]) => proc[q].at # l
      BY <2>1 DEF CallInv, IntentsUnused
  <2>14. ~Cancelling(proc'[p])
      BY <2>3 DEF Cancelling
  <2>15. ASSUME NEW q \in Procs, q # p, Creating(proc[q])
         PROVE  createIntent'[proc[q].at] = createIntent[proc[q].at]
    <3>1. proc[q].at \in Legs
        BY <2>15
        DEF CallInv, GridInv, Placed, Creating, AtWork, Step
    <3> QED
        BY <2>11, <2>13, <2>15, <3>1
  <2>16. IntentsUnused'
      BY <1>1, <2>3, <2>7, <2>11, <2>14, <2>15
      DEF CallInv, IntentsUnused, Creating, Cancelling
  <2>17. IntentsExclusive'
      BY <2>3, <2>13, <2>14
      DEF CallInv, IntentsExclusive, Creating, Cancelling
  <2> QED
      BY <2>10, <2>12, <2>16, <2>17 DEF CallInv
<1>6. ASSUME NEW step \in AfterPrepare(p), createIntent[Leg(p)] # None,
             Go(p, [proc[p] EXCEPT !.inGrid = FALSE], step),
             UNCHANGED legVars
      PROVE  CallInv'
  <2> DEFINE memory == [proc[p] EXCEPT !.inGrid = FALSE]
  <2>1. step = "read"
      BY <1>6 DEF AfterPrepare, NewSource
  <2>2. memory \in Proc /\ memory.at = proc[p].at
      BY <1>3 DEF Proc
  <2>3. Go(p, memory, "read")
      BY <1>6, <2>1
  <2>4. "read" \in Step \ Committed
      BY DEF Step, Committed
  <2> HIDE DEF memory
  <2>5. Rests(p)
      BY <1>1, <1>2, <2>2, <2>3, <2>4, GoOnRests DEF CallInv
  <2>6. Quiet(p)
      BY <1>1, <1>4, <1>6, <2>5, GridInvParts, LeasingIsQuiet DEF CallInv
  <2> QED
      BY <2>6, QuietKeepsCalls
<1>7. ASSUME Fail(p), UNCHANGED legVars PROVE CallInv'
  <2>1. Rests(p)
      BY <1>7, GridInvParts, FailRests DEF CallInv
  <2>2. Quiet(p)
      BY <1>1, <1>4, <1>7, <2>1, GridInvParts, LeasingIsQuiet DEF CallInv
  <2> QED
      BY <2>2, QuietKeepsCalls
<1> QED
    BY <1>5, <1>6, <1>7 DEF Prepare

\* A step that goes on between the commit and the call and touches nothing else.
LEMMA AdvanceCalls ==
    ASSUME CallInv, NEW p \in Procs, NEW from \in AtWork, At(p, from),
           NEW step \in Step \ {"idle"}, Goto(p, step),
           UNCHANGED <<Journals, Exchange>>,
           \/ from = "revalidate" /\ step = "dispatch"
           \/ from = "reassure" /\ step = "send"
    PROVE  CallInv'
<1>1. /\ proc' \in [Procs -> Proc]
      /\ proc'[p].step = step
      /\ proc'[p].at = proc[p].at
      /\ \A q \in Procs \ {p} : proc'[q] = proc[q]
      /\ \A q \in Procs : Placed(proc'[q])
    BY CommittedMove DEF CallInv
<1>2. LegTypeOK'
    BY JournalsKeepType, GridInvParts DEF CallInv
<1>3. UNCHANGED <<order, posted, revoked, createIntent, cancelIntent>>
    BY DEF Journals, Exchange, legVars
<1>4. GridInv'
    BY <1>1, <1>2, <1>3 DEF CallInv, GridInv, GridTypeOK, Placed
<1>5. \A q \in Procs : /\ Creating(proc'[q]) = Creating(proc[q])
                       /\ Cancelling(proc'[q]) = Cancelling(proc[q])
                       /\ proc'[q].at = proc[q].at
    BY <1>1 DEF Creating, Cancelling, At
<1>6. CallsCovered'
    BY <1>3 DEF CallInv, CallsCovered
<1>7. IntentsUnused'
    BY <1>3, <1>5 DEF CallInv, IntentsUnused, Creating, Cancelling
<1>8. IntentsExclusive'
    BY <1>5 DEF CallInv, IntentsExclusive, Creating, Cancelling
<1> QED
    BY <1>4, <1>6, <1>7, <1>8 DEF CallInv

\* The last look before a create call lets it through, or raises HALT.
LEMMA RevalidateCalls ==
    ASSUME CallInv, NEW p \in Procs, Revalidate(p) PROVE CallInv'
<1>1. UNCHANGED Exchange /\ At(p, "revalidate")
    BY DEF Revalidate
<1>2. "revalidate" \in AtWork /\ "dispatch" \in Step \ {"idle"}
    BY DEF Step, AtWork
<1>3. ASSUME Goto(p, "dispatch"), UNCHANGED Journals PROVE CallInv'
    BY <1>1, <1>2, <1>3, AdvanceCalls
<1>4. ASSUME TryHalt(GrantOf(p)), Fail(p), UNCHANGED legVars PROVE CallInv'
  <2>1. Quiet(p)
      BY <1>1, <1>4, GridInvParts, FailRests, TryHaltKeepsType, LeasingIsQuiet
      DEF CallInv
  <2> QED
      BY <2>1, QuietKeepsCalls
<1> QED
    BY <1>3, <1>4 DEF Revalidate

\* The last look before a cancel call.
LEMMA ReassureCalls ==
    ASSUME CallInv, NEW p \in Procs, Reassure(p) PROVE CallInv'
<1>1. UNCHANGED <<legVars, Exchange>> /\ At(p, "reassure")
    BY DEF Reassure
<1>2. /\ "reassure" \in AtWork /\ "send" \in Step \ {"idle"}
      /\ "idle" \in Step \ Committed
    BY DEF Step, AtWork, Committed
<1>3. ASSUME Goto(p, "send"), UNCHANGED journalVars PROVE CallInv'
  <2>1. UNCHANGED Journals
      BY <1>1, <1>3 DEF Journals
  <2> QED
      BY <1>1, <1>2, <1>3, <2>1, AdvanceCalls
<1>4. ASSUME TryHalt(GrantOf(p)), Goto(p, "idle") PROVE CallInv'
  <2>1. Quiet(p)
      BY <1>1, <1>2, <1>4, GridInvParts, GotoRests, TryHaltKeepsType,
         LeasingIsQuiet DEF CallInv
  <2> QED
      BY <2>1, QuietKeepsCalls
<1> QED
    BY <1>3, <1>4 DEF Reassure

\* The create call is the only one of its intent.
LEMMA DispatchCalls ==
    ASSUME CallInv, NEW p \in Procs, Dispatch(p) PROVE CallInv'
<1> DEFINE l == Leg(p)
<1>1. /\ UNCHANGED Journals /\ UNCHANGED revoked
      /\ At(p, "dispatch") /\ Goto(p, "ack")
      /\ posted' = [posted EXCEPT ![l] = @ + 1]
    BY DEF Dispatch
<1>2. "dispatch" \in AtWork /\ "ack" \in Step \ {"idle"}
    BY DEF Step, AtWork
<1>3. /\ proc' \in [Procs -> Proc]
      /\ proc'[p].step = "ack"
      /\ l \in Legs
      /\ \A q \in Procs \ {p} : proc'[q] = proc[q]
      /\ \A q \in Procs : Placed(proc'[q])
    BY <1>1, <1>2, CommittedMove DEF CallInv, Leg
<1>4. LegTypeOK'
    BY <1>1, JournalsKeepType, GridInvParts DEF CallInv
<1>5. order' \in [Legs -> Order]
  <2>1. [order EXCEPT ![l].state = "flying"] \in [Legs -> Order]
      BY <1>3 DEF CallInv, GridInv, GridTypeOK, Order
  <2>2. order' = [order EXCEPT ![l].state = "flying"] \/ order' = order
      BY DEF Dispatch
  <2> QED
      BY <2>1, <2>2 DEF CallInv, GridInv, GridTypeOK
<1>6. /\ createIntent[l] # None
      /\ posted[l] = 0
      /\ \A q \in Procs \ {p} : Creating(proc[q]) => proc[q].at # l
    BY <1>1 DEF CallInv, IntentsUnused, IntentsExclusive, Creating, At, Leg
<1>7. /\ posted' \in [Legs -> Nat]
      /\ posted'[l] = 1
      /\ \A k \in Legs \ {l} : posted'[k] = posted[k]
    BY <1>1, <1>3, <1>6 DEF CallInv, GridInv, GridTypeOK
<1>8. GridInv'
    BY <1>1, <1>3, <1>4, <1>5, <1>7 DEF CallInv, GridInv, GridTypeOK, Placed
<1>9. UNCHANGED <<createIntent, cancelIntent>>
    BY <1>1 DEF Journals, legVars
<1>10. CallsCovered'
    BY <1>1, <1>6, <1>7, <1>9 DEF CallInv, CallsCovered
<1>11. ~Creating(proc'[p]) /\ ~Cancelling(proc'[p])
    BY <1>3 DEF Creating, Cancelling
<1>12. \A q \in Procs : Creating(proc[q]) => proc[q].at \in Legs
    BY DEF CallInv, GridInv, Placed, Creating, AtWork, Step
<1>13. IntentsUnused'
    BY <1>1, <1>3, <1>6, <1>7, <1>9, <1>11, <1>12
    DEF CallInv, IntentsUnused, Creating, Cancelling
<1>14. IntentsExclusive'
    BY <1>3, <1>11 DEF CallInv, IntentsExclusive, Creating, Cancelling
<1> QED
    BY <1>8, <1>10, <1>13, <1>14 DEF CallInv

\* So is the cancel call of its own.
LEMMA SendCalls ==
    ASSUME CallInv, NEW p \in Procs, Send(p) PROVE CallInv'
<1> DEFINE l == Leg(p)
<1>1. /\ UNCHANGED Journals /\ UNCHANGED <<order, posted>>
      /\ At(p, "send") /\ Goto(p, "reply")
      /\ revoked' = [revoked EXCEPT ![l] = @ + 1]
    BY DEF Send
<1>2. "send" \in AtWork /\ "reply" \in Step \ {"idle"}
    BY DEF Step, AtWork
<1>3. /\ proc' \in [Procs -> Proc]
      /\ proc'[p].step = "reply"
      /\ l \in Legs
      /\ \A q \in Procs \ {p} : proc'[q] = proc[q]
      /\ \A q \in Procs : Placed(proc'[q])
    BY <1>1, <1>2, CommittedMove DEF CallInv, Leg
<1>4. LegTypeOK'
    BY <1>1, JournalsKeepType, GridInvParts DEF CallInv
<1>5. /\ cancelIntent[l] # None
      /\ revoked[l] = 0
      /\ \A q \in Procs \ {p} : Cancelling(proc[q]) => proc[q].at # l
    BY <1>1 DEF CallInv, IntentsUnused, IntentsExclusive, Cancelling, At, Leg
<1>6. /\ revoked' \in [Legs -> Nat]
      /\ revoked'[l] = 1
      /\ \A k \in Legs \ {l} : revoked'[k] = revoked[k]
    BY <1>1, <1>3, <1>5 DEF CallInv, GridInv, GridTypeOK
<1>7. GridInv'
    BY <1>1, <1>3, <1>4, <1>6 DEF CallInv, GridInv, GridTypeOK, Placed
<1>8. UNCHANGED <<createIntent, cancelIntent>>
    BY <1>1 DEF Journals, legVars
<1>9. CallsCovered'
    BY <1>1, <1>5, <1>6, <1>8 DEF CallInv, CallsCovered
<1>10. ~Creating(proc'[p]) /\ ~Cancelling(proc'[p])
    BY <1>3 DEF Creating, Cancelling
<1>11. \A q \in Procs : Cancelling(proc[q]) => proc[q].at \in Legs
    BY DEF CallInv, GridInv, Placed, Cancelling, AtWork, Step
<1>12. IntentsUnused'
    BY <1>1, <1>3, <1>5, <1>6, <1>8, <1>10, <1>11
    DEF CallInv, IntentsUnused, Creating, Cancelling
<1>13. IntentsExclusive'
    BY <1>3, <1>10 DEF CallInv, IntentsExclusive, Creating, Cancelling
<1> QED
    BY <1>7, <1>9, <1>12, <1>13 DEF CallInv

\* The intent of a cancel call is committed by a process that finds none.
LEMMA WithdrawCalls ==
    ASSUME CallInv, NEW p \in Procs, Withdraw(p) PROVE CallInv'
<1>1. /\ UNCHANGED <<journalVars, Exchange>>
      /\ UNCHANGED <<order, posted, revoked>>
      /\ At(p, "withdraw")
    BY DEF Withdraw, Exchange
<1>2. /\ "withdraw" \in AtWork /\ "reassure" \in Step \ {"idle"}
      /\ {"read", "idle"} \subseteq Step \ Committed
    BY DEF Step, AtWork, Committed
<1>3. proc[p] \in Proc /\ Leg(p) \in Legs /\ proc[p].proof \in Order
    BY <1>1, <1>2, AtWorkOnLeg DEF CallInv, Proc
<1>4. TypeOK'
    BY <1>1, GridInvParts DEF CallInv, TypeOK, journalVars
<1>5. ASSUME PreparePreparedLegCancel(GrantOf(p), Leg(p), proc[p].proof),
             Goto(p, "reassure")
      PROVE  CallInv'
  <2> DEFINE l == Leg(p)
             row == [epoch |-> grants[GrantOf(p)].epoch,
                     filled |-> proc[p].proof.filled]
  <2>1. cancelIntent[l] = None
      BY <1>5 DEF PreparePreparedLegCancel
  <2>2. /\ proc' \in [Procs -> Proc]
        /\ proc'[p].step = "reassure"
        /\ proc'[p].at = l
        /\ l \in Legs
        /\ \A q \in Procs \ {p} : proc'[q] = proc[q]
        /\ \A q \in Procs : Placed(proc'[q])
      BY <1>1, <1>2, <1>5, CommittedMove DEF CallInv, Leg
  <2>3. grants[GrantOf(p)] \in Grant
      BY <1>5, GridInvParts
      DEF CallInv, PreparePreparedLegCancel, CancelAllowed, Authoritative, TypeOK
  <2>4. row \in CancelIntent
      BY <1>3, <2>3 DEF Grant, CancelIntent, Order
  <2>5. cancelIntent' = [cancelIntent EXCEPT ![l] = row]
      BY <1>5 DEF PreparePreparedLegCancel
  <2>6. UNCHANGED <<createIntent, answered, cancelAttempt, outcome, shield>>
      BY <1>5 DEF PreparePreparedLegCancel
  <2> HIDE DEF row
  <2>7. cancelIntent' \in [Legs -> CancelIntent \cup {None}]
      BY <2>4, <2>5, GridInvParts DEF CallInv, LegTypeOK
  <2>8. LegTypeOK'
      BY <1>4, <2>6, <2>7, GridInvParts DEF CallInv, LegTypeOK
  <2>9. GridInv'
      BY <1>1, <2>2, <2>8 DEF CallInv, GridInv, GridTypeOK, Placed
  <2>10. /\ cancelIntent'[l] # None
         /\ \A k \in Legs \ {l} : cancelIntent'[k] = cancelIntent[k]
         /\ revoked[l] = 0
      BY <2>1, <2>2, <2>4, <2>5, GridInvParts, RowAssumption
      DEF CallInv, LegTypeOK, CallsCovered
  <2>11. CallsCovered'
      BY <1>1, <2>6, <2>10 DEF CallInv, CallsCovered
  <2>12. \A q \in Procs \ {p} : Cancelling(proc[q]) => proc[q].at # l
      BY <2>1 DEF CallInv, IntentsUnused
  <2>13. ~Creating(proc'[p])
      BY <2>2 DEF Creating
  <2>14. ASSUME NEW q \in Procs, q # p, Cancelling(proc[q])
         PROVE  cancelIntent'[proc[q].at] = cancelIntent[proc[q].at]
    <3>1. proc[q].at \in Legs
        BY <2>14 DEF CallInv, GridInv, Placed, Cancelling, AtWork, Step
    <3> QED
        BY <2>10, <2>12, <2>14, <3>1
  <2>15. IntentsUnused'
      BY <1>1, <2>2, <2>6, <2>10, <2>13, <2>14
      DEF CallInv, IntentsUnused, Creating, Cancelling
  <2>16. IntentsExclusive'
      BY <2>2, <2>12, <2>13
      DEF CallInv, IntentsExclusive, Creating, Cancelling
  <2> QED
      BY <2>9, <2>11, <2>15, <2>16 DEF CallInv
<1>6. ASSUME Rests(p), UNCHANGED legVars PROVE CallInv'
  <2>1. Quiet(p)
      BY <1>1, <1>4, <1>6, GridInvParts, LeasingIsQuiet DEF CallInv
  <2> QED
      BY <2>1, QuietKeepsCalls
<1>7. ASSUME Go(p, Forgetful(proc[p]), "read") PROVE Rests(p)
    BY <1>1, <1>2, <1>3, <1>7, ForgetfulType, GoOnRests DEF CallInv
<1>8. ASSUME Goto(p, "idle") PROVE Rests(p)
    BY <1>1, <1>2, <1>8, GotoRests DEF CallInv
<1> QED
    BY <1>5, <1>6, <1>7, <1>8 DEF Withdraw

\* The exchange and the clock touch neither processes nor calls.
LEMMA WorldKeepsCalls ==
    ASSUME CallInv, ExchangeStep \/ TimeStep PROVE CallInv'
<1>1. UNCHANGED <<proc, posted, revoked, legVars>>
    BY DEF ExchangeStep, TimeStep, Exchange, Journals
<1>2. UNCHANGED <<createIntent, cancelIntent>>
    BY <1>1 DEF legVars
<1>3. [JournalNext]_journalVars
  <2>1. CASE ExchangeStep
      BY <2>1 DEF ExchangeStep, Journals
  <2>2. CASE TimeStep
      BY <2>2, LegAssumption DEF TimeStep, JournalNext, LeaseStep, IntentStep
  <2> QED
      BY <2>1, <2>2
<1>4. LegTypeOK'
    BY <1>1, <1>3, TypeStep, GridInvParts, LegVarsKeepType DEF CallInv
<1>5. order' \in [Legs -> Order]
  <2>1. order \in [Legs -> Order]
      BY DEF CallInv, GridInv, GridTypeOK
  <2>2. ASSUME NEW l \in Legs, Arrive(l) \/ End(l)
        PROVE  order' \in [Legs -> Order]
      BY <2>1, <2>2 DEF Arrive, End, Order
  <2>3. ASSUME NEW l \in Legs, Fill(l) PROVE order' \in [Legs -> Order]
    <3>1. order[l].filled \in 0 .. Full
        BY <2>1 DEF Order
    <3>2. PICK filled \in order[l].filled + 1 .. Full :
              order' = [order EXCEPT ![l].filled = filled]
        BY <2>3 DEF Fill
    <3>3. filled \in 0 .. Full
        BY <3>1, LegAssumption
    <3> QED
        BY <2>1, <3>2, <3>3 DEF Order
  <2>4. CASE TimeStep
      BY <2>1, <2>4 DEF TimeStep, Exchange
  <2> QED
      BY <2>2, <2>3, <2>4 DEF ExchangeStep
<1>6. GridInv'
    BY <1>1, <1>4, <1>5 DEF CallInv, GridInv, GridTypeOK, Placed
<1>7. CallsCovered' /\ IntentsUnused' /\ IntentsExclusive'
    BY <1>1, <1>2
    DEF CallInv, CallsCovered, IntentsUnused, IntentsExclusive, Creating,
        Cancelling
<1> QED
    BY <1>6, <1>7 DEF CallInv

\* At the start there is nothing.
LEMMA CallInit == Init => CallInv
<1> SUFFICES ASSUME Init PROVE CallInv
    OBVIOUS
<1>1. TypeOK
    BY DEF Init, JournalInit, TypeOK, NoResult, Result, Status
<1>2. LegTypeOK
    BY <1>1 DEF Init, LegInit, LegTypeOK
<1>3. Resting("idle") \in Proc /\ Resting("idle").step = "idle"
    BY RestingType DEF Step
<1>4. order \in [Legs -> Order]
    BY LegAssumption DEF Init, Nothing, NoOrder, Order
<1>5. \A p \in Procs : proc[p] = Resting("idle")
    BY DEF Init
<1>6. GridInv
    BY <1>2, <1>3, <1>4, <1>5 DEF Init, GridInv, GridTypeOK, Placed, AtWork
<1>7. \A p \in Procs : ~Creating(proc[p]) /\ ~Cancelling(proc[p])
    BY <1>3, <1>5 DEF Creating, Cancelling
<1>8. CallsCovered
    BY DEF Init, CallsCovered
<1> QED
    BY <1>6, <1>7, <1>8 DEF CallInv, IntentsUnused, IntentsExclusive

\* Every step keeps what makes the calls single.
LEMMA CallStep == CallInv /\ [Next]_vars => CallInv'
<1> SUFFICES ASSUME CallInv, [Next]_vars PROVE CallInv'
    OBVIOUS
<1>1. GridInv
    BY DEF CallInv
<1>2. ASSUME NEW p \in Procs, CreateStep(p) PROVE CallInv'
  <2>1. CASE Prepare(p) \/ Revalidate(p) \/ Dispatch(p)
      BY <2>1, PrepareCalls, RevalidateCalls, DispatchCalls
  <2>2. CASE \/ Start(p) \/ Relet(p) \/ Release(p) \/ Scan(p) \/ Check(p)
             \/ Collect(p) \/ Acknowledge(p)
    <3>1. Quiet(p)
        BY <1>1, <2>2, StartQuiet, ReletQuiet, ReleaseQuiet, ScanQuiet,
           CheckQuiet, CollectQuiet, AcknowledgeQuiet
    <3> QED
        BY <3>1, QuietKeepsCalls
  <2> QED
      BY <1>2, <2>1, <2>2 DEF CreateStep
<1>3. ASSUME NEW p \in Procs, ReconcileStep(p) \/ Crash(p) PROVE CallInv'
  <2>1. Quiet(p)
      BY <1>1, <1>3, ReadStateQuiet, ObserveQuiet, ListFillsQuiet, RecordQuiet,
         CrashQuiet DEF ReconcileStep
  <2> QED
      BY <2>1, QuietKeepsCalls
<1>4. ASSUME NEW p \in Procs, CancelStep(p) PROVE CallInv'
  <2>1. CASE Withdraw(p) \/ Reassure(p) \/ Send(p)
      BY <2>1, WithdrawCalls, ReassureCalls, SendCalls
  <2>2. CASE Settle(p) \/ Prove(p) \/ Reply(p) \/ Degrade(p)
    <3>1. Quiet(p)
        BY <1>1, <2>2, SettleQuiet, ProveQuiet, ReplyQuiet, DegradeQuiet
    <3> QED
        BY <3>1, QuietKeepsCalls
  <2> QED
      BY <1>4, <2>1, <2>2 DEF CancelStep
<1>5. CASE UNCHANGED vars
  <2>1. UNCHANGED <<Journals, Exchange>>
      BY <1>5 DEF vars, Journals, Exchange
  <2>2. LegTypeOK'
      BY <2>1, JournalsKeepType, GridInvParts, <1>1
  <2>3. UNCHANGED <<proc, order, posted, revoked, createIntent, cancelIntent>>
      BY <1>5 DEF vars, legVars
  <2>4. GridInv'
      BY <1>1, <2>2, <2>3 DEF GridInv, GridTypeOK, Placed
  <2> QED
      BY <2>3, <2>4
      DEF CallInv, CallsCovered, IntentsUnused, IntentsExclusive, Creating,
          Cancelling
<1> QED
    BY <1>2, <1>3, <1>4, <1>5, WorldKeepsCalls DEF Next

\* The boundary and its store hold well-formed rows, and every process knows the
\* leg it works on, in every reachable state.
THEOREM GridTypeCorrect == Spec => []GridTypeOK
<1>1. CallInv => GridTypeOK
    BY DEF CallInv, GridInv
<1> QED
    BY <1>1, CallInit, CallStep, PTL DEF Spec

\* At most one create call and one cancel call are ever sent for a leg, whoever
\* retries, restarts or takes over, and however many processes share a run id.
THEOREM OneCallForEachIntent == Spec => []OneCallEach
<1>1. CallInv => OneCallEach
    BY DEF CallInv, CallsCovered, OneCallEach
<1> QED
    BY <1>1, CallInit, CallStep, PTL DEF Spec
=============================================================================
