-------------------------- MODULE GridResultProofs --------------------------
(***************************************************************************)
(* What the recorded results of prepared legs promise, for every number of *)
(* processes, runs and legs.                                               *)
(*                                                                         *)
(* That a result which says an order is over stays true rests on the       *)
(* exchange alone: an order that ended does not change.  The other results *)
(* rest on the lease.  Only its holder can write, its holder is one        *)
(* process where no two processes share a run id, and what the holder      *)
(* found about its leg stays as it was found while it holds.  A leg that   *)
(* is not accounted for therefore sits in the hands of the one process     *)
(* that sent it, and a doubt in those of the one whose sweep will not      *)
(* release the lease because of it.                                        *)
(***************************************************************************)
EXTENDS PreparedGridProofs

-----------------------------------------------------------------------------
\* Hypotheses

\* No two processes share a run id: a restart gets an id of its own.
OwnRuns == \A p, q \in Procs : RunOf[p] = RunOf[q] => p = q

\* Whole grids only: no operation is about one leg of several.
WholeGrids == Offered \subseteq {"grid"} \/ NLegs = 1

-----------------------------------------------------------------------------
\* The invariants

Over(o) == o.state \in {"dead", "rejected"} /\ o.filled = 0

Dead == {"CANCELLED", "REJECTED"}

\* What was concluded of an order that is over is true of it, from the proof to
\* the result.
DeadAreOver ==
    /\ \A l \in Legs : outcome[l] \in Dead => Over(order[l])
    /\ \A p \in Procs : At(p, "record") /\ proc[p].verdict \in Dead
                            => Over(order[Leg(p)])
    /\ \A p \in Procs : At(p, "fills") =>
          /\ Shown(proc[p].proof)
          /\ proc[p].proof.state \in {"dead", "rejected"}
                => order[Leg(p)] = proc[p].proof

Asleep == {"idle", "gone"}

\* The lease, if there is one, is that of the last grant.
LeaseIsLast ==
    lease # None => /\ Len(grants) \in 1 .. Len(grants)
                    /\ lease.owner = grants[Len(grants)].owner
                    /\ lease.epoch = grants[Len(grants)].epoch

\* Who is at work has a grant of its own run.
GrantsAreOwn ==
    \A p \in Procs : proc[p].step \notin Asleep =>
        /\ GrantOf(p) \in 1 .. Len(grants)
        /\ grants[GrantOf(p)].owner = RunOf[p]

\* What is about to be recorded is a result.
VerdictsKnown == \A p \in Procs : At(p, "record") => proc[p].verdict \in LegStatus

\* Orders are created by grids and by operations on one leg.
CreatorsCreate ==
    \A p \in Procs :
        proc[p].step \in {"check", "evidence", "prepare", "revalidate", "dispatch",
                          "ack"}
            => proc[p].op \in {"grid", "leg"}

HolderInv ==
    CallInv /\ LeaseIsLast /\ GrantsAreOwn /\ VerdictsKnown /\ CreatorsCreate

\* From the intent to its result.
Window == {"revalidate", "dispatch", "ack", "read", "observe", "fills", "record"}

Pending(l) == createIntent[l] # None /\ ~Accounted(l)

\* The process is between the intent of a leg and its result, with the lease.
Sees(p, l) ==
    /\ Leg(p) = l
    /\ proc[p].step \in Window
    /\ proc[p].op \in {"grid", "leg"}
    /\ grants[GrantOf(p)].epoch = lease.epoch

\* While HALT is down, a leg that is not accounted for is under the lease of the
\* run that intended it, and as long as the lease is good its process sees to it
\* or is dead.
PendingSeen ==
    ~halt.active => \A l \in Legs : Pending(l) =>
        /\ lease # None
        /\ lease.owner = createIntent[l].run
        /\ lease.epoch = createIntent[l].epoch
        /\ \/ lease.expired
           \/ \A p \in Procs : RunOf[p] = lease.owner => At(p, "gone") \/ Sees(p, l)

\* A recorded fill is one, and who holds the lease over an unfilled order has
\* none recorded.
FillsTrue ==
    /\ \A l \in Legs : shield[l] # None =>
          order[l].filled > 0 /\ outcome[l] \notin ZeroFill
    /\ \A p \in Procs : At(p, "record") /\ proc[p].verdict = "PROTECTED"
                            => order[Leg(p)].filled > 0
    /\ \A p \in Procs : At(p, "fills") /\ proc[p].proof.filled > 0
                            => order[Leg(p)].filled > 0
    /\ \A p \in Procs : Authoritative(GrantOf(p)) =>
          /\ At(p, "fills") /\ proc[p].proof.filled = 0 => shield[Leg(p)] = None
          /\ At(p, "record") /\ proc[p].verdict \in ZeroFill
                => shield[Leg(p)] = None

InDoubtNow(l) == outcome[l] \in Doubtful

\* As long as nobody took the lease over, only its holder is at work.
HolderAlone ==
    lease = None \/ ~lease.recon =>
        \A q \in Procs : lease = None \/ RunOf[q] # lease.owner
            => proc[q].step \in Asleep

\* A process at work knows the legs in doubt: its own, those its sweep has still
\* to visit, or that there is one.
Remembers(p, l) ==
    /\ ~At(p, "release")
    /\ proc[p].op = "sweep" => proc[p].doubt \/ l \in proc[p].todo \cup {Leg(p)}
    /\ proc[p].op = "grid" /\ ~At(p, "scan") => l = Leg(p)

\* The one process at work knows of every leg in doubt, until a takeover.
DoubtsRemembered ==
    /\ \A l \in Legs : outcome[l] # "none" => createIntent[l] # None
    /\ lease = None => \A l \in Legs : ~InDoubtNow(l)
    /\ lease # None /\ ~lease.recon =>
          \A p \in Procs, l \in Legs :
              RunOf[p] = lease.owner /\ proc[p].step \notin Asleep /\ InDoubtNow(l)
                  => Remembers(p, l)

\* An operation on one leg is one that is offered.
OpsOffered ==
    \A p \in Procs :
        proc[p].step \notin Asleep /\ proc[p].op \in {"leg", "recover", "cancel"}
            => proc[p].op \in Offered

-----------------------------------------------------------------------------
\* What a process remembers after a step

\* Going on to a step keeps the memory it goes on with.
LEMMA GoFields ==
    ASSUME proc \in [Procs -> Proc], NEW p \in Procs, NEW memory \in Proc,
           NEW step \in Step, Go(p, memory, step)
    PROVE  /\ \A q \in Procs \ {p} : proc'[q] = proc[q]
           /\ proc'[p].step = step
           /\ step # "idle" =>
                 /\ proc'[p].op = memory.op
                 /\ proc'[p].grant = memory.grant
                 /\ proc'[p].at = memory.at
                 /\ proc'[p].todo = memory.todo
                 /\ proc'[p].doubt = memory.doubt
                 /\ proc'[p].proof = memory.proof
                 /\ proc'[p].verdict = memory.verdict
<1>1. CASE step = "idle"
  <2>1. proc' = [proc EXCEPT ![p] = Resting("idle")]
    BY <1>1 DEF Go
  <2> QED
    BY <1>1, <2>1, RestingType
<1>2. CASE step # "idle"
  <2> DEFINE next == [memory EXCEPT !.step = step]
  <2>1. proc' = [proc EXCEPT ![p] = next]
    BY <1>2 DEF Go
  <2>2. /\ next.step = step /\ next.op = memory.op /\ next.grant = memory.grant
        /\ next.at = memory.at /\ next.todo = memory.todo
        /\ next.doubt = memory.doubt /\ next.proof = memory.proof
        /\ next.verdict = memory.verdict
    BY DEF Proc
  <2> HIDE DEF next
  <2> QED
    BY <2>1, <2>2
<1> QED
    BY <1>1, <1>2

\* Forgetting what was read keeps the operation, the leg and the sweep.
LEMMA ForgetfulFields ==
    ASSUME NEW memory \in Proc
    PROVE  /\ Forgetful(memory) \in Proc
           /\ Forgetful(memory).op = memory.op
           /\ Forgetful(memory).grant = memory.grant
           /\ Forgetful(memory).at = memory.at
           /\ Forgetful(memory).todo = memory.todo
           /\ Forgetful(memory).doubt = memory.doubt
<1>1. Forgetful(memory) \in Proc
    BY ForgetfulType
<1> QED
    BY <1>1 DEF Forgetful, Proc

\* So does a decision, which keeps the proof of a protected result as well.
LEMMA DecidedFields ==
    ASSUME NEW memory \in Proc, NEW status \in LegStatus
    PROVE  /\ Decided(memory, status) \in Proc
           /\ Decided(memory, status).op = memory.op
           /\ Decided(memory, status).grant = memory.grant
           /\ Decided(memory, status).at = memory.at
           /\ Decided(memory, status).todo = memory.todo
           /\ Decided(memory, status).doubt = memory.doubt
           /\ Decided(memory, status).verdict = status
           /\ status = "PROTECTED" => Decided(memory, status).proof = memory.proof
<1>1. Decided(memory, status) \in Proc
    BY DecidedType
<1>2. /\ Forgetful(memory) \in Proc
      /\ Forgetful(memory).op = memory.op
      /\ Forgetful(memory).grant = memory.grant
      /\ Forgetful(memory).at = memory.at
      /\ Forgetful(memory).todo = memory.todo
      /\ Forgetful(memory).doubt = memory.doubt
    BY ForgetfulFields
<1>3. memory.fresh \in BOOLEAN
    BY DEF Proc
<1> QED
    BY <1>1, <1>2, <1>3 DEF Decided, Proc

\* The process goes on with its leg.
Works(p, steps) ==
    /\ \A q \in Procs \ {p} : proc'[q] = proc[q]
    /\ proc'[p].step \in steps
    /\ proc'[p].op = proc[p].op
    /\ proc'[p].grant = proc[p].grant
    /\ proc'[p].at = proc[p].at
    /\ proc'[p].todo = proc[p].todo
    /\ proc'[p].doubt = proc[p].doubt

\* The process ends its operation, or dies.
Ends(p) ==
    /\ \A q \in Procs \ {p} : proc'[q] = proc[q]
    /\ proc'[p].step \in Asleep

\* The process keeps its grant on the way to another leg or to the release.
Leaves(p, step) ==
    /\ \A q \in Procs \ {p} : proc'[q] = proc[q]
    /\ proc'[p].step = step
    /\ proc'[p].op = proc[p].op
    /\ proc'[p].grant = proc[p].grant

\* Going on with the same leg.
LEMMA GoWorks ==
    ASSUME proc \in [Procs -> Proc], NEW p \in Procs, NEW memory \in Proc,
           NEW step \in Step \ {"idle"}, Go(p, memory, step),
           memory.op = proc[p].op, memory.grant = proc[p].grant,
           memory.at = proc[p].at, memory.todo = proc[p].todo,
           memory.doubt = proc[p].doubt
    PROVE  /\ Works(p, {step})
           /\ proc'[p].proof = memory.proof
           /\ proc'[p].verdict = memory.verdict
    BY GoFields DEF Works

\* The same with nothing else changed.
LEMMA GotoWorks ==
    ASSUME proc \in [Procs -> Proc], NEW p \in Procs, NEW step \in Step,
           Goto(p, step)
    PROVE  /\ step # "idle" => Works(p, {step}) /\ proc'[p].proof = proc[p].proof
                               /\ proc'[p].verdict = proc[p].verdict
           /\ step = "idle" => Ends(p)
<1>1. proc[p] \in Proc /\ Go(p, proc[p], step)
    BY DEF Goto
<1> QED
    BY <1>1, GoFields, GoWorks DEF Ends, Asleep

-----------------------------------------------------------------------------
\* Where an operation goes on

\* What a failure comes to.
Failed(p) ==
    \/ Ends(p)
    \/ /\ proc[p].op = "grid"
       /\ Leaves(p, "release")
       /\ FailedStatus(Leg(p)) \notin Doubtful
    \/ /\ proc[p].op = "sweep"
       /\ Leaves(p, "lease")
       /\ proc'[p].doubt

\* What a recorded result leads to.
Continued(p, status) ==
    \/ Ends(p)
    \/ proc[p].op = "grid" /\ Leaves(p, "lease") /\ status \notin Doubtful
    \/ proc[p].op = "grid" /\ Leaves(p, "release") /\ status \notin Doubtful
    \/ /\ proc[p].op = "sweep"
       /\ Leaves(p, "lease")
       /\ proc[p].todo \subseteq proc'[p].todo \cup {proc'[p].at}
       /\ proc'[p].doubt = InDoubt(p, status)
    \/ /\ proc[p].op = "sweep"
       /\ Leaves(p, "release")
       /\ proc[p].todo = {} /\ ~InDoubt(p, status)
    \/ /\ proc[p].op \in {"leg", "recover", "cancel"}
       /\ Leaves(p, "release")
       /\ status \in ZeroFill
    \/ proc[p].op = "cancel" /\ (Leaves(p, "degrade") \/ Leaves(p, "withdraw"))

\* A sweep goes on to the first leg it has not visited.
LEMMA NextOfSweepMoves ==
    ASSUME proc \in [Procs -> Proc], NEW p \in Procs, NEW doubt \in BOOLEAN,
           NextOfSweep(p, doubt)
    PROVE  \/ Ends(p)
           \/ /\ Leaves(p, "lease")
              /\ proc[p].todo \subseteq proc'[p].todo \cup {proc'[p].at}
              /\ proc'[p].doubt = doubt
           \/ /\ Leaves(p, "release")
              /\ proc[p].todo = {} /\ ~doubt
<1> DEFINE memory == [Forgetful(proc[p]) EXCEPT !.doubt = doubt]
           todo == proc[p].todo
<1>1. /\ proc[p] \in Proc /\ todo \subseteq Legs
      /\ Forgetful(proc[p]) \in Proc
      /\ Forgetful(proc[p]).op = proc[p].op
      /\ Forgetful(proc[p]).grant = proc[p].grant
    BY ForgetfulFields DEF Proc
<1>2. /\ memory \in Proc /\ memory.op = proc[p].op
      /\ memory.grant = proc[p].grant /\ memory.doubt = doubt
    BY <1>1 DEF Proc
<1>3. ASSUME NEW l \in todo,
             Go(p, [memory EXCEPT !.at = l, !.todo = todo \ {l}], "lease")
      PROVE  /\ Leaves(p, "lease")
             /\ proc[p].todo \subseteq proc'[p].todo \cup {proc'[p].at}
             /\ proc'[p].doubt = doubt
  <2> DEFINE next == [memory EXCEPT !.at = l, !.todo = todo \ {l}]
  <2>1. /\ next \in Proc /\ next.op = proc[p].op /\ next.grant = proc[p].grant
        /\ next.at = l /\ next.todo = todo \ {l} /\ next.doubt = doubt
    BY <1>1, <1>2 DEF Proc
  <2>2. Go(p, next, "lease") /\ "lease" \in Step
    BY <1>3 DEF Step
  <2> HIDE DEF next
  <2> QED
    BY <2>1, <2>2, GoFields DEF Leaves
<1>4. Goto(p, "idle") => Ends(p)
    BY GotoWorks DEF Step
<1>5. Go(p, memory, "release") => Leaves(p, "release")
  <2> HIDE DEF memory
  <2> QED
    BY <1>2, GoFields DEF Leaves, Step
<1> QED
    BY <1>3, <1>4, <1>5 DEF NextOfSweep

\* An operation that fails.
LEMMA FailMoves ==
    ASSUME proc \in [Procs -> Proc], NEW p \in Procs, Fail(p)
    PROVE  Failed(p)
<1>1. /\ Forgetful(proc[p]) \in Proc
      /\ Forgetful(proc[p]).op = proc[p].op
      /\ Forgetful(proc[p]).grant = proc[p].grant
    BY ForgetfulFields
<1>2. Goto(p, "idle") => Ends(p)
    BY GotoWorks DEF Step
<1>3. Go(p, Forgetful(proc[p]), "release") => Leaves(p, "release")
    BY <1>1, GoFields DEF Leaves, Step
<1>4. NextOfSweep(p, TRUE) => Ends(p) \/ (Leaves(p, "lease") /\ proc'[p].doubt)
    BY NextOfSweepMoves
<1> QED
    BY <1>2, <1>3, <1>4 DEF Fail, Failed

\* A reconciliation without a result.
LEMMA FailReconcilingMoves ==
    ASSUME proc \in [Procs -> Proc], NEW p \in Procs, FailReconciling(p)
    PROVE  Failed(p) \/ (proc[p].op = "cancel" /\ Leaves(p, "degrade"))
<1>1. Goto(p, "idle") => Ends(p)
    BY GotoWorks DEF Step
<1>2. Goto(p, "degrade") => Leaves(p, "degrade")
    BY GotoWorks DEF Step, Works, Leaves
<1> QED
    BY <1>1, <1>2, FailMoves DEF FailReconciling, Failed

\* A recorded result.
LEMMA ContinueMoves ==
    ASSUME proc \in [Procs -> Proc], NEW p \in Procs, Leg(p) \in Legs,
           NEW status \in LegStatus, Continue(p, status)
    PROVE  Continued(p, status)
<1>1. /\ proc[p] \in Proc
      /\ Forgetful(proc[p]) \in Proc
      /\ Forgetful(proc[p]).op = proc[p].op
      /\ Forgetful(proc[p]).grant = proc[p].grant
    BY ForgetfulFields
<1>2. Goto(p, "idle") => Ends(p)
    BY GotoWorks DEF Step
<1>3. Go(p, Forgetful(proc[p]), "release") => Leaves(p, "release")
    BY <1>1, GoFields DEF Leaves, Step
<1>4. ASSUME GoesOn(p, status), Leg(p) < NLegs,
             Go(p, [Forgetful(proc[p]) EXCEPT !.at = Leg(p) + 1], "lease")
      PROVE  Continued(p, status)
  <2> DEFINE next == [Forgetful(proc[p]) EXCEPT !.at = Leg(p) + 1]
  <2>1. Leg(p) + 1 \in Legs
    BY <1>4, LegAssumption DEF Legs
  <2>2. next \in Proc /\ next.op = proc[p].op /\ next.grant = proc[p].grant
    BY <1>1, <2>1 DEF Proc
  <2>3. Go(p, next, "lease")
    BY <1>4
  <2> HIDE DEF next
  <2>4. Leaves(p, "lease")
    BY <2>2, <2>3, GoFields DEF Leaves, Step
  <2> QED
    BY <1>4, <2>4 DEF GoesOn, Continued, Doubtful
<1>5. ASSUME proc[p].op = "sweep", NextOfSweep(p, InDoubt(p, status))
      PROVE  Continued(p, status)
  <2>1. InDoubt(p, status) \in BOOLEAN
    BY <1>1 DEF InDoubt, Proc
  <2> QED
    BY <1>5, <2>1, NextOfSweepMoves DEF Continued
<1>6. ASSUME proc[p].op \in {"leg", "recover", "cancel"}, status = "UNRESOLVED",
             FailReconciling(p)
      PROVE  Continued(p, status)
    BY <1>6, FailReconcilingMoves DEF Continued, Failed
<1>7. ASSUME Vouching(p),
             Go(p, [Forgetful(proc[p]) EXCEPT !.proof = proc[p].proof], "withdraw")
      PROVE  Continued(p, status)
  <2> DEFINE next == [Forgetful(proc[p]) EXCEPT !.proof = proc[p].proof]
  <2>1. next \in Proc /\ next.op = proc[p].op /\ next.grant = proc[p].grant
    BY <1>1 DEF Proc
  <2>2. Go(p, next, "withdraw")
    BY <1>7
  <2> HIDE DEF next
  <2>3. Leaves(p, "withdraw")
    BY <2>1, <2>2, GoFields DEF Leaves, Step
  <2> QED
    BY <1>7, <2>3 DEF Vouching, Continued
<1> QED
    BY <1>2, <1>3, <1>4, <1>5, <1>6, <1>7 DEF Continue, Continued

-----------------------------------------------------------------------------
\* What a step does to the lease and HALT

\* HALT is never lowered.
HaltKept == UNCHANGED halt \/ halt'.active

\* Nothing but HALT.
LeaseStays == UNCHANGED <<lease, grants>> /\ HaltKept

\* A process got its lease: renewed, free, or taken over.
LeaseHad(p) ==
    \/ HeldByRun(p) /\ UNCHANGED <<lease, grants, halt>>
    \/ /\ lease = None
       /\ lease' = [owner |-> RunOf[p], epoch |-> FirstEpoch, expired |-> FALSE,
                    recon |-> FALSE]
       /\ grants' = Append(grants, [owner |-> RunOf[p], epoch |-> FirstEpoch,
                                    takeover |-> FALSE])
       /\ UNCHANGED halt
    \/ /\ lease # None /\ lease.expired
       /\ lease' = [owner |-> RunOf[p], epoch |-> lease.epoch + 1,
                    expired |-> FALSE, recon |-> TRUE]
       /\ grants' = Append(grants, [owner |-> RunOf[p], epoch |-> lease.epoch + 1,
                                    takeover |-> TRUE])
       /\ halt'.active

\* The lease goes on with the operation.
LEMMA HoldLeaseMoves ==
    ASSUME TypeOK, proc \in [Procs -> Proc], NEW p \in Procs, NEW memory \in Proc,
           NEW step \in Step \ {"idle"}, HoldLease(p, memory, step)
    PROVE  /\ LeaseHad(p)
           /\ \A q \in Procs \ {p} : proc'[q] = proc[q]
           /\ proc'[p].step = step
           /\ proc'[p].op = memory.op
           /\ proc'[p].at = memory.at
           /\ proc'[p].todo = memory.todo
           /\ proc'[p].doubt = memory.doubt
           /\ proc'[p].grant = Len(grants')
<1>1. Len(grants) \in Nat
    BY DEF TypeOK
<1>2. ASSUME NEW n \in Nat, Go(p, [memory EXCEPT !.grant = n], step)
      PROVE  /\ \A q \in Procs \ {p} : proc'[q] = proc[q]
             /\ proc'[p].step = step
             /\ proc'[p].op = memory.op
             /\ proc'[p].at = memory.at
             /\ proc'[p].todo = memory.todo
             /\ proc'[p].doubt = memory.doubt
             /\ proc'[p].grant = n
  <2> DEFINE next == [memory EXCEPT !.grant = n]
  <2>1. /\ next \in Proc /\ next.op = memory.op /\ next.at = memory.at
        /\ next.todo = memory.todo /\ next.doubt = memory.doubt /\ next.grant = n
    BY DEF Proc
  <2>2. Go(p, next, step)
    BY <1>2
  <2> HIDE DEF next
  <2> QED
    BY <2>1, <2>2, GoFields
<1>3. CASE /\ HeldByRun(p)
           /\ Go(p, [memory EXCEPT !.grant = Len(grants)], step)
           /\ UNCHANGED journalVars
  <2>1. LeaseHad(p) /\ Len(grants') = Len(grants)
    BY <1>3 DEF LeaseHad, journalVars
  <2> QED
    BY <1>1, <1>2, <1>3, <2>1
<1>4. CASE /\ AcquireFreeLease(RunOf[p]) \/ TakeOverLease(RunOf[p])
           /\ Go(p, [memory EXCEPT !.grant = Len(grants) + 1], step)
  <2>1. LeaseHad(p)
    BY <1>4 DEF LeaseHad, AcquireFreeLease, TakeOverLease, RaiseHaltRow
  <2>2. Len(grants') = Len(grants) + 1
    BY <1>1, <1>4, ProcessAssumption DEF AcquireFreeLease, TakeOverLease, TypeOK
  <2>3. Len(grants) + 1 \in Nat
    BY <1>1
  <2>4. Go(p, [memory EXCEPT !.grant = Len(grants) + 1], step)
    BY <1>4
  <2> QED
    BY <1>2, <2>1, <2>2, <2>3, <2>4
<1> QED
    BY <1>3, <1>4 DEF HoldLease

\* An attempt to raise HALT succeeds for who holds the lease.
LEMMA TryHaltMoves ==
    ASSUME NEW g, TryHalt(g)
    PROVE  LeaseStays /\ (Authoritative(g) => halt'.active)
    BY DEF TryHalt, HaltUp, RaiseHaltRow, JournalButHalt, LeaseStays, HaltKept

\* Where nothing of the journal moves.
LEMMA JournalStill ==
    ASSUME UNCHANGED journalVars
    PROVE  LeaseStays /\ UNCHANGED <<halt, live>>
    BY DEF journalVars, LeaseStays, HaltKept

-----------------------------------------------------------------------------
\* What the steps do: kinds of steps, and which actions are of which kind.

Unwritten == UNCHANGED <<createIntent, outcome, shield, order>>

Degrades(p) == proc[p].op = "cancel" /\ Leaves(p, "degrade")

Starts(p) ==
    /\ At(p, "idle")
    /\ LeaseHad(p) /\ Unwritten
    /\ \A q \in Procs \ {p} : proc'[q] = proc[q]
    /\ proc'[p].grant = Len(grants')
    /\ \/ proc'[p].step = "scan" /\ proc'[p].op = "grid"
       \/ /\ proc'[p].step \in {"check", "read", "settle"}
          /\ proc'[p].op \in {"leg", "recover", "cancel"} \cap Offered
          /\ proc'[p].step = "check" => proc'[p].op = "leg"

Relets(p) ==
    /\ At(p, "lease")
    /\ LeaseHad(p) /\ Unwritten
    /\ \A q \in Procs \ {p} : proc'[q] = proc[q]
    /\ proc'[p].grant = Len(grants')
    /\ proc'[p].op = proc[p].op
    /\ proc'[p].at = proc[p].at
    /\ proc'[p].todo = proc[p].todo
    /\ proc'[p].doubt = proc[p].doubt
    /\ proc'[p].step \in {"check", "read"}
    /\ proc'[p].step = "check" => proc[p].op = "grid"

Releases(p) ==
    /\ At(p, "release")
    /\ Ends(p) /\ Unwritten
    /\ \/ ReleaseLease(GrantOf(p))
       \/ UNCHANGED journalVars

Scans(p) ==
    /\ At(p, "scan")
    /\ Unwritten /\ UNCHANGED journalVars
    /\ \/ Ends(p)
       \/ /\ \A q \in Procs \ {p} : proc'[q] = proc[q]
          /\ proc'[p].step = "lease"
          /\ proc'[p].op = "sweep"
          /\ proc'[p].grant = proc[p].grant
          /\ Sources \subseteq proc'[p].todo \cup {proc'[p].at}
       \/ /\ Sources = {}
          /\ Leaves(p, "release") \/ Leaves(p, "lease")

\* A look that is followed by the next, or by a failure.
Looks(p) ==
    /\ proc[p].step \in {"lease", "check", "evidence", "prepare"}
    /\ Unwritten /\ UNCHANGED journalVars
    /\ \/ ~At(p, "lease") /\ Works(p, {"read", "evidence", "prepare"})
       \/ Failed(p)

Commits(p) ==
    /\ At(p, "prepare")
    /\ UNCHANGED journalVars /\ UNCHANGED <<outcome, shield, order>>
    /\ CreateAllowed(GrantOf(p))
    /\ createIntent[Leg(p)] = None
    /\ createIntent' = [createIntent EXCEPT
          ![Leg(p)] = [run |-> grants[GrantOf(p)].owner,
                       epoch |-> grants[GrantOf(p)].epoch]]
    /\ Works(p, {"revalidate"})

\* A step of an order under way, which does not fail without HALT.
Tries(p) ==
    /\ proc[p].step \in {"revalidate", "ack", "read"}
    /\ Unwritten /\ LeaseStays
    /\ \/ /\ Works(p, {"dispatch", "read", "observe"})
          /\ proc'[p].step = "dispatch" => At(p, "revalidate")
       \/ /\ Failed(p) \/ Degrades(p)
          /\ \/ Authoritative(GrantOf(p)) => halt'.active
             \/ proc[p].op \in {"recover", "sweep"}

Dispatches(p) ==
    /\ At(p, "dispatch")
    /\ UNCHANGED journalVars /\ UNCHANGED <<createIntent, outcome, shield>>
    /\ Works(p, {"ack"})
    /\ \A l \in Legs : /\ order'[l].filled = order[l].filled
                       /\ order[l] # NoOrder => order'[l] = order[l]

Observes(p) ==
    /\ At(p, "observe")
    /\ Unwritten /\ UNCHANGED journalVars
    /\ \/ /\ Works(p, {"fills"})
          /\ proc'[p].proof = order[Leg(p)]
          /\ Shown(order[Leg(p)])
       \/ /\ Works(p, {"record"})
          /\ proc'[p].verdict = "UNRESOLVED"

Concludes(p) ==
    /\ At(p, "fills")
    /\ Unwritten /\ UNCHANGED journalVars
    /\ Works(p, {"record"})
    /\ proc'[p].verdict \in LegStatus
    /\ proc'[p].verdict \in ZeroFill => proc'[p].verdict \in ZeroFillStatus(proc[p].proof)
    /\ proc'[p].verdict = "PROTECTED" => proc[p].proof.filled > 0

Records(p) ==
    /\ At(p, "record")
    /\ LeaseStays /\ UNCHANGED <<createIntent, order>>
    /\ Authoritative(GrantOf(p))
    /\ createIntent[Leg(p)] # None
    /\ outcome' = [outcome EXCEPT ![Leg(p)] = proc[p].verdict]
    /\ shield' = IF proc[p].verdict = "PROTECTED"
                 THEN [shield EXCEPT ![Leg(p)] = proc[p].proof] ELSE shield
    /\ proc[p].verdict \in Doubtful => halt'.active
    /\ proc[p].verdict \in LegStatus => Continued(p, proc[p].verdict)

\* A result that the store refuses.
Refuses(p) ==
    /\ At(p, "record")
    /\ Unwritten /\ UNCHANGED journalVars
    /\ ~Authoritative(GrantOf(p))
    /\ Failed(p) \/ Degrades(p)

\* A step of a cancel.
Cancels(p) ==
    /\ proc[p].step \in {"settle", "revoke", "withdraw", "reassure", "send", "reply"}
    /\ Unwritten /\ LeaseStays
    /\ \/ Ends(p)
       \/ Works(p, {"read", "degrade", "revoke", "withdraw", "reassure", "send",
                    "reply"})
       \/ /\ Works(p, {"record"})
          /\ proc'[p].verdict = "PROTECTED"
          /\ order[Leg(p)].filled > 0

Doubts(p) ==
    /\ At(p, "degrade")
    /\ LeaseStays /\ UNCHANGED <<createIntent, order, shield>>
    /\ Ends(p)
    /\ \/ UNCHANGED outcome
       \/ /\ Authoritative(GrantOf(p))
          /\ createIntent[Leg(p)] # None
          /\ outcome' = [outcome EXCEPT ![Leg(p)] = "PROTECTION_PENDING"]
          /\ halt'.active

Dies(p) ==
    /\ proc[p].step \notin Asleep
    /\ Ends(p) /\ proc'[p].step = "gone"
    /\ Unwritten /\ UNCHANGED journalVars

ProcessStep(p) ==
    \/ Starts(p) \/ Relets(p) \/ Releases(p) \/ Scans(p) \/ Looks(p) \/ Commits(p)
    \/ Tries(p) \/ Dispatches(p) \/ Observes(p) \/ Concludes(p) \/ Records(p)
    \/ Refuses(p) \/ Cancels(p) \/ Doubts(p) \/ Dies(p)

\* An order fills, ends, arrives, and never comes back.
Trades ==
    /\ UNCHANGED <<proc, createIntent, outcome, shield>> /\ UNCHANGED journalVars
    /\ \A l \in Legs : /\ order'[l].filled >= order[l].filled
                       /\ order[l].state \in {"dead", "rejected"}
                             => order'[l] = order[l]

Ages ==
    /\ UNCHANGED <<proc, createIntent, outcome, shield, order, grants, halt>>
    /\ \/ UNCHANGED lease
       \/ lease # None /\ lease' = [lease EXCEPT !.expired = TRUE]

\* Rows the store's operators leave alone.
LEMMA RowsKept ==
    /\ UNCHANGED <<legVars, Exchange>> => Unwritten
    /\ UNCHANGED <<Journals, Exchange>> => Unwritten /\ UNCHANGED journalVars
    BY DEF legVars, Exchange, Journals, Unwritten

\* The parts of GridInv that the lemmas below start from.
LEMMA WorkParts ==
    ASSUME GridInv, NEW p \in Procs
    PROVE  /\ proc \in [Procs -> Proc] /\ proc[p] \in Proc /\ TypeOK /\ LegTypeOK
           /\ order \in [Legs -> Order]
           /\ proc[p].step \in Window \cup {"lease", "check", "evidence", "prepare",
                 "settle", "revoke", "withdraw", "reassure", "send", "reply",
                 "degrade"} => Leg(p) \in Legs
    BY GridInvParts DEF GridInv, GridTypeOK, Placed, AtWork, Window, Leg, Proc, Step

\* An operation starts with the lease.
LEMMA StartMoves ==
    ASSUME GridInv, NEW p \in Procs, Start(p) PROVE Starts(p)
<1>0. /\ proc \in [Procs -> Proc] /\ TypeOK /\ At(p, "idle") /\ Unwritten
      /\ Resting("idle") \in Proc
    BY WorkParts, RowsKept, RestingType DEF Start, Step
<1>1. ASSUME HoldLease(p, [Resting("idle") EXCEPT !.op = "grid"], "scan")
      PROVE  Starts(p)
  <2> DEFINE memory == [Resting("idle") EXCEPT !.op = "grid"]
  <2>1. memory \in Proc /\ memory.op = "grid"
    BY <1>0 DEF Proc
  <2>2. HoldLease(p, memory, "scan")
    BY <1>1
  <2> HIDE DEF memory
  <2> QED
    BY <1>0, <2>1, <2>2, HoldLeaseMoves DEF Starts, Step
<1>2. ASSUME NEW l \in Legs, NEW op \in Offered \cap {"leg", "recover", "cancel"},
             NEW step \in {"check", "read", "settle"}, step = "check" => op = "leg",
             HoldLease(p, [Resting("idle") EXCEPT !.op = op, !.at = l], step)
      PROVE  Starts(p)
  <2> DEFINE memory == [Resting("idle") EXCEPT !.op = op, !.at = l]
  <2>1. memory \in Proc /\ memory.op = op
    BY <1>0 DEF Proc
  <2>2. HoldLease(p, memory, step)
    BY <1>2
  <2> HIDE DEF memory
  <2> QED
    BY <1>0, <1>2, <2>1, <2>2, HoldLeaseMoves DEF Starts, Step
<1>3. CASE HoldLease(p, [Resting("idle") EXCEPT !.op = "grid"], "scan")
    BY <1>1, <1>3
<1>4. CASE ~HoldLease(p, [Resting("idle") EXCEPT !.op = "grid"], "scan")
  <2>1. PICK l \in Legs, op \in Offered \cap {"leg", "recover", "cancel"} :
           HoldLease(p, [Resting("idle") EXCEPT !.op = op, !.at = l],
                 CASE op = "leg" -> "check"
                   [] op = "recover" -> "read"
                   [] op = "cancel" -> "settle")
    BY <1>4 DEF Start
  <2> DEFINE step == CASE op = "leg" -> "check"
                       [] op = "recover" -> "read"
                       [] op = "cancel" -> "settle"
  <2>2. step \in {"check", "read", "settle"} /\ (step = "check" => op = "leg")
    OBVIOUS
  <2>3. HoldLease(p, [Resting("idle") EXCEPT !.op = op, !.at = l], step)
    BY <2>1
  <2> HIDE DEF step
  <2> QED
    BY <1>2, <2>2, <2>3
<1> QED
    BY <1>3, <1>4

\* The next leg gets its lease, or fails without one.
LEMMA ReletMoves ==
    ASSUME GridInv, NEW p \in Procs, Relet(p) PROVE Relets(p) \/ Looks(p)
<1>0. /\ proc \in [Procs -> Proc] /\ proc[p] \in Proc /\ TypeOK /\ At(p, "lease")
      /\ Unwritten
    BY WorkParts, RowsKept DEF Relet
<1>1. ASSUME NEW step \in {"check", "read"}, step = "check" => proc[p].op = "grid",
             HoldLease(p, [proc[p] EXCEPT !.inGrid = TRUE], step)
      PROVE  Relets(p)
  <2> DEFINE memory == [proc[p] EXCEPT !.inGrid = TRUE]
  <2>1. /\ memory \in Proc /\ memory.op = proc[p].op /\ memory.at = proc[p].at
        /\ memory.todo = proc[p].todo /\ memory.doubt = proc[p].doubt
    BY <1>0 DEF Proc
  <2>2. HoldLease(p, memory, step)
    BY <1>1
  <2> HIDE DEF memory
  <2> QED
    BY <1>0, <1>1, <2>1, <2>2, HoldLeaseMoves DEF Relets, Step
<1>2. ASSUME Fail(p), UNCHANGED journalVars PROVE Looks(p)
    BY <1>0, <1>2, FailMoves DEF Looks, At
<1>3. CASE HoldLease(p, [proc[p] EXCEPT !.inGrid = TRUE],
             IF proc[p].op = "grid" THEN "check" ELSE "read")
  <2> DEFINE step == IF proc[p].op = "grid" THEN "check" ELSE "read"
  <2>1. step \in {"check", "read"} /\ (step = "check" => proc[p].op = "grid")
    OBVIOUS
  <2>2. HoldLease(p, [proc[p] EXCEPT !.inGrid = TRUE], step)
    BY <1>3
  <2> HIDE DEF step
  <2> QED
    BY <1>1, <2>1, <2>2
<1> QED
    BY <1>2, <1>3 DEF Relet

\* The release ends an operation.
LEMMA ReleaseMoves ==
    ASSUME GridInv, NEW p \in Procs, Release(p) PROVE Releases(p)
    BY WorkParts, RowsKept, GotoWorks DEF Release, Releases, Step

\* A scan finds sources to sweep over, or none.
LEMMA ScanMoves ==
    ASSUME GridInv, NEW p \in Procs, Scan(p) PROVE Scans(p)
<1>0. /\ proc \in [Procs -> Proc] /\ proc[p] \in Proc /\ At(p, "scan")
      /\ Unwritten /\ UNCHANGED journalVars
    BY WorkParts, RowsKept DEF Scan
<1>1. Goto(p, "idle") => Ends(p)
    BY <1>0, GotoWorks DEF Step
<1>2. Goto(p, "release") => Leaves(p, "release")
    BY <1>0, GotoWorks DEF Step, Works, Leaves
<1>3. ASSUME Go(p, [proc[p] EXCEPT !.at = 1], "lease") PROVE Leaves(p, "lease")
  <2> DEFINE memory == [proc[p] EXCEPT !.at = 1]
  <2>0. 1 \in Legs
    BY LegAssumption DEF Legs
  <2>1. /\ memory \in Proc /\ memory.op = proc[p].op
        /\ memory.grant = proc[p].grant
    BY <1>0, <2>0 DEF Proc
  <2>2. Go(p, memory, "lease")
    BY <1>3
  <2> HIDE DEF memory
  <2> QED
    BY <1>0, <2>1, <2>2, GoFields DEF Leaves, Step
<1>4. ASSUME NEW l \in Sources,
             Go(p, [proc[p] EXCEPT !.op = "sweep", !.at = l,
                       !.found = Sources, !.todo = Sources \ {l}], "lease")
      PROVE  /\ \A q \in Procs \ {p} : proc'[q] = proc[q]
             /\ proc'[p].step = "lease"
             /\ proc'[p].op = "sweep"
             /\ proc'[p].grant = proc[p].grant
             /\ Sources \subseteq proc'[p].todo \cup {proc'[p].at}
  <2> DEFINE memory == [proc[p] EXCEPT !.op = "sweep", !.at = l,
                           !.found = Sources, !.todo = Sources \ {l}]
  <2>1. /\ memory \in Proc /\ memory.op = "sweep" /\ memory.at = l
        /\ memory.grant = proc[p].grant /\ memory.todo = Sources \ {l}
    BY <1>0 DEF Proc, Sources
  <2>2. Go(p, memory, "lease")
    BY <1>4
  <2> HIDE DEF memory
  <2> QED
    BY <1>0, <2>1, <2>2, GoFields DEF Step
<1> QED
    BY <1>0, <1>1, <1>2, <1>3, <1>4 DEF Scan, Scans

\* A leg that is known is reconciled, any other is refused or looked into.
LEMMA CheckMoves ==
    ASSUME GridInv, NEW p \in Procs, Check(p) PROVE Looks(p)
<1>0. /\ proc \in [Procs -> Proc] /\ proc[p] \in Proc /\ At(p, "check")
      /\ Unwritten /\ UNCHANGED journalVars
    BY WorkParts, RowsKept DEF Check
<1>1. ASSUME Go(p, [proc[p] EXCEPT !.inGrid = FALSE], "read") PROVE Looks(p)
  <2> DEFINE memory == [proc[p] EXCEPT !.inGrid = FALSE]
  <2>1. /\ memory \in Proc /\ memory.op = proc[p].op /\ memory.at = proc[p].at
        /\ memory.grant = proc[p].grant /\ memory.todo = proc[p].todo
        /\ memory.doubt = proc[p].doubt
    BY <1>0 DEF Proc
  <2>2. Go(p, memory, "read")
    BY <1>1
  <2> HIDE DEF memory
  <2> QED
    BY <1>0, <2>1, <2>2, GoWorks DEF Looks, Works, At, Step
<1>2. Goto(p, "evidence") => Looks(p)
    BY <1>0, GotoWorks DEF Looks, Works, At, Step
<1>3. Fail(p) => Looks(p)
    BY <1>0, FailMoves DEF Looks, At
<1> QED
    BY <1>1, <1>2, <1>3 DEF Check

\* The evidence is collected, or is not to be had.
LEMMA CollectMoves ==
    ASSUME GridInv, NEW p \in Procs, Collect(p) PROVE Looks(p)
<1>0. /\ proc \in [Procs -> Proc] /\ At(p, "evidence")
      /\ Unwritten /\ UNCHANGED journalVars
    BY WorkParts, RowsKept DEF Collect
<1>1. Goto(p, "prepare") => Looks(p)
    BY <1>0, GotoWorks DEF Looks, Works, At, Step
<1>2. Fail(p) => Looks(p)
    BY <1>0, FailMoves DEF Looks, At
<1> QED
    BY <1>1, <1>2 DEF Collect

\* The intent is committed by who finds none.
LEMMA PrepareMoves ==
    ASSUME GridInv, NEW p \in Procs, Prepare(p) PROVE Commits(p) \/ Looks(p)
<1>0. /\ proc \in [Procs -> Proc] /\ proc[p] \in Proc /\ At(p, "prepare")
      /\ UNCHANGED journalVars /\ UNCHANGED order
    BY WorkParts DEF Prepare, Exchange
<1>1. ASSUME PreparePreparedLegCreate(GrantOf(p), Leg(p)), NEW step \in AfterPrepare(p),
             Goto(p, step)
      PROVE  Commits(p)
  <2>1. step = "revalidate" /\ createIntent[Leg(p)] = None
    BY <1>1 DEF AfterPrepare, PreparePreparedLegCreate, NewSource
  <2>2. Works(p, {"revalidate"})
    BY <1>0, <1>1, <2>1, GotoWorks DEF Step
  <2> QED
    BY <1>0, <1>1, <2>1, <2>2 DEF PreparePreparedLegCreate, Commits
<1>2. ASSUME createIntent[Leg(p)] # None, NEW step \in AfterPrepare(p),
             Go(p, [proc[p] EXCEPT !.inGrid = FALSE], step), UNCHANGED legVars
      PROVE  Looks(p)
  <2> DEFINE memory == [proc[p] EXCEPT !.inGrid = FALSE]
  <2>1. /\ memory \in Proc /\ memory.op = proc[p].op /\ memory.at = proc[p].at
        /\ memory.grant = proc[p].grant /\ memory.todo = proc[p].todo
        /\ memory.doubt = proc[p].doubt
    BY <1>0 DEF Proc
  <2>2. Go(p, memory, "read")
    BY <1>2 DEF AfterPrepare, NewSource
  <2> HIDE DEF memory
  <2>3. Works(p, {"read"})
    BY <1>0, <2>1, <2>2, GoWorks DEF Step
  <2> QED
    BY <1>0, <1>2, <2>3 DEF Looks, Works, At, Unwritten, legVars
<1>3. ASSUME Fail(p), UNCHANGED legVars PROVE Looks(p)
    BY <1>0, <1>3, FailMoves DEF Looks, At, Unwritten, legVars
<1> QED
    BY <1>1, <1>2, <1>3 DEF Prepare

\* The last look before the call.
LEMMA RevalidateMoves ==
    ASSUME GridInv, NEW p \in Procs, Revalidate(p) PROVE Tries(p)
<1>0. proc \in [Procs -> Proc] /\ At(p, "revalidate") /\ UNCHANGED Exchange
    BY WorkParts DEF Revalidate
<1>1. ASSUME Goto(p, "dispatch"), UNCHANGED Journals PROVE Tries(p)
  <2>1. Works(p, {"dispatch"}) /\ Unwritten /\ LeaseStays
    BY <1>0, <1>1, GotoWorks, RowsKept, JournalStill DEF Step
  <2> QED
    BY <1>0, <2>1 DEF Tries, Works, At
<1>2. ASSUME TryHalt(GrantOf(p)), Fail(p), UNCHANGED legVars PROVE Tries(p)
  <2>1. Failed(p) /\ Unwritten /\ LeaseStays /\ (Authoritative(GrantOf(p)) => halt'.active)
    BY <1>0, <1>2, FailMoves, RowsKept, TryHaltMoves
  <2> QED
    BY <1>0, <2>1 DEF Tries, At
<1> QED
    BY <1>1, <1>2 DEF Revalidate

\* The call reaches an exchange that takes an order id once.
LEMMA DispatchMoves ==
    ASSUME GridInv, NEW p \in Procs, Dispatch(p) PROVE Dispatches(p)
<1>0. /\ proc \in [Procs -> Proc] /\ order \in [Legs -> Order] /\ At(p, "dispatch")
      /\ UNCHANGED Journals /\ Leg(p) \in Legs
    BY WorkParts DEF Dispatch, Window, At
<1>1. Works(p, {"ack"})
    BY <1>0, GotoWorks DEF Dispatch, Step
<1>2. \A l \in Legs : /\ order'[l].filled = order[l].filled
                      /\ order[l] # NoOrder => order'[l] = order[l]
  <2>1. CASE order[Leg(p)] = NoOrder
    <3>1. order' = [order EXCEPT ![Leg(p)].state = "flying"]
      BY <2>1 DEF Dispatch
    <3> QED
      BY <1>0, <2>1, <3>1 DEF Order
  <2>2. CASE order[Leg(p)] # NoOrder
    BY <2>2 DEF Dispatch
  <2> QED
    BY <2>1, <2>2
<1> QED
    BY <1>0, <1>1, <1>2 DEF Dispatches, Journals, legVars

\* The attempt is recorded, or HALT is tried.
LEMMA AcknowledgeMoves ==
    ASSUME GridInv, NEW p \in Procs, Acknowledge(p) PROVE Tries(p)
<1>0. proc \in [Procs -> Proc] /\ proc[p] \in Proc /\ At(p, "ack") /\ UNCHANGED Exchange
    BY WorkParts DEF Acknowledge
<1>1. ASSUME NEW force \in BOOLEAN, AppendCreateAttempt(GrantOf(p), Leg(p)),
             Go(p, [proc[p] EXCEPT !.fresh = TRUE, !.force = force], "read"),
             UNCHANGED journalVars
      PROVE  Tries(p)
  <2> DEFINE memory == [proc[p] EXCEPT !.fresh = TRUE, !.force = force]
  <2>1. /\ memory \in Proc /\ memory.op = proc[p].op /\ memory.at = proc[p].at
        /\ memory.grant = proc[p].grant /\ memory.todo = proc[p].todo
        /\ memory.doubt = proc[p].doubt
    BY <1>0 DEF Proc
  <2>2. Go(p, memory, "read")
    BY <1>1
  <2> HIDE DEF memory
  <2>3. Works(p, {"read"})
    BY <1>0, <2>1, <2>2, GoWorks DEF Step
  <2>4. Unwritten /\ LeaseStays
    BY <1>0, <1>1, JournalStill DEF AppendCreateAttempt, Exchange, Unwritten
  <2> QED
    BY <1>0, <2>3, <2>4 DEF Tries, Works, At
<1>2. ASSUME TryHalt(GrantOf(p)), Fail(p), UNCHANGED legVars PROVE Tries(p)
  <2>1. Failed(p) /\ Unwritten /\ LeaseStays /\ (Authoritative(GrantOf(p)) => halt'.active)
    BY <1>0, <1>2, FailMoves, RowsKept, TryHaltMoves
  <2> QED
    BY <1>0, <2>1 DEF Tries, At
<1> QED
    BY <1>1, <1>2 DEF Acknowledge

\* The account state is read, or the reconciliation ends there.
LEMMA ReadStateMoves ==
    ASSUME GridInv, NEW p \in Procs, ReadState(p) PROVE Tries(p)
<1>0. /\ proc \in [Procs -> Proc] /\ proc[p] \in Proc /\ order \in [Legs -> Order]
      /\ At(p, "read") /\ Unwritten
    BY WorkParts, RowsKept DEF ReadState
<1>1. ASSUME NEW pending \in BOOLEAN, UNCHANGED journalVars,
             Go(p, [proc[p] EXCEPT !.seen = order, !.pending = pending], "observe")
      PROVE  Tries(p)
  <2> DEFINE memory == [proc[p] EXCEPT !.seen = order, !.pending = pending]
  <2>1. /\ memory \in Proc /\ memory.op = proc[p].op /\ memory.at = proc[p].at
        /\ memory.grant = proc[p].grant /\ memory.todo = proc[p].todo
        /\ memory.doubt = proc[p].doubt
    BY <1>0, <1>1 DEF Proc
  <2>2. Go(p, memory, "observe")
    BY <1>1
  <2> HIDE DEF memory
  <2>3. Works(p, {"observe"})
    BY <1>0, <2>1, <2>2, GoWorks DEF Step
  <2>4. LeaseStays
    BY <1>1, JournalStill
  <2> QED
    BY <1>0, <2>3, <2>4 DEF Tries, Works, At
<1>2. ASSUME FailReconciling(p), TryHalt(GrantOf(p)) PROVE Tries(p)
  <2>1. /\ Failed(p) \/ Degrades(p)
        /\ LeaseStays /\ (Authoritative(GrantOf(p)) => halt'.active)
    BY <1>0, <1>2, FailReconcilingMoves, TryHaltMoves DEF Degrades
  <2> QED
    BY <1>0, <2>1 DEF Tries, At
<1>3. ASSUME proc[p].op \in {"recover", "sweep"}, Fail(p), UNCHANGED journalVars
      PROVE  Tries(p)
    BY <1>0, <1>3, FailMoves, JournalStill DEF Tries, At
<1>4. (cancelIntent[Leg(p)] # None) \in BOOLEAN
    OBVIOUS
<1> QED
    BY <1>1, <1>2, <1>3, <1>4 DEF ReadState

\* The order can be shown, or the leg is unresolved.
LEMMA ObserveMoves ==
    ASSUME GridInv, NEW p \in Procs, Observe(p) PROVE Observes(p)
<1>0. /\ proc \in [Procs -> Proc] /\ proc[p] \in Proc /\ order \in [Legs -> Order]
      /\ At(p, "observe") /\ Unwritten /\ UNCHANGED journalVars /\ Leg(p) \in Legs
    BY WorkParts, RowsKept DEF Observe, Window, At
<1>1. ASSUME Shown(order[Leg(p)]),
             Go(p, [proc[p] EXCEPT !.proof = order[Leg(p)]], "fills")
      PROVE  Observes(p)
  <2> DEFINE memory == [proc[p] EXCEPT !.proof = order[Leg(p)]]
  <2>1. /\ memory \in Proc /\ memory.op = proc[p].op /\ memory.at = proc[p].at
        /\ memory.grant = proc[p].grant /\ memory.todo = proc[p].todo
        /\ memory.doubt = proc[p].doubt /\ memory.proof = order[Leg(p)]
    BY <1>0 DEF Proc
  <2>2. Go(p, memory, "fills")
    BY <1>1
  <2> HIDE DEF memory
  <2>3. Works(p, {"fills"}) /\ proc'[p].proof = order[Leg(p)]
    BY <1>0, <2>1, <2>2, GoWorks DEF Step
  <2> QED
    BY <1>0, <1>1, <2>3 DEF Observes
<1>2. ASSUME Go(p, Decided(proc[p], "UNRESOLVED"), "record") PROVE Observes(p)
  <2>1. "UNRESOLVED" \in LegStatus /\ "record" \in Step \ {"idle"}
    BY DEF LegStatus, Doubtful, Step
  <2> DEFINE memory == Decided(proc[p], "UNRESOLVED")
  <2>3. /\ memory \in Proc /\ memory.op = proc[p].op /\ memory.at = proc[p].at
        /\ memory.grant = proc[p].grant /\ memory.todo = proc[p].todo
        /\ memory.doubt = proc[p].doubt /\ memory.verdict = "UNRESOLVED"
    BY <1>0, <2>1, DecidedFields
  <2>4. Go(p, memory, "record")
    BY <1>2
  <2> HIDE DEF memory
  <2>2. Works(p, {"record"}) /\ proc'[p].verdict = "UNRESOLVED"
    BY <1>0, <2>1, <2>3, <2>4, GoWorks
  <2> QED
    BY <1>0, <2>2 DEF Observes
<1> QED
    BY <1>1, <1>2 DEF Observe

\* The verdict is reached.
LEMMA ListFillsMoves ==
    ASSUME GridInv, NEW p \in Procs, ListFills(p) PROVE Concludes(p)
<1>0. /\ proc \in [Procs -> Proc] /\ proc[p] \in Proc /\ At(p, "fills")
      /\ UNCHANGED journalVars /\ UNCHANGED Exchange
    BY WorkParts DEF ListFills
<1>1. AppendCreateAttempt(GrantOf(p), Leg(p)) \/ UNCHANGED legVars
    BY DEF ListFills
<1>2. Unwritten
    BY <1>0, <1>1 DEF AppendCreateAttempt, Exchange, legVars, Unwritten
<1>3. PICK fills \in {order[Leg(p)].filled, None}, status \in LegStatus,
           attempted \in BOOLEAN :
        /\ status \in Verdicts(p, fills, attempted)
        /\ Go(p, Decided(proc[p], status), "record")
    BY DEF ListFills
<1>4. Works(p, {"record"}) /\ proc'[p].verdict = status
  <2> DEFINE memory == Decided(proc[p], status)
  <2>1. /\ memory \in Proc /\ memory.op = proc[p].op /\ memory.at = proc[p].at
        /\ memory.grant = proc[p].grant /\ memory.todo = proc[p].todo
        /\ memory.doubt = proc[p].doubt /\ memory.verdict = status
    BY <1>0, <1>3, DecidedFields
  <2>2. Go(p, memory, "record")
    BY <1>3
  <2> HIDE DEF memory
  <2> QED
    BY <1>0, <2>1, <2>2, GoWorks DEF Step
<1>5. /\ status \in ZeroFill => status \in ZeroFillStatus(proc[p].proof)
      /\ status = "PROTECTED" => proc[p].proof.filled > 0
  <2>1. \/ status = "PROTECTED" /\ proc[p].proof.filled > 0
        \/ status = "PROTECTION_PENDING"
        \/ status \in ZeroFillStatus(proc[p].proof)
        \/ status = "UNRESOLVED"
    BY <1>3 DEF Verdicts
  <2>2. ZeroFillStatus(proc[p].proof) \subseteq ZeroFill
    BY DEF ZeroFillStatus, StatusByState, ZeroFill
  <2> QED
    BY <2>1, <2>2 DEF ZeroFill
<1> QED
    BY <1>0, <1>2, <1>4, <1>5 DEF Concludes

\* The result becomes durable, or is refused.
LEMMA RecordMoves ==
    ASSUME GridInv, NEW p \in Procs, Record(p) PROVE Records(p) \/ Refuses(p)
<1>0. /\ proc \in [Procs -> Proc] /\ proc[p] \in Proc /\ At(p, "record")
      /\ UNCHANGED Exchange /\ Leg(p) \in Legs
    BY WorkParts DEF Record, Window, At
<1>1. ASSUME AppendLegReconciliation(GrantOf(p), Leg(p), proc[p].verdict,
                                     proc[p].proof),
             Continue(p, proc[p].verdict)
      PROVE  Records(p)
  <2>1. LeaseStays /\ (proc[p].verdict \in Doubtful => halt'.active)
    BY <1>1 DEF AppendLegReconciliation, ShutsGate, HaltUp, RaiseHaltRow,
       JournalButHalt, LeaseStays, HaltKept
  <2>2. proc[p].verdict \in LegStatus => Continued(p, proc[p].verdict)
    BY <1>0, <1>1, ContinueMoves
  <2> QED
    BY <1>0, <1>1, <2>1, <2>2 DEF AppendLegReconciliation, Records, Exchange
<1>2. ASSUME ~Authoritative(GrantOf(p)), FailReconciling(p), UNCHANGED Journals
      PROVE  Refuses(p)
    BY <1>0, <1>2, FailReconcilingMoves, RowsKept DEF Refuses, Degrades
<1> QED
    BY <1>1, <1>2 DEF Record

\* The steps of a cancel write no result.
LEMMA SettleMoves ==
    ASSUME GridInv, NEW p \in Procs, Settle(p) PROVE Cancels(p)
<1>0. /\ proc \in [Procs -> Proc] /\ proc[p] \in Proc /\ At(p, "settle")
      /\ Unwritten /\ LeaseStays /\ outcome[Leg(p)] \in LegStatus \cup {"none"}
    BY WorkParts, RowsKept, JournalStill DEF Settle, At, LegTypeOK
<1>1. ASSUME NEW force \in BOOLEAN, Go(p, [proc[p] EXCEPT !.force = force], "read")
      PROVE  Works(p, {"read"})
  <2> DEFINE memory == [proc[p] EXCEPT !.force = force]
  <2>1. /\ memory \in Proc /\ memory.op = proc[p].op /\ memory.at = proc[p].at
        /\ memory.grant = proc[p].grant /\ memory.todo = proc[p].todo
        /\ memory.doubt = proc[p].doubt
    BY <1>0 DEF Proc
  <2>2. Go(p, memory, "read")
    BY <1>1
  <2> HIDE DEF memory
  <2> QED
    BY <1>0, <2>1, <2>2, GoWorks DEF Step
<1>2. ASSUME Go(p, [proc[p] EXCEPT !.verdict = outcome[Leg(p)]], "revoke")
      PROVE  Works(p, {"revoke"})
  <2> DEFINE memory == [proc[p] EXCEPT !.verdict = outcome[Leg(p)]]
  <2>1. /\ memory \in Proc /\ memory.op = proc[p].op /\ memory.at = proc[p].at
        /\ memory.grant = proc[p].grant /\ memory.todo = proc[p].todo
        /\ memory.doubt = proc[p].doubt
    BY <1>0 DEF Proc
  <2>2. Go(p, memory, "revoke")
    BY <1>2
  <2> HIDE DEF memory
  <2> QED
    BY <1>0, <2>1, <2>2, GoWorks DEF Step
<1>3. /\ Goto(p, "degrade") => Works(p, {"degrade"})
      /\ Goto(p, "idle") => Ends(p)
    BY <1>0, GotoWorks DEF Step
<1>4. (cancelAttempt[Leg(p)] # "accepted") \in BOOLEAN
    OBVIOUS
<1>5. Works(p, {"read"}) \/ Works(p, {"degrade"}) \/ Works(p, {"revoke"}) \/ Ends(p)
    BY <1>1, <1>2, <1>3, <1>4 DEF Settle
<1> QED
    BY <1>0, <1>5 DEF Cancels, Works, At

\* Nor does the proof a cancel needs, which may be one of fills.
LEMMA ProveMoves ==
    ASSUME GridInv, NEW p \in Procs, Prove(p) PROVE Cancels(p)
<1>0. /\ proc \in [Procs -> Proc] /\ proc[p] \in Proc /\ At(p, "revoke")
      /\ Unwritten /\ LeaseStays /\ order[Leg(p)] \in Order
    BY WorkParts, RowsKept, JournalStill DEF Prove, At
<1>1. ASSUME NEW memory \in Proc, NEW step \in {"withdraw", "read"},
             memory = [Forgetful(proc[p]) EXCEPT !.proof = order[Leg(p)]]
                \/ memory = Forgetful(proc[p]),
             Go(p, memory, step)
      PROVE  Works(p, {step})
  <2>1. /\ memory.op = proc[p].op /\ memory.at = proc[p].at
        /\ memory.grant = proc[p].grant /\ memory.todo = proc[p].todo
        /\ memory.doubt = proc[p].doubt
    BY <1>0, <1>1, ForgetfulFields DEF Proc
  <2>2. step \in Step \ {"idle"}
    BY DEF Step
  <2> QED
    BY <1>0, <1>1, <2>1, <2>2, GoWorks
<1>2. /\ Forgetful(proc[p]) \in Proc
      /\ [Forgetful(proc[p]) EXCEPT !.proof = order[Leg(p)]] \in Proc
    BY <1>0, ForgetfulFields DEF Proc
<1>3. ASSUME Partial(order[Leg(p)]),
             Go(p, Decided([proc[p] EXCEPT !.fresh = TRUE, !.proof = order[Leg(p)]],
                           "PROTECTED"), "record")
      PROVE  /\ Works(p, {"record"})
             /\ proc'[p].verdict = "PROTECTED"
             /\ order[Leg(p)].filled > 0
  <2> DEFINE seen == [proc[p] EXCEPT !.fresh = TRUE, !.proof = order[Leg(p)]]
             memory == Decided(seen, "PROTECTED")
  <2>1. /\ seen \in Proc /\ seen.op = proc[p].op /\ seen.at = proc[p].at
        /\ seen.grant = proc[p].grant /\ seen.todo = proc[p].todo
        /\ seen.doubt = proc[p].doubt
    BY <1>0 DEF Proc
  <2>2. "PROTECTED" \in LegStatus /\ "record" \in Step \ {"idle"}
    BY DEF LegStatus, Step
  <2> HIDE DEF seen
  <2>3. /\ memory \in Proc /\ memory.op = proc[p].op /\ memory.at = proc[p].at
        /\ memory.grant = proc[p].grant /\ memory.todo = proc[p].todo
        /\ memory.doubt = proc[p].doubt /\ memory.verdict = "PROTECTED"
    BY <2>1, <2>2, DecidedFields
  <2>4. Go(p, memory, "record")
    BY <1>3 DEF seen
  <2> HIDE DEF memory
  <2>5. order[Leg(p)].filled > 0
    BY <1>3, LegAssumption DEF Partial
  <2> QED
    BY <1>0, <2>2, <2>3, <2>4, <2>5, GoWorks
<1>4. /\ Goto(p, "degrade") => Works(p, {"degrade"})
      /\ Goto(p, "idle") => Ends(p)
    BY <1>0, GotoWorks DEF Step
<1>5. \/ Works(p, {"withdraw"}) \/ Works(p, {"read"}) \/ Works(p, {"degrade"}) \/ Ends(p)
      \/ /\ Works(p, {"record"})
         /\ proc'[p].verdict = "PROTECTED"
         /\ order[Leg(p)].filled > 0
    BY <1>1, <1>2, <1>3, <1>4 DEF Prove
<1> QED
    BY <1>0, <1>5 DEF Cancels, Works, At

\* Nor the intent of a cancel.
LEMMA WithdrawMoves ==
    ASSUME GridInv, NEW p \in Procs, Withdraw(p) PROVE Cancels(p)
<1>0. /\ proc \in [Procs -> Proc] /\ proc[p] \in Proc /\ At(p, "withdraw")
      /\ LeaseStays /\ UNCHANGED order
    BY WorkParts, JournalStill DEF Withdraw, Exchange
<1>1. Unwritten
    BY <1>0 DEF Withdraw, PreparePreparedLegCancel, legVars, Unwritten
<1>2. ASSUME Go(p, Forgetful(proc[p]), "read") PROVE Works(p, {"read"})
  <2> DEFINE memory == Forgetful(proc[p])
  <2>1. /\ memory \in Proc /\ memory.op = proc[p].op /\ memory.at = proc[p].at
        /\ memory.grant = proc[p].grant /\ memory.todo = proc[p].todo
        /\ memory.doubt = proc[p].doubt
    BY <1>0, ForgetfulFields
  <2>2. Go(p, memory, "read")
    BY <1>2
  <2> HIDE DEF memory
  <2> QED
    BY <1>0, <2>1, <2>2, GoWorks DEF Step
<1>3. /\ Goto(p, "reassure") => Works(p, {"reassure"})
      /\ Goto(p, "idle") => Ends(p)
    BY <1>0, GotoWorks DEF Step
<1>4. Works(p, {"reassure"}) \/ Works(p, {"read"}) \/ Ends(p)
    BY <1>2, <1>3 DEF Withdraw
<1> QED
    BY <1>0, <1>1, <1>4 DEF Cancels, Works, At

\* Nor the last look before its call, and the call.
LEMMA SendMoves ==
    ASSUME GridInv, NEW p \in Procs, Reassure(p) \/ Send(p) PROVE Cancels(p)
<1>0. proc \in [Procs -> Proc]
    BY WorkParts
<1>1. /\ Goto(p, "send") => Works(p, {"send"})
      /\ Goto(p, "reply") => Works(p, {"reply"})
      /\ Goto(p, "idle") => Ends(p)
    BY <1>0, GotoWorks DEF Step
<1>2. ASSUME Reassure(p) PROVE Cancels(p)
  <2>1. Unwritten /\ LeaseStays /\ At(p, "reassure")
    BY <1>2, RowsKept, JournalStill, TryHaltMoves DEF Reassure
  <2>2. Works(p, {"send"}) \/ Ends(p)
    BY <1>1, <1>2 DEF Reassure
  <2> QED
    BY <2>1, <2>2 DEF Cancels, Works, At
<1>3. ASSUME Send(p) PROVE Cancels(p)
  <2>1. Unwritten /\ LeaseStays /\ At(p, "send")
    BY <1>3, JournalStill DEF Send, Journals, legVars, Unwritten
  <2>2. Works(p, {"reply"})
    BY <1>1, <1>3 DEF Send
  <2> QED
    BY <2>1, <2>2 DEF Cancels, Works, At
<1> QED
    BY <1>2, <1>3

\* Nor the answer to it.
LEMMA ReplyMoves ==
    ASSUME GridInv, NEW p \in Procs, Reply(p) PROVE Cancels(p)
<1>0. proc \in [Procs -> Proc] /\ proc[p] \in Proc /\ At(p, "reply") /\ UNCHANGED Exchange
    BY WorkParts DEF Reply
<1>1. ASSUME NEW result \in {"accepted", "ambiguous"},
             AppendCancelAttempt(GrantOf(p), Leg(p), result),
             Go(p, [Forgetful(proc[p]) EXCEPT !.force = result # "accepted"], "read"),
             UNCHANGED journalVars
      PROVE  Cancels(p)
  <2> DEFINE memory == [Forgetful(proc[p]) EXCEPT !.force = result # "accepted"]
  <2>1. /\ Forgetful(proc[p]) \in Proc
        /\ Forgetful(proc[p]).op = proc[p].op /\ Forgetful(proc[p]).at = proc[p].at
        /\ Forgetful(proc[p]).grant = proc[p].grant
        /\ Forgetful(proc[p]).todo = proc[p].todo
        /\ Forgetful(proc[p]).doubt = proc[p].doubt
    BY <1>0, ForgetfulFields
  <2>2. /\ memory \in Proc /\ memory.op = proc[p].op /\ memory.at = proc[p].at
        /\ memory.grant = proc[p].grant /\ memory.todo = proc[p].todo
        /\ memory.doubt = proc[p].doubt
    BY <2>1 DEF Proc
  <2>3. Go(p, memory, "read")
    BY <1>1
  <2> HIDE DEF memory
  <2>4. Works(p, {"read"})
    BY <1>0, <2>2, <2>3, GoWorks DEF Step
  <2>5. Unwritten /\ LeaseStays
    BY <1>0, <1>1, JournalStill DEF AppendCancelAttempt, Exchange, Unwritten
  <2> QED
    BY <1>0, <2>4, <2>5 DEF Cancels, Works, At
<1>2. ASSUME TryHalt(GrantOf(p)), Goto(p, "idle"), UNCHANGED legVars PROVE Cancels(p)
  <2>1. Unwritten /\ LeaseStays
    BY <1>0, <1>2, RowsKept, TryHaltMoves
  <2>2. Ends(p)
    BY <1>0, <1>2, GotoWorks DEF Step
  <2> QED
    BY <1>0, <2>1, <2>2 DEF Cancels, At
<1> QED
    BY <1>1, <1>2 DEF Reply

\* The last protected result is put in doubt, with HALT.
LEMMA DegradeMoves ==
    ASSUME GridInv, NEW p \in Procs, Degrade(p) PROVE Doubts(p)
<1>0. /\ At(p, "degrade") /\ UNCHANGED order /\ Ends(p)
    BY WorkParts, GotoWorks DEF Degrade, Exchange, Step
<1>1. ASSUME AppendLegReconciliation(GrantOf(p), Leg(p), "PROTECTION_PENDING",
                                     shield[Leg(p)])
      PROVE  Doubts(p)
  <2>1. LeaseStays /\ halt'.active
    BY <1>1 DEF AppendLegReconciliation, ShutsGate, Doubtful, HaltUp, RaiseHaltRow,
       JournalButHalt, LeaseStays, HaltKept
  <2> QED
    BY <1>0, <1>1, <2>1 DEF AppendLegReconciliation, Doubts
<1>2. ASSUME UNCHANGED Journals PROVE Doubts(p)
    BY <1>0, <1>2, JournalStill DEF Doubts, Journals, legVars
<1> QED
    BY <1>1, <1>2 DEF Degrade

\* A process dies.
LEMMA CrashMoves ==
    ASSUME GridInv, NEW p \in Procs, Crash(p) PROVE Dies(p)
<1>1. Resting("gone").step = "gone"
    BY RestingType DEF Step
<1>2. Unwritten /\ UNCHANGED journalVars
    BY RowsKept DEF Crash
<1> QED
    BY <1>1, <1>2, WorkParts DEF Crash, Dies, Ends, Asleep

\* The exchange never takes back what happened to an order.
LEMMA ExchangeMoves ==
    ASSUME GridInv, ExchangeStep PROVE Trades
<1>0. /\ UNCHANGED <<proc, createIntent, outcome, shield>> /\ UNCHANGED journalVars
      /\ order \in [Legs -> Order]
    BY DEF ExchangeStep, Journals, legVars, GridInv, GridTypeOK
<1>1. PICK l \in Legs : Arrive(l) \/ Fill(l) \/ End(l)
    BY DEF ExchangeStep
<1>2. order[l].state \in {"flying", "open"} /\ order[l].filled \in Nat
    BY <1>0, <1>1, LegAssumption DEF Arrive, Fill, End, Visible, Order
<1>3. ASSUME NEW state, order' = [order EXCEPT ![l].state = state]
      PROVE  Trades
    BY <1>0, <1>2, <1>3, LegAssumption DEF Trades, Order
<1>4. ASSUME NEW filled \in order[l].filled + 1 .. Full,
             order' = [order EXCEPT ![l].filled = filled]
      PROVE  Trades
    BY <1>0, <1>2, <1>4, LegAssumption DEF Trades, Order
<1> QED
    BY <1>1, <1>3, <1>4 DEF Arrive, Fill, End

\* Every step is of one of these kinds.
LEMMA GridStepKinds ==
    GridInv /\ [Next]_vars => (\E p \in Procs : ProcessStep(p)) \/ Trades \/ Ages
<1> SUFFICES ASSUME GridInv, [Next]_vars
             PROVE  (\E p \in Procs : ProcessStep(p)) \/ Trades \/ Ages
    OBVIOUS
<1>1. ASSUME NEW p \in Procs, CreateStep(p) PROVE ProcessStep(p)
    BY <1>1, StartMoves, ReletMoves, ReleaseMoves, ScanMoves, CheckMoves,
       CollectMoves, PrepareMoves, RevalidateMoves, DispatchMoves, AcknowledgeMoves
    DEF CreateStep, ProcessStep
<1>2. ASSUME NEW p \in Procs, ReconcileStep(p) PROVE ProcessStep(p)
    BY <1>2, ReadStateMoves, ObserveMoves, ListFillsMoves, RecordMoves
    DEF ReconcileStep, ProcessStep
<1>3. ASSUME NEW p \in Procs, CancelStep(p) PROVE ProcessStep(p)
    BY <1>3, SettleMoves, ProveMoves, WithdrawMoves, SendMoves, ReplyMoves,
       DegradeMoves DEF CancelStep, ProcessStep
<1>4. ASSUME NEW p \in Procs, Crash(p) PROVE ProcessStep(p)
    BY <1>4, CrashMoves DEF ProcessStep
<1>5. TimeStep => Ages
    BY DEF TimeStep, ExpireLease, ExpireApproval, legVars, Exchange, Ages
<1>6. UNCHANGED vars => Ages
    BY DEF vars, journalVars, legVars, Ages
<1>7. CASE \E p \in Procs : CreateStep(p) \/ ReconcileStep(p) \/ CancelStep(p)
                             \/ Crash(p)
    BY <1>1, <1>2, <1>3, <1>4, <1>7
<1>8. CASE ExchangeStep
    BY <1>8, ExchangeMoves
<1> QED
    BY <1>5, <1>6, <1>7, <1>8 DEF Next

-----------------------------------------------------------------------------
\* Who holds the lease

\* A failure or a recorded result moves its own process only, and keeps its grant.
LEMMA OutcomesMove ==
    ASSUME NEW p \in Procs, NEW status,
           Failed(p) \/ Degrades(p) \/ Continued(p, status)
    PROVE  /\ \A q \in Procs \ {p} : proc'[q] = proc[q]
           /\ proc'[p].step \in Asleep \cup {"lease", "release", "degrade", "withdraw"}
           /\ \/ proc'[p].step \in Asleep
              \/ proc'[p].grant = proc[p].grant /\ proc'[p].op = proc[p].op
    BY DEF Failed, Degrades, Continued, Ends, Leaves

\* A step of a process leaves the memories of the others alone.
LEMMA OthersStay ==
    ASSUME VerdictsKnown, NEW p \in Procs, ProcessStep(p)
    PROVE  \A q \in Procs \ {p} : proc'[q] = proc[q]
<1>1. CASE Looks(p) \/ Tries(p) \/ Refuses(p) \/ Records(p)
    BY <1>1, OutcomesMove DEF Looks, Tries, Refuses, Records, Works, VerdictsKnown
<1> QED
    BY <1>1 DEF ProcessStep, Starts, Relets, Releases, Scans, Commits, Dispatches,
       Observes, Concludes, Cancels, Doubts, Dies, Works, Ends, Leaves

\* The lease is had at a start or for the next leg, or released, and is left
\* alone otherwise.
LEMMA LeaseChanges ==
    ASSUME NEW p \in Procs, ProcessStep(p)
    PROVE  \/ LeaseHad(p) /\ (Starts(p) \/ Relets(p))
           \/ LeaseStays
           \/ Releases(p) /\ ReleaseLease(GrantOf(p))
<1>1. CASE Starts(p) \/ Relets(p)
    BY <1>1 DEF Starts, Relets
<1>2. CASE Releases(p)
    BY <1>2, JournalStill DEF Releases
<1>3. CASE \/ Scans(p) \/ Looks(p) \/ Commits(p) \/ Dispatches(p) \/ Observes(p)
           \/ Concludes(p) \/ Refuses(p) \/ Dies(p)
    BY <1>3, JournalStill DEF Scans, Looks, Commits, Dispatches, Observes, Concludes,
       Refuses, Dies
<1>4. CASE Tries(p) \/ Records(p) \/ Cancels(p) \/ Doubts(p)
    BY <1>4 DEF Tries, Records, Cancels, Doubts
<1> QED
    BY <1>1, <1>2, <1>3, <1>4 DEF ProcessStep

\* Who is at work after its step keeps its grant, or got one with the lease.
LEMMA GrantChanges ==
    ASSUME VerdictsKnown, NEW p \in Procs, ProcessStep(p)
    PROVE  \/ proc'[p].step \in Asleep
           \/ proc[p].step \notin Asleep /\ proc'[p].grant = proc[p].grant
           \/ LeaseHad(p) /\ proc'[p].grant = Len(grants')
<1>1. CASE Starts(p) \/ Relets(p)
    BY <1>1 DEF Starts, Relets
<1>2. CASE Looks(p) \/ Tries(p) \/ Refuses(p) \/ Records(p)
    BY <1>2, OutcomesMove
    DEF Looks, Tries, Refuses, Records, Works, VerdictsKnown, At, Asleep
<1>3. CASE \/ Releases(p) \/ Scans(p) \/ Commits(p) \/ Dispatches(p) \/ Observes(p)
           \/ Concludes(p) \/ Cancels(p) \/ Doubts(p) \/ Dies(p)
    BY <1>3 DEF Releases, Scans, Commits, Dispatches, Observes, Concludes, Cancels,
       Doubts, Dies, Works, Ends, Leaves, At, Asleep
<1> QED
    BY <1>1, <1>2, <1>3 DEF ProcessStep

\* What is about to be recorded after a step is a result.
LEMMA VerdictChanges ==
    ASSUME VerdictsKnown, NEW p \in Procs, ProcessStep(p)
    PROVE  proc'[p].step = "record" =>
              \/ /\ Observes(p)
                 /\ proc'[p].verdict = "UNRESOLVED"
              \/ Concludes(p) /\ proc'[p].verdict \in LegStatus
              \/ /\ Cancels(p)
                 /\ proc'[p].verdict = "PROTECTED" /\ proc'[p].at = Leg(p)
                 /\ order[Leg(p)].filled > 0
<1>1. CASE Looks(p) \/ Tries(p) \/ Refuses(p) \/ Records(p)
    BY <1>1, OutcomesMove DEF Looks, Tries, Refuses, Records, Works, VerdictsKnown,
       Asleep
<1>2. CASE \/ Starts(p) \/ Relets(p) \/ Releases(p) \/ Scans(p) \/ Commits(p)
           \/ Dispatches(p) \/ Doubts(p) \/ Dies(p)
    BY <1>2 DEF Starts, Relets, Releases, Scans, Commits, Dispatches, Doubts, Dies,
       Works, Ends, Leaves, Asleep
<1>3. CASE Observes(p) \/ Concludes(p)
    BY <1>3 DEF Observes, Concludes, Works
<1>4. CASE Cancels(p)
    BY <1>4 DEF Cancels, Works, Ends, Asleep, Leg
<1> QED
    BY <1>1, <1>2, <1>3, <1>4 DEF ProcessStep

\* What the creators of orders are keeps.
LEMMA CreatorsStep ==
    ASSUME VerdictsKnown, CreatorsCreate, NEW p \in Procs, ProcessStep(p)
    PROVE  CreatorsCreate'
<1> DEFINE Creators == {"check", "evidence", "prepare", "revalidate", "dispatch",
                        "ack"}
<1>1. proc'[p].step \in Creators => proc'[p].op \in {"grid", "leg"}
  <2>1. CASE Starts(p) \/ Relets(p)
    BY <2>1 DEF Starts, Relets
  <2>2. CASE Looks(p) \/ Tries(p)
    <3>1. CASE Works(p, {"read", "evidence", "prepare", "dispatch", "observe"})
      <4>1. proc'[p].op = proc[p].op
        BY <3>1 DEF Works
      <4>2. proc'[p].step \in Creators => proc[p].step \in Creators
        BY <2>2, <3>1 DEF Looks, Tries, Works, Failed, Degrades, Ends, Leaves, At, Asleep
      <4> QED
        BY <4>1, <4>2 DEF CreatorsCreate
    <3>2. CASE Failed(p) \/ Degrades(p)
      BY <3>2 DEF Failed, Degrades, Ends, Leaves, Asleep
    <3> QED
      BY <2>2, <3>1, <3>2 DEF Looks, Tries, Works
  <2>3. CASE Commits(p) \/ Dispatches(p)
    BY <2>3 DEF Commits, Dispatches, Works, CreatorsCreate, At
  <2>4. CASE Refuses(p) \/ Records(p)
    BY <2>4, OutcomesMove DEF Refuses, Records, VerdictsKnown, Asleep
  <2>5. CASE \/ Releases(p) \/ Scans(p) \/ Observes(p) \/ Concludes(p) \/ Cancels(p)
             \/ Doubts(p) \/ Dies(p)
    BY <2>5 DEF Releases, Scans, Observes, Concludes, Cancels, Doubts, Dies, Works,
       Ends, Leaves, Asleep
  <2> QED
    BY <2>1, <2>2, <2>3, <2>4, <2>5 DEF ProcessStep
<1>2. \A q \in Procs \ {p} : proc'[q] = proc[q]
    BY OthersStay
<1> QED
    BY <1>1, <1>2 DEF CreatorsCreate

\* A lease that was had is that of the last grant, which its process has.
LEMMA LeaseHadIsLast ==
    ASSUME TypeOK, LeaseIsLast, NEW p \in Procs, LeaseHad(p)
    PROVE  /\ LeaseIsLast'
           /\ lease' # None /\ lease'.owner = RunOf[p] /\ ~lease'.expired
           /\ grants'[Len(grants')].owner = RunOf[p]
           /\ Len(grants') \in 1 .. Len(grants') /\ Len(grants) <= Len(grants')
           /\ \A g \in 1 .. Len(grants) : grants'[g] = grants[g]
<1>0. /\ RunOf[p] \in Runs /\ grants \in Seq(Grant) /\ Len(grants) \in Nat
      /\ lease # None => lease \in Lease
    BY ProcessAssumption DEF TypeOK
<1>1. CASE HeldByRun(p) /\ UNCHANGED <<lease, grants, halt>>
    BY <1>0, <1>1 DEF HeldByRun, LeaseIsLast
<1>2. ASSUME NEW epoch \in Epoch, NEW takeover \in BOOLEAN,
             grants' = Append(grants, [owner |-> RunOf[p], epoch |-> epoch,
                                       takeover |-> takeover])
      PROVE  /\ grants'[Len(grants')].owner = RunOf[p]
             /\ grants'[Len(grants')].epoch = epoch
             /\ Len(grants') = Len(grants) + 1
             /\ \A g \in 1 .. Len(grants) : grants'[g] = grants[g]
  <2>1. [owner |-> RunOf[p], epoch |-> epoch, takeover |-> takeover] \in Grant
    BY <1>0 DEF Grant
  <2> QED
    BY <1>0, <1>2, <2>1
<1>3. ASSUME NEW epoch \in Epoch, NEW recon \in BOOLEAN,
             lease' = [owner |-> RunOf[p], epoch |-> epoch, expired |-> FALSE,
                       recon |-> recon]
      PROVE  /\ lease' # None /\ lease'.owner = RunOf[p] /\ lease'.epoch = epoch
             /\ ~lease'.expired /\ lease'.recon = recon
  <2>1. lease' \in Lease
    BY <1>0, <1>3 DEF Lease
  <2> QED
    BY <1>3, <2>1, LeaseAssumption
<1>4. CASE /\ lease = None
           /\ lease' = [owner |-> RunOf[p], epoch |-> FirstEpoch, expired |-> FALSE,
                        recon |-> FALSE]
           /\ grants' = Append(grants, [owner |-> RunOf[p], epoch |-> FirstEpoch,
                                        takeover |-> FALSE])
  <2>1. FirstEpoch \in Epoch
    BY DEF FirstEpoch, Epoch
  <2>2. /\ grants'[Len(grants')].owner = RunOf[p]
        /\ grants'[Len(grants')].epoch = FirstEpoch
        /\ Len(grants') = Len(grants) + 1
        /\ \A g \in 1 .. Len(grants) : grants'[g] = grants[g]
    BY <1>2, <1>4, <2>1
  <2>3. /\ lease' # None /\ lease'.owner = RunOf[p] /\ lease'.epoch = FirstEpoch
        /\ ~lease'.expired
    BY <1>3, <1>4, <2>1
  <2> QED
    BY <1>0, <2>2, <2>3 DEF LeaseIsLast
<1>5. CASE /\ lease # None /\ lease.expired
           /\ lease' = [owner |-> RunOf[p], epoch |-> lease.epoch + 1,
                        expired |-> FALSE, recon |-> TRUE]
           /\ grants' = Append(grants, [owner |-> RunOf[p], epoch |-> lease.epoch + 1,
                                        takeover |-> TRUE])
  <2>1. lease.epoch + 1 \in Epoch
    BY <1>0, <1>5 DEF Lease, Epoch
  <2>2. /\ grants'[Len(grants')].owner = RunOf[p]
        /\ grants'[Len(grants')].epoch = lease.epoch + 1
        /\ Len(grants') = Len(grants) + 1
        /\ \A g \in 1 .. Len(grants) : grants'[g] = grants[g]
    BY <1>2, <1>5, <2>1
  <2>3. /\ lease' # None /\ lease'.owner = RunOf[p] /\ lease'.epoch = lease.epoch + 1
        /\ ~lease'.expired
    BY <1>3, <1>5, <2>1
  <2> QED
    BY <1>0, <2>2, <2>3 DEF LeaseIsLast
<1> QED
    BY <1>1, <1>4, <1>5 DEF LeaseHad

\* The lease a release gives up, or that expires, was that of the last grant.
LEMMA LeaseEndsAsLast ==
    ASSUME TypeOK, LeaseIsLast, UNCHANGED grants,
           \/ UNCHANGED lease \/ lease' = None
           \/ lease # None /\ lease' = [lease EXCEPT !.expired = TRUE]
    PROVE  LeaseIsLast'
<1>1. CASE lease # None /\ lease' = [lease EXCEPT !.expired = TRUE]
  <2>1. lease \in Lease
    BY <1>1 DEF TypeOK
  <2>2. lease'.owner = lease.owner /\ lease'.epoch = lease.epoch
    BY <1>1, <2>1 DEF Lease
  <2> QED
    BY <1>1, <2>2 DEF LeaseIsLast
<1> QED
    BY <1>1 DEF LeaseIsLast

\* The parts of HolderInv.
LEMMA HolderParts ==
    ASSUME HolderInv
    PROVE  GridInv /\ TypeOK /\ proc \in [Procs -> Proc] /\ order \in [Legs -> Order]
           /\ LegTypeOK
    BY GridInvParts DEF HolderInv, CallInv, GridInv, GridTypeOK

\* Where processes and grants stay, the rest of it stays.
LEMMA HolderRests ==
    ASSUME HolderInv, UNCHANGED <<proc, grants>>
    PROVE  GrantsAreOwn' /\ VerdictsKnown' /\ CreatorsCreate'
    BY DEF HolderInv, GrantsAreOwn, VerdictsKnown, CreatorsCreate, At, GrantOf

\* Initially nobody holds anything.
LEMMA HolderInit == Init => HolderInv
<1> SUFFICES ASSUME Init PROVE HolderInv
    OBVIOUS
<1>1. CallInv
    BY CallInit
<1>2. LeaseIsLast
    BY DEF Init, JournalInit, LeaseIsLast
<1>3. \A p \in Procs : proc[p].step = "idle"
    BY RestingType DEF Init, Step
<1> QED
    BY <1>1, <1>2, <1>3 DEF HolderInv, GrantsAreOwn, VerdictsKnown, CreatorsCreate, At,
       Asleep

\* Whoever works does so under a grant of its own run, and the lease is that of
\* the last grant, after every step.
LEMMA HolderStep == HolderInv /\ [Next]_vars => HolderInv'
<1> SUFFICES ASSUME HolderInv, [Next]_vars PROVE HolderInv'
    OBVIOUS
<1>1. CallInv'
    BY CallStep DEF HolderInv
<1>2. GridInv /\ TypeOK /\ LeaseIsLast /\ VerdictsKnown /\ CreatorsCreate
    BY HolderParts DEF HolderInv
<1>3. ASSUME NEW p \in Procs, ProcessStep(p) PROVE HolderInv'
  <2>1. CreatorsCreate'
    BY <1>2, <1>3, CreatorsStep
  <2>2. \A q \in Procs \ {p} : proc'[q] = proc[q]
    BY <1>2, <1>3, OthersStay
  <2>3. VerdictsKnown'
    <3>1. proc'[p].step = "record" => proc'[p].verdict \in LegStatus
      BY <1>2, <1>3, VerdictChanges DEF LegStatus, Doubtful
    <3> QED
      BY <1>2, <2>2, <3>1 DEF VerdictsKnown, At
  <2>4. LeaseIsLast' /\ (grants' = grants \/ LeaseHad(p))
    <3>1. CASE LeaseHad(p)
      BY <1>2, <3>1, LeaseHadIsLast
    <3>2. CASE LeaseStays \/ ReleaseLease(GrantOf(p))
      BY <1>2, <3>2, LeaseEndsAsLast DEF LeaseStays, ReleaseLease
    <3> QED
      BY <1>3, <3>1, <3>2, LeaseChanges
  <2>5. ASSUME NEW q \in Procs, NEW g, g \in 1 .. Len(grants), grants[g].owner = RunOf[q]
        PROVE  g \in 1 .. Len(grants') /\ grants'[g].owner = RunOf[q]
    <3>1. CASE grants' = grants
      BY <2>5, <3>1
    <3>2. CASE LeaseHad(p)
      <4>1. /\ Len(grants) <= Len(grants') /\ Len(grants) \in Nat /\ Len(grants') \in Nat
            /\ \A h \in 1 .. Len(grants) : grants'[h] = grants[h]
        BY <1>2, <1>1, <3>2, LeaseHadIsLast, GridInvParts
        DEF TypeOK, CallInv, GridInv, GridTypeOK, LegTypeOK
      <4> QED
        BY <2>5, <4>1
    <3> QED
      BY <2>4, <3>1, <3>2
  <2>6. GrantsAreOwn'
    <3>1. ASSUME NEW q \in Procs \ {p}, proc'[q].step \notin Asleep
          PROVE  /\ proc'[q].grant \in 1 .. Len(grants')
                 /\ grants'[proc'[q].grant].owner = RunOf[q]
      BY <2>2, <2>5, <3>1 DEF HolderInv, GrantsAreOwn, GrantOf
    <3>2. ASSUME proc'[p].step \notin Asleep
          PROVE  /\ proc'[p].grant \in 1 .. Len(grants')
                 /\ grants'[proc'[p].grant].owner = RunOf[p]
      <4>1. CASE proc[p].step \notin Asleep /\ proc'[p].grant = proc[p].grant
        BY <2>5, <4>1 DEF HolderInv, GrantsAreOwn, GrantOf
      <4>2. CASE LeaseHad(p) /\ proc'[p].grant = Len(grants')
        BY <1>2, <4>2, LeaseHadIsLast
      <4> QED
        BY <1>2, <1>3, <3>2, <4>1, <4>2, GrantChanges
    <3> QED
      BY <3>1, <3>2 DEF GrantsAreOwn, GrantOf
  <2> QED
    BY <1>1, <2>1, <2>3, <2>4, <2>6 DEF HolderInv
<1>4. CASE Trades
  <2>1. LeaseIsLast' /\ UNCHANGED <<proc, grants>>
    BY <1>2, <1>4, LeaseEndsAsLast DEF Trades, journalVars
  <2> QED
    BY <1>1, <2>1, HolderRests DEF HolderInv
<1>5. CASE Ages
  <2>1. LeaseIsLast' /\ UNCHANGED <<proc, grants>>
    BY <1>2, <1>5, LeaseEndsAsLast DEF Ages
  <2> QED
    BY <1>1, <2>1, HolderRests DEF HolderInv
<1> QED
    BY <1>2, <1>3, <1>4, <1>5, GridStepKinds

-----------------------------------------------------------------------------
\* An order that is over stays over

OverInv == HolderInv /\ DeadAreOver

\* Only a call and the exchange itself change an order, and neither one that ended.
LEMMA OrdersKept ==
    ASSUME NEW p \in Procs, ProcessStep(p)
    PROVE  /\ UNCHANGED order \/ Dispatches(p)
           /\ \A l \in Legs : order[l].state \in {"dead", "rejected"}
                                 => order'[l] = order[l]
<1>1. UNCHANGED order \/ Dispatches(p)
    BY DEF ProcessStep, Unwritten, Starts, Relets, Releases, Scans, Looks, Commits,
       Tries, Observes, Concludes, Records, Refuses, Cancels, Doubts, Dies
<1>2. \A l \in Legs : order[l].state \in {"dead", "rejected"} => order[l] # NoOrder
    BY DEF NoOrder
<1> QED
    BY <1>1, <1>2 DEF Dispatches

\* Only a recorded result and a doubt change what is recorded of a leg.
LEMMA ResultsKept ==
    ASSUME NEW p \in Procs, ProcessStep(p)
    PROVE  UNCHANGED <<outcome, shield>> \/ Records(p) \/ Doubts(p)
    BY DEF ProcessStep, Unwritten, Starts, Relets, Releases, Scans, Looks, Commits,
       Tries, Dispatches, Observes, Concludes, Refuses, Cancels, Dies

\* An order is examined only after it has been shown.
LEMMA FillsChanges ==
    ASSUME VerdictsKnown, NEW p \in Procs, ProcessStep(p)
    PROVE  proc'[p].step = "fills" =>
              /\ Observes(p)
              /\ proc'[p].proof = order[Leg(p)]
              /\ Shown(order[Leg(p)])
              /\ proc'[p].at = Leg(p)
<1>1. CASE Looks(p) \/ Tries(p) \/ Refuses(p) \/ Records(p)
    BY <1>1, OutcomesMove DEF Looks, Tries, Refuses, Records, Works, VerdictsKnown,
       Asleep
<1>2. CASE \/ Starts(p) \/ Relets(p) \/ Releases(p) \/ Scans(p) \/ Commits(p)
           \/ Dispatches(p) \/ Concludes(p) \/ Cancels(p) \/ Doubts(p) \/ Dies(p)
    BY <1>2 DEF Starts, Relets, Releases, Scans, Commits, Dispatches, Concludes,
       Cancels, Doubts, Dies, Works, Ends, Leaves, Asleep
<1>3. CASE Observes(p)
    BY <1>3 DEF Observes, Works, Leg
<1> QED
    BY <1>1, <1>2, <1>3 DEF ProcessStep

\* A conclusion that the order is over is drawn from an order that is.
LEMMA ConcludedOver ==
    ASSUME HolderInv, DeadAreOver, NEW p \in Procs, Concludes(p),
           proc'[p].verdict \in Dead
    PROVE  Over(order[Leg(p)])
<1> DEFINE o == proc[p].proof
<1>1. /\ o \in Order
      /\ Shown(o)
      /\ o.state \in {"dead", "rejected"} => order[Leg(p)] = o
    BY HolderParts DEF Concludes, DeadAreOver, At, Proc
<1>2. proc'[p].verdict \in ZeroFillStatus(o)
    BY DEF Concludes, Dead, ZeroFill
<1>3. o.filled = 0 /\ proc'[p].verdict \in StatusByState(o)
    BY <1>1, <1>2, LegAssumption DEF ZeroFillStatus, Order
<1>4. o.state \in {"dead", "rejected"}
  <2>1. o.state # "open"
    BY <1>3 DEF StatusByState, Dead
  <2> QED
    BY <1>1, <2>1 DEF Shown, Order
<1> QED
    BY <1>1, <1>3, <1>4 DEF Over

\* What was concluded of an order that is over stays true of it.
LEMMA DeadStep == OverInv /\ [Next]_vars => DeadAreOver'
<1> SUFFICES ASSUME OverInv, [Next]_vars PROVE DeadAreOver'
    OBVIOUS
<1>1. HolderInv /\ GridInv /\ VerdictsKnown /\ DeadAreOver
    BY HolderParts DEF OverInv, HolderInv
<1>2. ASSUME \A l \in Legs : order[l].state \in {"dead", "rejected"}
                                => order'[l] = order[l],
             NEW l, Over(order[l]), l \in Legs
      PROVE  Over(order'[l])
    BY <1>2 DEF Over
<1>3. \A q \in Procs : At(q, "record") \/ At(q, "fills") => Leg(q) \in Legs
    BY <1>1, WorkParts DEF Window, At
<1>4. ASSUME NEW p \in Procs, ProcessStep(p) PROVE DeadAreOver'
  <2>1. /\ \A q \in Procs \ {p} : proc'[q] = proc[q]
        /\ \A l \in Legs : order[l].state \in {"dead", "rejected"}
                              => order'[l] = order[l]
    BY <1>1, <1>4, OthersStay, OrdersKept
  <2>2. \A l \in Legs : outcome'[l] \in Dead => Over(order'[l])
    <3>1. CASE UNCHANGED outcome
      BY <1>1, <1>2, <2>1, <3>1 DEF DeadAreOver
    <3>2. CASE Records(p) \/ Doubts(p)
      <4>1. outcome \in [Legs -> LegStatus \cup {"none"}]
        BY <1>1, HolderParts DEF LegTypeOK
      <4>2. At(p, "record") /\ proc[p].verdict \in Dead => Over(order[Leg(p)])
        BY <1>1 DEF DeadAreOver
      <4>3. \A l \in Legs : outcome'[l] \in Dead =>
               \/ outcome[l] \in Dead
               \/ l = Leg(p) /\ At(p, "record") /\ proc[p].verdict \in Dead
        BY <3>2, <4>1 DEF Records, Doubts, Dead
      <4>4. \A l \in Legs : outcome'[l] \in Dead => Over(order[l])
        BY <1>1, <4>2, <4>3 DEF DeadAreOver
      <4> QED
        BY <1>2, <2>1, <4>4
    <3> QED
      BY <1>4, <3>1, <3>2, ResultsKept
  <2>3. \A q \in Procs : proc'[q].step = "record" /\ proc'[q].verdict \in Dead
                             => Over(order'[proc'[q].at])
    <3>1. ASSUME NEW q \in Procs \ {p}, proc'[q].step = "record",
                 proc'[q].verdict \in Dead
          PROVE  Over(order'[proc'[q].at])
      <4>1. Leg(q) \in Legs /\ Over(order[Leg(q)]) /\ proc'[q].at = Leg(q)
        BY <1>1, <1>3, <2>1, <3>1 DEF DeadAreOver, At, Leg
      <4> QED
        BY <1>2, <2>1, <4>1
    <3>2. ASSUME proc'[p].step = "record", proc'[p].verdict \in Dead
          PROVE  Over(order'[proc'[p].at])
      <4>1. Concludes(p)
        BY <1>1, <1>4, <3>2, VerdictChanges DEF Dead
      <4>2. Over(order[Leg(p)]) /\ Leg(p) \in Legs /\ proc'[p].at = Leg(p)
        BY <1>1, <1>3, <3>2, <4>1, ConcludedOver DEF Concludes, Works, Leg
      <4> QED
        BY <1>2, <2>1, <4>2
    <3> QED
      BY <3>1, <3>2
  <2>4. \A q \in Procs : proc'[q].step = "fills" =>
           /\ Shown(proc'[q].proof)
           /\ proc'[q].proof.state \in {"dead", "rejected"}
                 => order'[proc'[q].at] = proc'[q].proof
    <3>1. ASSUME NEW q \in Procs \ {p}, proc'[q].step = "fills"
          PROVE  /\ Shown(proc'[q].proof)
                 /\ proc'[q].proof.state \in {"dead", "rejected"}
                       => order'[proc'[q].at] = proc'[q].proof
      BY <1>1, <1>3, <2>1, <3>1 DEF DeadAreOver, At, Leg
    <3>2. ASSUME proc'[p].step = "fills"
          PROVE  /\ Shown(proc'[p].proof)
                 /\ proc'[p].proof.state \in {"dead", "rejected"}
                       => order'[proc'[p].at] = proc'[p].proof
      <4>1. /\ Observes(p) /\ proc'[p].proof = order[Leg(p)]
            /\ Shown(order[Leg(p)]) /\ proc'[p].at = Leg(p)
        BY <1>1, <1>4, <3>2, FillsChanges
      <4>2. UNCHANGED order
        BY <4>1 DEF Observes, Unwritten
      <4> QED
        BY <4>1, <4>2
    <3> QED
      BY <3>1, <3>2
  <2> QED
    BY <2>2, <2>3, <2>4 DEF DeadAreOver, At, Leg
<1>5. CASE Trades \/ Ages
  <2>1. /\ UNCHANGED <<proc, outcome>>
        /\ \A l \in Legs : order[l].state \in {"dead", "rejected"}
                              => order'[l] = order[l]
    BY <1>5 DEF Trades, Ages
  <2>2. \A l \in Legs : outcome'[l] \in Dead => Over(order'[l])
    BY <1>1, <1>2, <2>1 DEF DeadAreOver
  <2>3. \A q \in Procs : At(q, "record") /\ proc[q].verdict \in Dead
                            => Over(order'[Leg(q)])
    BY <1>1, <1>2, <1>3, <2>1 DEF DeadAreOver
  <2>4. \A q \in Procs : At(q, "fills") =>
           /\ Shown(proc[q].proof)
           /\ proc[q].proof.state \in {"dead", "rejected"}
                 => order'[Leg(q)] = proc[q].proof
    BY <1>1, <1>3, <2>1 DEF DeadAreOver
  <2> QED
    BY <2>1, <2>2, <2>3, <2>4 DEF DeadAreOver, At, Leg
<1> QED
    BY <1>1, <1>4, <1>5, GridStepKinds

\* A result which says that an order is over and unfilled stays true: whoever
\* recorded it, and whatever is recorded later, the exchange has no order of that
\* leg that is live or filled.
THEOREM OverStaysOver == Spec => []OverMeansOver
<1>1. Init => OverInv
  <2>1. ASSUME Init PROVE \A p \in Procs : proc[p].step = "idle"
    BY <2>1, RestingType DEF Init, Step
  <2>2. Init => \A l \in Legs : outcome[l] = "none"
    BY DEF Init, LegInit
  <2> QED
    BY <2>1, <2>2, HolderInit DEF OverInv, DeadAreOver, At, Dead
<1>2. OverInv /\ [Next]_vars => OverInv'
    BY HolderStep, DeadStep DEF OverInv
<1>3. OverInv => OverMeansOver
    BY DEF OverInv, DeadAreOver, Over, Dead, OverMeansOver
<1> QED
    BY <1>1, <1>2, <1>3, PTL DEF Spec

-----------------------------------------------------------------------------
\* No leg is forgotten

SeenInv == HolderInv /\ PendingSeen

\* HALT is never lowered.
LEMMA HaltStays ==
    ASSUME NEW p \in Procs, ProcessStep(p), ~halt'.active
    PROVE  ~halt.active /\ UNCHANGED halt
<1>1. CASE LeaseHad(p)
    BY <1>1 DEF LeaseHad
<1>2. CASE LeaseStays
    BY <1>2 DEF LeaseStays, HaltKept
<1>3. CASE ReleaseLease(GrantOf(p))
    BY <1>3 DEF ReleaseLease
<1> QED
    BY <1>1, <1>2, <1>3, LeaseChanges

\* Who works under the epoch of an unexpired lease of its run has its authority.
LEMMA WorkerIsAuthoritative ==
    ASSUME HolderInv, NEW p \in Procs, proc[p].step \notin Asleep,
           lease # None, ~lease.expired, lease.owner = RunOf[p],
           grants[GrantOf(p)].epoch = lease.epoch
    PROVE  Authoritative(GrantOf(p))
    BY DEF HolderInv, GrantsAreOwn, Authoritative

\* Authority is that of the process's own run.
LEMMA AuthorityIsOwn ==
    ASSUME HolderInv, NEW p \in Procs, proc[p].step \notin Asleep,
           Authoritative(GrantOf(p))
    PROVE  /\ lease # None /\ ~lease.expired /\ lease.owner = RunOf[p]
           /\ lease.epoch = grants[GrantOf(p)].epoch
           /\ grants[GrantOf(p)].owner = RunOf[p]
    BY DEF HolderInv, GrantsAreOwn, Authoritative

\* A process between the intent of its leg and the result stays there, dies,
\* records the result or raises HALT, as long as it has the lease.
LEMMA SeerStays ==
    ASSUME HolderInv, NEW p \in Procs, ProcessStep(p), ~halt'.active,
           Authoritative(GrantOf(p)), proc[p].step \in Window,
           proc[p].op \in {"grid", "leg"}
    PROVE  /\ LeaseStays
           /\ \/ proc'[p].step = "gone"
              \/ /\ proc'[p].step \in Window
                 /\ proc'[p].at = proc[p].at
                 /\ proc'[p].op = proc[p].op
                 /\ proc'[p].grant = proc[p].grant
              \/ /\ Records(p)
                 /\ proc[p].verdict \in LegStatus \ Doubtful
<1>1. /\ ~At(p, "idle") /\ ~At(p, "lease") /\ ~At(p, "release") /\ ~At(p, "scan")
      /\ ~At(p, "prepare") /\ ~At(p, "degrade")
      /\ proc[p].step \notin {"lease", "check", "evidence", "prepare"}
      /\ proc[p].step \notin {"settle", "revoke", "withdraw", "reassure", "send",
                              "reply"}
    BY DEF Window, At
<1>2. \/ Tries(p) \/ Dispatches(p) \/ Observes(p) \/ Concludes(p) \/ Records(p)
      \/ Dies(p)
    BY <1>1 DEF ProcessStep, Starts, Relets, Releases, Scans, Looks, Commits, Refuses,
       Cancels, Doubts
<1>3. LeaseStays
    BY <1>2, JournalStill DEF Tries, Dispatches, Observes, Concludes, Records, Dies
<1>4. CASE Tries(p)
    BY <1>3, <1>4 DEF Tries, Works, Window
<1>5. CASE Dispatches(p) \/ Observes(p) \/ Concludes(p)
    BY <1>3, <1>5 DEF Dispatches, Observes, Concludes, Works, Window
<1>6. CASE Records(p)
    BY <1>3, <1>6 DEF Records, HolderInv, VerdictsKnown
<1>7. CASE Dies(p)
    BY <1>3, <1>7 DEF Dies
<1> QED
    BY <1>2, <1>3, <1>4, <1>5, <1>6, <1>7

\* A leg that was pending stays in the hands it is in.
LEMMA PendingStays ==
    ASSUME SeenInv, NEW p \in Procs, ProcessStep(p), ~halt'.active,
           NEW l \in Legs, Pending(l), createIntent'[l] # None, ~Accounted(l)'
    PROVE  /\ lease' = lease
           /\ lease # None
           /\ lease.owner = createIntent[l].run
           /\ lease.epoch = createIntent[l].epoch
           /\ \/ lease.expired
              \/ \A q \in Procs : RunOf[q] = lease.owner =>
                    At(q, "gone")' \/ Sees(q, l)'
<1>1. HolderInv /\ PendingSeen /\ GridInv /\ VerdictsKnown
    BY HolderParts DEF SeenInv, HolderInv
<1>2. /\ lease # None
      /\ lease.owner = createIntent[l].run
      /\ lease.epoch = createIntent[l].epoch
      /\ \/ lease.expired
         \/ \A q \in Procs : RunOf[q] = lease.owner => At(q, "gone") \/ Sees(q, l)
    BY <1>1, HaltStays DEF PendingSeen
<1>3. ~At(p, "gone")
    BY DEF ProcessStep, Starts, Relets, Releases, Scans, Looks, Commits, Tries,
       Dispatches, Observes, Concludes, Records, Refuses, Cancels, Doubts, Dies, At,
       Asleep
<1>4. ~lease.expired /\ RunOf[p] = lease.owner =>
         Sees(p, l) /\ Authoritative(GrantOf(p))
  <2> SUFFICES ASSUME ~lease.expired, RunOf[p] = lease.owner
               PROVE  Sees(p, l) /\ Authoritative(GrantOf(p))
    OBVIOUS
  <2>1. Sees(p, l)
    BY <1>2, <1>3
  <2>2. proc[p].step \notin Asleep
    BY <2>1 DEF Sees, Window, Asleep
  <2> QED
    BY <1>1, <1>2, <2>1, <2>2, WorkerIsAuthoritative DEF Sees
<1>5. LeaseStays
  <2>1. CASE LeaseHad(p) /\ (Starts(p) \/ Relets(p))
    <3>1. HeldByRun(p)
      BY <1>2, <2>1 DEF LeaseHad
    <3>2. Sees(p, l)
      BY <1>4, <3>1 DEF HeldByRun
    <3> QED
      BY <2>1, <3>2 DEF Sees, Window, Starts, Relets, At
  <2>2. CASE Releases(p) /\ ReleaseLease(GrantOf(p))
    <3>1. Authoritative(GrantOf(p)) /\ At(p, "release")
      BY <2>2 DEF Releases, ReleaseLease
    <3>2. ~lease.expired /\ lease.owner = RunOf[p]
      BY <1>1, <3>1, AuthorityIsOwn DEF At, Asleep
    <3> QED
      BY <1>4, <3>1, <3>2 DEF Sees, Window, At
  <2> QED
    BY <2>1, <2>2, LeaseChanges
<1>6. ASSUME ~lease.expired, NEW q \in Procs, RunOf[q] = lease.owner
      PROVE  At(q, "gone")' \/ Sees(q, l)'
  <2>1. lease' = lease /\ grants' = grants
    BY <1>5 DEF LeaseStays
  <2>2. At(q, "gone") \/ Sees(q, l)
    BY <1>2, <1>6
  <2>3. CASE q # p
    <3>1. proc'[q] = proc[q]
      BY <1>1, <2>3, OthersStay
    <3> QED
      BY <2>1, <2>2, <3>1 DEF At, Sees, Leg, GrantOf
  <2>4. CASE q = p
    <3>1. Sees(p, l) /\ Authoritative(GrantOf(p))
      BY <1>4, <1>6, <2>4
    <3>2. CASE /\ proc'[p].step \in Window
               /\ proc'[p].at = proc[p].at
               /\ proc'[p].op = proc[p].op
               /\ proc'[p].grant = proc[p].grant
      BY <2>1, <2>4, <3>1, <3>2 DEF Sees, Leg, GrantOf
    <3>3. CASE Records(p) /\ proc[p].verdict \in LegStatus \ Doubtful
      <4>1. outcome'[l] = proc[p].verdict
        BY <1>1, <3>1, <3>3, HolderParts DEF Records, Sees, LegTypeOK
      <4> QED
        BY <3>3, <4>1 DEF Accounted, LegStatus
    <3> QED
      BY <1>1, <2>4, <3>1, <3>2, <3>3, SeerStays DEF Sees, At
  <2> QED
    BY <2>3, <2>4
<1> QED
    BY <1>2, <1>5, <1>6 DEF LeaseStays

\* A leg comes to be pending by the commit of its intent, under the lease of the
\* process that commits it.
LEMMA PendingBegins ==
    ASSUME OwnRuns, SeenInv, NEW p \in Procs, ProcessStep(p), ~halt'.active,
           NEW l \in Legs, ~Pending(l), Pending(l)'
    PROVE  /\ lease' = lease
           /\ lease # None
           /\ lease.owner = createIntent'[l].run
           /\ lease.epoch = createIntent'[l].epoch
           /\ \A q \in Procs : RunOf[q] = lease.owner => Sees(q, l)'
<1>1. HolderInv /\ VerdictsKnown /\ CreatorsCreate /\ LegTypeOK
    BY HolderParts DEF SeenInv, HolderInv
<1>2. Commits(p) /\ l = Leg(p)
  <2>1. CASE UNCHANGED outcome
    <3>1. createIntent'[l] # createIntent[l]
      BY <2>1 DEF Pending, Accounted
    <3>2. Commits(p)
      BY <3>1 DEF ProcessStep, Unwritten, Starts, Relets, Releases, Scans, Looks, Tries,
         Dispatches, Observes, Concludes, Records, Refuses, Cancels, Doubts, Dies
    <3> QED
      BY <1>1, <3>1, <3>2 DEF Commits, LegTypeOK
  <2>2. CASE Records(p)
    <3>1. proc[p].verdict \in LegStatus \ Doubtful
      BY <1>1, <2>2 DEF Records, VerdictsKnown
    <3>2. proc[p].verdict \in {"PROTECTED"} \cup ZeroFill
      BY <3>1 DEF LegStatus
    <3> QED
      BY <1>1, <2>2, <3>2 DEF Records, Pending, Accounted, LegTypeOK
  <2>3. CASE Doubts(p) /\ ~UNCHANGED outcome
    BY <2>3 DEF Doubts
  <2> QED
    BY <2>1, <2>2, <2>3, ResultsKept
<1>3. /\ At(p, "prepare") /\ Authoritative(GrantOf(p)) /\ UNCHANGED <<lease, grants>>
      /\ Works(p, {"revalidate"}) /\ proc[p].step \notin Asleep
      /\ createIntent'[l] = [run |-> grants[GrantOf(p)].owner,
                             epoch |-> grants[GrantOf(p)].epoch]
    BY <1>1, <1>2 DEF Commits, CreateAllowed, journalVars, LegTypeOK, At, Asleep
<1>4. /\ lease # None /\ lease.owner = RunOf[p]
      /\ lease.epoch = grants[GrantOf(p)].epoch
      /\ grants[GrantOf(p)].owner = RunOf[p]
    BY <1>1, <1>3, AuthorityIsOwn
<1>5. proc[p].op \in {"grid", "leg"}
    BY <1>1, <1>3 DEF CreatorsCreate, At
<1>6. Sees(p, l)'
    BY <1>2, <1>3, <1>4, <1>5 DEF Sees, Works, Window, Leg, GrantOf
<1>7. \A q \in Procs : RunOf[q] = lease.owner => q = p
    BY <1>4 DEF OwnRuns
<1> QED
    BY <1>3, <1>4, <1>6, <1>7

\* While HALT is down a pending leg is in the hands of who committed its intent,
\* after every step.
LEMMA PendingStep == OwnRuns /\ SeenInv /\ [Next]_vars => PendingSeen'
<1> SUFFICES ASSUME OwnRuns, SeenInv, [Next]_vars, ~halt'.active,
                    NEW l \in Legs, Pending(l)'
             PROVE  /\ lease' # None
                    /\ lease'.owner = createIntent'[l].run
                    /\ lease'.epoch = createIntent'[l].epoch
                    /\ \/ lease'.expired
                       \/ \A q \in Procs : RunOf[q] = lease'.owner =>
                             At(q, "gone")' \/ Sees(q, l)'
    BY DEF PendingSeen
<1>1. HolderInv /\ GridInv /\ TypeOK
    BY HolderParts DEF SeenInv
<1>2. ASSUME NEW p \in Procs, ProcessStep(p)
      PROVE  /\ lease' # None
             /\ lease'.owner = createIntent'[l].run
             /\ lease'.epoch = createIntent'[l].epoch
             /\ \/ lease'.expired
                \/ \A q \in Procs : RunOf[q] = lease'.owner =>
                      At(q, "gone")' \/ Sees(q, l)'
  <2>1. CASE Pending(l)
    <3>1. createIntent'[l] # None /\ ~Accounted(l)'
      BY DEF Pending
    <3>2. createIntent'[l] = createIntent[l]
      <4>1. CASE Commits(p)
        BY <1>1, <2>1, <4>1, HolderParts DEF Commits, Pending, LegTypeOK
      <4>2. CASE ~Commits(p)
        BY <1>2, <4>2 DEF ProcessStep, Unwritten, Starts, Relets, Releases, Scans, Looks,
           Tries, Dispatches, Observes, Concludes, Records, Refuses, Cancels, Doubts, Dies
      <4> QED
        BY <4>1, <4>2
    <3>3. /\ lease' = lease
          /\ lease # None
          /\ lease.owner = createIntent[l].run
          /\ lease.epoch = createIntent[l].epoch
          /\ \/ lease.expired
             \/ \A q \in Procs : RunOf[q] = lease.owner =>
                   At(q, "gone")' \/ Sees(q, l)'
      BY <1>2, <2>1, <3>1, PendingStays
    <3> QED
      BY <3>2, <3>3
  <2>2. CASE ~Pending(l)
    BY <1>2, <2>2, PendingBegins
  <2> QED
    BY <2>1, <2>2
<1>3. ASSUME Trades \/ Ages
      PROVE  /\ lease' # None
             /\ lease'.owner = createIntent'[l].run
             /\ lease'.epoch = createIntent'[l].epoch
             /\ \/ lease'.expired
                \/ \A q \in Procs : RunOf[q] = lease'.owner =>
                      At(q, "gone")' \/ Sees(q, l)'
  <2>1. /\ UNCHANGED <<proc, createIntent, outcome, grants, halt>>
        /\ \/ UNCHANGED lease
           \/ lease # None /\ lease' = [lease EXCEPT !.expired = TRUE]
    BY <1>3 DEF Trades, Ages, journalVars
  <2>2. Pending(l) /\ ~halt.active
    BY <2>1 DEF Pending, Accounted
  <2>3. /\ lease # None
        /\ lease.owner = createIntent[l].run
        /\ lease.epoch = createIntent[l].epoch
        /\ \/ lease.expired
           \/ \A q \in Procs : RunOf[q] = lease.owner => At(q, "gone") \/ Sees(q, l)
    BY <2>2 DEF SeenInv, PendingSeen
  <2>4. CASE UNCHANGED lease
    BY <2>1, <2>3, <2>4 DEF At, Sees, Leg, GrantOf
  <2>5. CASE lease' = [lease EXCEPT !.expired = TRUE]
    <3>1. lease \in Lease
      BY <1>1, <2>3 DEF TypeOK
    <3>2. lease' \in Lease /\ lease'.owner = lease.owner /\ lease'.epoch = lease.epoch
          /\ lease'.expired
      BY <2>5, <3>1 DEF Lease
    <3> QED
      BY <2>1, <2>3, <3>2, LeaseAssumption
  <2> QED
    BY <2>1, <2>4, <2>5
<1> QED
    BY <1>1, <1>2, <1>3, GridStepKinds

\* While HALT is down, a leg that was ever intended is accounted for or still under
\* the lease of the run that intended it: neither a crash between the intent, the
\* call and the answer, nor a restart under another run id, ends in an open gate
\* and a free lease.
THEOREM NoLegIsForgotten == ASSUME OwnRuns PROVE Spec => []NoForgottenLeg
<1>1. Init => SeenInv
  <2>1. Init => \A l \in Legs : createIntent[l] = None
    BY DEF Init, LegInit
  <2> QED
    BY <2>1, HolderInit DEF SeenInv, PendingSeen, Pending
<1>2. SeenInv /\ [Next]_vars => SeenInv'
    BY HolderStep, PendingStep DEF SeenInv
<1>3. SeenInv => NoForgottenLeg
    BY DEF SeenInv, PendingSeen, Pending, NoForgottenLeg
<1> QED
    BY <1>1, <1>2, <1>3, PTL DEF Spec

-----------------------------------------------------------------------------
\* Fills are never forgotten

FillInv == HolderInv /\ FillsTrue

\* An order that was filled stays filled.
LEMMA FillsGrow ==
    ASSUME HolderInv, [Next]_vars, NEW l \in Legs, order[l].filled > 0
    PROVE  order'[l].filled > 0
<1>1. GridInv /\ order \in [Legs -> Order] /\ order' \in [Legs -> Order]
  <2>1. HolderInv'
    BY HolderStep
  <2> QED
    BY <2>1, HolderParts DEF HolderInv, CallInv, GridInv, GridTypeOK
<1>2. order[l].filled \in Int /\ order'[l].filled \in Int
    BY <1>1, LegAssumption DEF Order
<1>3. CASE \E p \in Procs : ProcessStep(p)
    BY <1>2, <1>3, OrdersKept DEF Dispatches
<1>4. CASE Trades
    BY <1>2, <1>4 DEF Trades
<1>5. CASE Ages
    BY <1>5 DEF Ages
<1> QED
    BY <1>1, <1>3, <1>4, <1>5, GridStepKinds

\* Who has the authority of its lease after a step, and is not the one that got
\* it, had it before.
LEMMA AuthorityIsHad ==
    ASSUME OwnRuns, HolderInv, HolderInv', NEW p \in Procs, ProcessStep(p),
           NEW q \in Procs, proc'[q].step \notin Asleep, Authoritative(GrantOf(q))'
    PROVE  \/ q = p /\ (Starts(p) \/ Relets(p))
           \/ LeaseStays
<1>1. CASE LeaseHad(p) /\ (Starts(p) \/ Relets(p))
  <2>1. lease'.owner = RunOf[p]
    BY <1>1, LeaseHadIsLast DEF HolderInv, CallInv, GridInv, GridTypeOK, LegTypeOK
  <2>2. lease'.owner = RunOf[q]
    BY DEF HolderInv, GrantsAreOwn, Authoritative
  <2>3. q = p
    BY <2>1, <2>2 DEF OwnRuns
  <2> QED
    BY <1>1, <2>3
<1>2. CASE ReleaseLease(GrantOf(p))
    BY <1>2 DEF ReleaseLease, Authoritative
<1> QED
    BY <1>1, <1>2, LeaseChanges

\* The same authority, where the lease stays and the process keeps its grant.
LEMMA AuthorityStays ==
    ASSUME LeaseStays, NEW q \in Procs, proc'[q].grant = proc[q].grant
    PROVE  Authoritative(GrantOf(q))' <=> Authoritative(GrantOf(q))
    BY DEF LeaseStays, Authoritative, GrantOf

\* A recorded fill stays recorded.
LEMMA ShieldStep ==
    ASSUME FillInv, [Next]_vars, NEW l \in Legs, shield'[l] # None
    PROVE  order'[l].filled > 0 /\ outcome'[l] \notin ZeroFill
<1>1. HolderInv /\ FillsTrue /\ GridInv /\ LegTypeOK /\ VerdictsKnown
    BY HolderParts DEF FillInv, HolderInv
<1>2. shield[l] # None => order[l].filled > 0 /\ outcome[l] \notin ZeroFill
    BY <1>1 DEF FillsTrue
<1>3. order[l].filled > 0 => order'[l].filled > 0
    BY <1>1, FillsGrow
<1>4. ASSUME NEW p \in Procs, Records(p)
      PROVE  order[l].filled > 0 /\ outcome'[l] \notin ZeroFill
  <2>1. /\ At(p, "record") /\ Authoritative(GrantOf(p)) /\ Leg(p) \in Legs
        /\ proc[p].verdict = "PROTECTED" => order[Leg(p)].filled > 0
        /\ proc[p].verdict \in ZeroFill => shield[Leg(p)] = None
    BY <1>1, <1>4, WorkParts DEF Records, FillsTrue, Window, At
  <2>2. CASE l = Leg(p) /\ proc[p].verdict = "PROTECTED"
    BY <1>1, <1>4, <2>1, <2>2 DEF Records, LegTypeOK, ZeroFill
  <2>3. CASE l = Leg(p) /\ proc[p].verdict # "PROTECTED"
    <3>1. shield[l] # None /\ outcome'[l] = proc[p].verdict
      BY <1>1, <1>4, <2>3 DEF Records, LegTypeOK
    <3> QED
      BY <1>2, <2>1, <2>3, <3>1
  <2>4. CASE l # Leg(p)
    <3>1. shield'[l] = shield[l] /\ outcome'[l] = outcome[l]
      BY <1>1, <1>4, <2>4 DEF Records, LegTypeOK
    <3> QED
      BY <1>2, <3>1
  <2> QED
    BY <2>2, <2>3, <2>4
<1>5. ASSUME NEW p \in Procs, Doubts(p)
      PROVE  order[l].filled > 0 /\ outcome'[l] \notin ZeroFill
    BY <1>1, <1>2, <1>5 DEF Doubts, LegTypeOK, ZeroFill
<1>6. CASE UNCHANGED <<outcome, shield>>
    BY <1>2, <1>3, <1>6
<1>7. CASE \E p \in Procs : ProcessStep(p)
    BY <1>3, <1>4, <1>5, <1>6, <1>7, ResultsKept
<1>8. CASE Trades \/ Ages
    BY <1>6, <1>8 DEF Trades, Ages
<1> QED
    BY <1>1, <1>7, <1>8, GridStepKinds

\* What a process examines or is about to record stays true of its order.
LEMMA ProofStep ==
    ASSUME FillInv, [Next]_vars, NEW q \in Procs
    PROVE  /\ proc'[q].step = "record" /\ proc'[q].verdict = "PROTECTED"
                => order'[proc'[q].at].filled > 0
           /\ proc'[q].step = "fills" /\ proc'[q].proof.filled > 0
                => order'[proc'[q].at].filled > 0
<1>1. HolderInv /\ FillsTrue /\ GridInv /\ VerdictsKnown
    BY HolderParts DEF FillInv, HolderInv
<1>2. /\ At(q, "record") /\ proc[q].verdict = "PROTECTED"
            => order[Leg(q)].filled > 0
      /\ At(q, "fills") /\ proc[q].proof.filled > 0 => order[Leg(q)].filled > 0
      /\ At(q, "record") \/ At(q, "fills") \/ At(q, "observe") => Leg(q) \in Legs
    BY <1>1, WorkParts DEF FillsTrue, Window, At
<1>3. Leg(q) \in Legs /\ order[Leg(q)].filled > 0 => order'[Leg(q)].filled > 0
    BY <1>1, FillsGrow
<1>4. CASE proc'[q] = proc[q]
    BY <1>2, <1>3, <1>4 DEF At, Leg
<1>5. CASE ProcessStep(q)
  <2>1. ASSUME proc'[q].step = "record", proc'[q].verdict = "PROTECTED"
        PROVE  order'[proc'[q].at].filled > 0
    <3>1. \/ Concludes(q)
          \/ /\ Cancels(q)
             /\ proc'[q].at = Leg(q) /\ order[Leg(q)].filled > 0
      BY <1>1, <1>5, <2>1, VerdictChanges
    <3>2. CASE Concludes(q)
      <4>1. At(q, "fills") /\ proc[q].proof.filled > 0 /\ proc'[q].at = Leg(q)
        BY <2>1, <3>2 DEF Concludes, Works, Leg
      <4> QED
        BY <1>2, <1>3, <4>1
    <3>3. CASE /\ Cancels(q)
               /\ proc'[q].at = Leg(q) /\ order[Leg(q)].filled > 0
      <4>1. Leg(q) \in Legs
        BY <1>1, <3>3, WorkParts DEF Cancels
      <4> QED
        BY <1>3, <3>3, <4>1
    <3> QED
      BY <3>1, <3>2, <3>3
  <2>2. ASSUME proc'[q].step = "fills", proc'[q].proof.filled > 0
        PROVE  order'[proc'[q].at].filled > 0
    <3>1. /\ At(q, "observe") /\ proc'[q].proof = order[Leg(q)]
          /\ proc'[q].at = Leg(q)
      BY <1>1, <1>5, <2>2, FillsChanges DEF Observes
    <3> QED
      BY <1>2, <1>3, <2>2, <3>1
  <2> QED
    BY <2>1, <2>2
<1>6. CASE \E p \in Procs : ProcessStep(p)
    BY <1>1, <1>4, <1>5, <1>6, OthersStay
<1>7. CASE Trades \/ Ages
    BY <1>4, <1>7 DEF Trades, Ages
<1> QED
    BY <1>1, <1>6, <1>7, GridStepKinds

\* Who holds the lease over an unfilled order has no fill of it recorded.
Unshielded(q) ==
    /\ At(q, "fills") /\ proc[q].proof.filled = 0 => shield[Leg(q)] = None
    /\ At(q, "record") /\ proc[q].verdict \in ZeroFill => shield[Leg(q)] = None

\* It has none after its own step either.
LEMMA OwnStepUnshielded ==
    ASSUME FillInv, NEW p \in Procs, ProcessStep(p), LeaseStays,
           Authoritative(GrantOf(p))'
    PROVE  Unshielded(p)'
<1>1. HolderInv /\ FillsTrue /\ GridInv /\ VerdictsKnown
    BY HolderParts DEF FillInv, HolderInv
<1>2. ASSUME proc'[p].step = "fills", proc'[p].proof.filled = 0
      PROVE  shield'[proc'[p].at] = None
  <2>1. /\ Observes(p) /\ proc'[p].proof = order[Leg(p)] /\ proc'[p].at = Leg(p)
    BY <1>1, <1>2, FillsChanges
  <2>2. UNCHANGED shield /\ Leg(p) \in Legs
    BY <1>1, <2>1, WorkParts DEF Observes, Unwritten, Window, At
  <2>3. shield[Leg(p)] # None => order[Leg(p)].filled > 0
    BY <1>1, <2>2 DEF FillsTrue
  <2> QED
    BY <1>2, <2>1, <2>2, <2>3
<1>3. ASSUME proc'[p].step = "record", proc'[p].verdict \in ZeroFill
      PROVE  shield'[proc'[p].at] = None
  <2>1. Concludes(p)
    BY <1>1, <1>3, VerdictChanges DEF ZeroFill
  <2>2. /\ At(p, "fills") /\ UNCHANGED shield /\ proc'[p].at = Leg(p)
        /\ proc'[p].grant = proc[p].grant
        /\ proc'[p].verdict \in ZeroFillStatus(proc[p].proof)
    BY <1>3, <2>1 DEF Concludes, Unwritten, Works, Leg
  <2>3. proc[p].proof.filled = 0
    <3>1. proc[p].proof \in Order
      BY <1>1, WorkParts DEF Proc
    <3> QED
      BY <2>2, <3>1, LegAssumption DEF ZeroFillStatus, Order
  <2>4. Authoritative(GrantOf(p))
    BY <2>2, AuthorityStays
  <2> QED
    BY <1>1, <2>2, <2>3, <2>4 DEF FillsTrue
<1> QED
    BY <1>2, <1>3 DEF Unshielded, At, Leg

\* Nor does another process record one, which would have to hold the lease too.
LEMMA OtherStepUnshielded ==
    ASSUME OwnRuns, FillInv, NEW p \in Procs, ProcessStep(p), LeaseStays,
           NEW q \in Procs \ {p}, proc'[q] = proc[q], Authoritative(GrantOf(q))'
    PROVE  Unshielded(q)'
<1>1. HolderInv /\ FillsTrue /\ GridInv
    BY HolderParts DEF FillInv
<1>2. Authoritative(GrantOf(q))
    BY AuthorityStays
<1>3. CASE At(q, "fills") \/ At(q, "record")
  <2>1. Unshielded(q)
    BY <1>1, <1>2 DEF FillsTrue, Unshielded
  <2>2. lease.owner = RunOf[q]
    BY <1>1, <1>2, <1>3, AuthorityIsOwn DEF At, Asleep
  <2>3. ~Records(p)
    <3>1. ASSUME Records(p) PROVE FALSE
      <4>1. lease.owner = RunOf[p]
        BY <1>1, <3>1, AuthorityIsOwn DEF Records, At, Asleep
      <4> QED
        BY <2>2, <4>1 DEF OwnRuns
    <3> QED
      BY <3>1
  <2>4. UNCHANGED shield
    BY <2>3, ResultsKept DEF Doubts
  <2> QED
    BY <2>1, <2>4 DEF Unshielded, At, Leg
<1>4. CASE ~(At(q, "fills") \/ At(q, "record"))
    BY <1>4 DEF Unshielded, At
<1> QED
    BY <1>3, <1>4

\* What is recorded and concluded of fills stays true, after every step.
LEMMA FillsStep == OwnRuns /\ FillInv /\ [Next]_vars => FillsTrue'
<1> SUFFICES ASSUME OwnRuns, FillInv, [Next]_vars PROVE FillsTrue'
    OBVIOUS
<1>1. HolderInv /\ FillsTrue /\ GridInv /\ VerdictsKnown
    BY HolderParts DEF FillInv, HolderInv
<1>2. HolderInv'
    BY <1>1, HolderStep
<1>3. ASSUME NEW q \in Procs, Authoritative(GrantOf(q))' PROVE Unshielded(q)'
  <2>1. CASE \E p \in Procs : ProcessStep(p)
    <3>1. PICK p \in Procs : ProcessStep(p)
      BY <2>1
    <3>2. CASE LeaseStays
      BY <1>1, <1>3, <3>1, <3>2, OthersStay, OwnStepUnshielded, OtherStepUnshielded
    <3>3. CASE q = p /\ (Starts(p) \/ Relets(p))
      BY <3>3 DEF Starts, Relets, Unshielded, At
    <3>4. CASE proc'[q].step \in Asleep
      BY <3>4 DEF Unshielded, At, Asleep
    <3> QED
      BY <1>1, <1>2, <1>3, <3>1, <3>2, <3>3, <3>4, AuthorityIsHad
  <2>2. CASE Trades \/ Ages
    <3>1. UNCHANGED <<proc, shield, grants>>
      BY <2>2 DEF Trades, Ages, journalVars
    <3>2. UNCHANGED lease
      <4>1. ASSUME lease # None, lease' = [lease EXCEPT !.expired = TRUE] PROVE FALSE
        <5>1. lease \in Lease
          BY <1>1, <4>1, HolderParts DEF TypeOK
        <5>2. lease'.expired
          BY <4>1, <5>1 DEF Lease
        <5> QED
          BY <1>3, <5>2 DEF Authoritative
      <4> QED
        BY <2>2, <4>1 DEF Trades, Ages, journalVars
    <3>3. Authoritative(GrantOf(q))
      BY <1>3, <3>1, <3>2 DEF Authoritative, GrantOf
    <3>4. Unshielded(q)
      BY <1>1, <3>3 DEF FillsTrue, Unshielded
    <3> QED
      BY <3>1, <3>4 DEF Unshielded, At, Leg
  <2> QED
    BY <1>1, <2>1, <2>2, GridStepKinds
<1>4. \A l \in Legs : shield'[l] # None => order'[l].filled > 0 /\ outcome'[l] \notin ZeroFill
    BY ShieldStep
<1>5. \A q \in Procs :
         /\ proc'[q].step = "record" /\ proc'[q].verdict = "PROTECTED"
                => order'[proc'[q].at].filled > 0
         /\ proc'[q].step = "fills" /\ proc'[q].proof.filled > 0
                => order'[proc'[q].at].filled > 0
    BY ProofStep
<1> QED
    BY <1>3, <1>4, <1>5 DEF FillsTrue, Unshielded, At, Leg

\* A fill that was recorded is never forgotten: no later result of the leg says
\* that its order is unfilled.
THEOREM FillsAreRemembered == ASSUME OwnRuns PROVE Spec => []FillsStayKnown
<1>1. Init => FillInv
  <2>1. ASSUME Init PROVE \A p \in Procs : proc[p].step = "idle"
    BY <2>1, RestingType DEF Init, Step
  <2>2. Init => \A l \in Legs : shield[l] = None
    BY DEF Init, LegInit
  <2> QED
    BY <2>1, <2>2, HolderInit DEF FillInv, FillsTrue, At
<1>2. FillInv /\ [Next]_vars => FillInv'
    BY HolderStep, FillsStep DEF FillInv
<1>3. FillInv => FillsStayKnown
    BY DEF FillInv, FillsTrue, FillsStayKnown
<1> QED
    BY <1>1, <1>2, <1>3, PTL DEF Spec

-----------------------------------------------------------------------------
\* A doubt keeps the lease

DoubtInv == HolderInv /\ HolderAlone /\ DoubtsRemembered /\ OpsOffered

\* Who is asleep does nothing but start.
LEMMA SleepersStart ==
    ASSUME NEW p \in Procs, ProcessStep(p), proc[p].step \in Asleep
    PROVE  Starts(p)
    BY DEF ProcessStep, Relets, Releases, Scans, Looks, Commits, Tries, Dispatches,
       Observes, Concludes, Records, Refuses, Cancels, Doubts, Dies, At, Asleep

\* An operation on one leg remains what it was when it started.
LEMMA OpsStep ==
    ASSUME VerdictsKnown, OpsOffered, NEW p \in Procs, ProcessStep(p)
    PROVE  OpsOffered'
<1>1. \/ proc'[p].step \in Asleep
      \/ proc'[p].op \in {"grid", "sweep"} \cup Offered
      \/ proc[p].step \notin Asleep /\ proc'[p].op = proc[p].op
  <2>1. CASE Starts(p) \/ Relets(p)
    BY <2>1 DEF Starts, Relets, At, Asleep
  <2>2. CASE Looks(p) \/ Tries(p) \/ Refuses(p) \/ Records(p)
    BY <2>2, OutcomesMove
    DEF Looks, Tries, Refuses, Records, Works, VerdictsKnown, At, Asleep
  <2>3. CASE \/ Releases(p) \/ Scans(p) \/ Commits(p) \/ Dispatches(p) \/ Observes(p)
             \/ Concludes(p) \/ Cancels(p) \/ Doubts(p) \/ Dies(p)
    BY <2>3 DEF Releases, Scans, Commits, Dispatches, Observes, Concludes, Cancels,
       Doubts, Dies, Works, Ends, Leaves, At, Asleep
  <2> QED
    BY <2>1, <2>2, <2>3 DEF ProcessStep
<1>2. \A q \in Procs \ {p} : proc'[q] = proc[q]
    BY OthersStay
<1> QED
    BY <1>1, <1>2 DEF OpsOffered

\* A lease that is held goes on as it is where its run renews it; a free one is the
\* first of its run; one that was taken over demands reconciliation.
LEMMA LeaseHadKinds ==
    ASSUME HolderInv, NEW p \in Procs, LeaseHad(p)
    PROVE  /\ lease' # None /\ lease'.owner = RunOf[p]
           /\ \/ lease # None /\ lease' = lease
              \/ lease = None
              \/ lease'.recon
<1>1. TypeOK /\ LeaseIsLast
    BY HolderParts DEF HolderInv
<1>2. lease' # None /\ lease'.owner = RunOf[p]
    BY <1>1, LeaseHadIsLast
<1>3. ASSUME lease # None, lease.expired,
             lease' = [owner |-> RunOf[p], epoch |-> lease.epoch + 1,
                       expired |-> FALSE, recon |-> TRUE]
      PROVE  lease'.recon
    BY <1>3
<1> QED
    BY <1>2, <1>3 DEF LeaseHad, HeldByRun

\* Until a takeover nobody but the holder of the lease is at work.
LEMMA AloneStep ==
    ASSUME OwnRuns, HolderInv, HolderAlone, NEW p \in Procs, ProcessStep(p)
    PROVE  HolderAlone'
<1>1. \A q \in Procs \ {p} : proc'[q] = proc[q]
    BY OthersStay DEF HolderInv
<1>2. CASE LeaseHad(p)
  <2>1. /\ lease' # None /\ lease'.owner = RunOf[p]
        /\ \/ lease # None /\ lease' = lease
           \/ lease = None
           \/ lease'.recon
    BY <1>2, LeaseHadKinds
  <2>2. CASE lease'.recon
    BY <2>1, <2>2 DEF HolderAlone
  <2>3. CASE (lease # None /\ lease' = lease) \/ lease = None
    <3>1. ASSUME NEW q \in Procs \ {p}, ~lease'.recon, RunOf[q] # lease'.owner
          PROVE  proc'[q].step \in Asleep
      BY <1>1, <2>1, <2>3, <3>1 DEF HolderAlone
    <3> QED
      BY <2>1, <3>1 DEF HolderAlone
  <2> QED
    BY <2>1, <2>2, <2>3
<1>3. CASE LeaseStays /\ ~LeaseHad(p)
  <2>1. proc[p].step \notin Asleep
    BY <1>3, SleepersStart DEF Starts
  <2>2. lease' = lease
    BY <1>3 DEF LeaseStays
  <2> QED
    BY <1>1, <2>1, <2>2 DEF HolderAlone
<1>4. CASE Releases(p) /\ ReleaseLease(GrantOf(p))
  <2>1. /\ lease # None /\ ~lease.recon /\ lease.owner = RunOf[p]
        /\ proc'[p].step \in Asleep
    BY <1>4, AuthorityIsOwn DEF Releases, ReleaseLease, Ends, At, Asleep
  <2>2. \A q \in Procs \ {p} : proc[q].step \in Asleep
    BY <2>1 DEF HolderAlone, OwnRuns
  <2> QED
    BY <1>1, <2>1, <2>2 DEF HolderAlone
<1> QED
    BY <1>2, <1>3, <1>4, LeaseChanges

\* A failure keeps the doubts in mind.
LEMMA FailedRemembers ==
    ASSUME NEW p \in Procs, NEW l \in Legs, Failed(p) \/ Degrades(p),
           InDoubtNow(l), Remembers(p, l), ~At(p, "scan")
    PROVE  proc'[p].step \in Asleep \/ Remembers(p, l)'
<1>1. CASE Ends(p)
    BY <1>1 DEF Ends
<1>2. CASE proc[p].op = "grid" /\ FailedStatus(Leg(p)) \notin Doubtful
  <2>1. l = Leg(p)
    BY <1>2 DEF Remembers
  <2>2. FailedStatus(l) \in Doubtful
    BY DEF FailedStatus, InDoubtNow, Doubtful
  <2> QED
    BY <1>2, <2>1, <2>2
<1>3. CASE proc[p].op = "sweep" /\ Leaves(p, "lease") /\ proc'[p].doubt
    BY <1>3 DEF Leaves, Remembers, At
<1>4. CASE Degrades(p)
    BY <1>4 DEF Degrades, Leaves, Remembers, At
<1> QED
    BY <1>1, <1>2, <1>3, <1>4 DEF Failed

\* Going on with the leg keeps them in mind as well.
LEMMA WorkRemembers ==
    ASSUME NEW p \in Procs, NEW l \in Legs, Works(p, Step \ {"release"}),
           Remembers(p, l), ~At(p, "scan")
    PROVE  Remembers(p, l)'
    BY DEF Works, Remembers, At, Leg

\* So does a recorded result, which is itself a doubt or not.
LEMMA RecordRemembers ==
    ASSUME WholeGrids, DoubtInv, NEW p \in Procs, Records(p), NEW l \in Legs,
           InDoubtNow(l)', InDoubtNow(l) => Remembers(p, l)
    PROVE  proc'[p].step \in Asleep \/ Remembers(p, l)'
<1> DEFINE status == proc[p].verdict
<1>1. /\ HolderInv /\ LegTypeOK /\ VerdictsKnown /\ OpsOffered /\ proc[p] \in Proc
      /\ At(p, "record") /\ Leg(p) \in Legs
    BY HolderParts, WorkParts DEF DoubtInv, HolderInv, Records, Window, At
<1>2. /\ Continued(p, status)
      /\ l = Leg(p) => status \in Doubtful
      /\ l # Leg(p) => Remembers(p, l)
    BY <1>1 DEF Records, VerdictsKnown, InDoubtNow, LegTypeOK
<1>3. CASE Ends(p)
    BY <1>3 DEF Ends
<1>4. CASE proc[p].op = "grid" /\ status \notin Doubtful
    BY <1>1, <1>2, <1>4 DEF Remembers, At
<1>5. CASE /\ proc[p].op = "sweep"
           /\ Leaves(p, "lease")
           /\ proc[p].todo \subseteq proc'[p].todo \cup {proc'[p].at}
           /\ proc'[p].doubt = InDoubt(p, status)
  <2>1. proc'[p].doubt \/ l \in proc'[p].todo \cup {proc'[p].at}
    <3>1. CASE l = Leg(p)
      BY <1>2, <1>5, <3>1 DEF InDoubt
    <3>2. CASE l # Leg(p)
      <4>1. proc[p].doubt \/ l \in proc[p].todo
        BY <1>2, <1>5, <3>2 DEF Remembers
      <4>2. proc[p].doubt => proc'[p].doubt
        BY <1>5 DEF InDoubt
      <4> QED
        BY <1>5, <4>1, <4>2
    <3> QED
      BY <3>1, <3>2
  <2> QED
    BY <1>5, <2>1 DEF Remembers, Leaves, At, Leg
<1>6. CASE proc[p].op = "sweep" /\ proc[p].todo = {} /\ ~InDoubt(p, status)
    BY <1>2, <1>6 DEF Remembers, InDoubt
<1>7. CASE proc[p].op \in {"leg", "recover", "cancel"} /\ status \in ZeroFill
  <2>1. proc[p].op \in Offered
    BY <1>1, <1>7 DEF OpsOffered, At, Asleep
  <2>2. NLegs = 1
    BY <1>7, <2>1 DEF WholeGrids
  <2>3. l = Leg(p)
    BY <1>1, <2>2 DEF Legs
  <2> QED
    BY <1>2, <1>7, <2>3 DEF ZeroFill, Doubtful
<1>8. CASE proc[p].op = "cancel" /\ (Leaves(p, "degrade") \/ Leaves(p, "withdraw"))
    BY <1>8 DEF Leaves, Remembers, At
<1> QED
    BY <1>2, <1>3, <1>4, <1>5, <1>6, <1>7, <1>8 DEF Continued

\* The holder of the lease keeps every doubt in mind, whatever it does.
LEMMA HolderRemembers ==
    ASSUME WholeGrids, DoubtInv, NEW p \in Procs, ProcessStep(p),
           lease # None, ~lease.recon, RunOf[p] = lease.owner,
           proc[p].step \notin Asleep, NEW l \in Legs, InDoubtNow(l)'
    PROVE  proc'[p].step \in Asleep \/ Remembers(p, l)'
<1>1. InDoubtNow(l) => Remembers(p, l)
    BY DEF DoubtInv, DoubtsRemembered
<1>2. CASE Records(p)
    BY <1>1, <1>2, RecordRemembers
<1>3. CASE Starts(p) \/ Releases(p) \/ Doubts(p) \/ Dies(p)
    BY <1>3 DEF Starts, Releases, Doubts, Dies, Ends, At, Asleep
<1>4. CASE /\ ~Records(p) /\ ~Doubts(p)
  <2>0. InDoubtNow(l) /\ Remembers(p, l)
    BY <1>1, <1>4, ResultsKept DEF InDoubtNow
  <2>1. CASE Relets(p)
    BY <2>0, <2>1 DEF Relets, Remembers, At, Leg
  <2>2. CASE Scans(p)
    <3>1. l \in Sources
      BY <2>0 DEF DoubtInv, DoubtsRemembered, InDoubtNow, Doubtful, Sources
    <3> QED
      BY <2>2, <3>1 DEF Scans, Ends, Remembers, At, Leg
  <2>3. CASE Looks(p) \/ Tries(p) \/ Refuses(p)
    <3>1. ~At(p, "scan")
      BY <2>3 DEF Looks, Tries, Refuses, At
    <3>2. Works(p, Step \ {"release"}) \/ Failed(p) \/ Degrades(p)
      BY <2>3 DEF Looks, Tries, Refuses, Works, Step
    <3> QED
      BY <2>0, <3>1, <3>2, WorkRemembers, FailedRemembers
  <2>4. CASE \/ Commits(p) \/ Dispatches(p) \/ Observes(p) \/ Concludes(p) \/ Cancels(p)
    <3>1. ~At(p, "scan")
      BY <2>4 DEF Commits, Dispatches, Observes, Concludes, Cancels, At
    <3>2. Works(p, Step \ {"release"}) \/ Ends(p)
      BY <2>4 DEF Commits, Dispatches, Observes, Concludes, Cancels, Works, Step
    <3> QED
      BY <2>0, <3>1, <3>2, WorkRemembers DEF Ends
  <2> QED
    BY <1>3, <1>4, <2>1, <2>2, <2>3, <2>4 DEF ProcessStep
<1> QED
    BY <1>2, <1>3, <1>4

\* A lease is given up only by a process that knows of no doubt.
LEMMA ReleasedFree ==
    ASSUME DoubtInv, NEW p \in Procs, Releases(p), ReleaseLease(GrantOf(p)),
           NEW l \in Legs
    PROVE  ~InDoubtNow(l)
<1>1. HolderInv /\ DoubtsRemembered /\ At(p, "release") /\ Authoritative(GrantOf(p))
      /\ ~lease.recon
    BY DEF DoubtInv, Releases, ReleaseLease
<1>2. lease # None /\ lease.owner = RunOf[p] /\ proc[p].step \notin Asleep
    BY <1>1, AuthorityIsOwn DEF At, Asleep
<1>3. ~Remembers(p, l)
    BY <1>1 DEF Remembers
<1> QED
    BY <1>1, <1>2, <1>3 DEF DoubtsRemembered

\* What is remembered of doubts is remembered after every step of a process.
LEMMA DoubtsStep ==
    ASSUME OwnRuns, WholeGrids, DoubtInv, NEW p \in Procs, ProcessStep(p)
    PROVE  DoubtsRemembered'
<1>1. HolderInv /\ VerdictsKnown /\ LegTypeOK /\ DoubtsRemembered /\ HolderAlone
    BY HolderParts DEF DoubtInv, HolderInv
<1>2. \A q \in Procs \ {p} : proc'[q] = proc[q]
    BY <1>1, OthersStay
<1>3. \A l \in Legs : outcome'[l] # "none" => createIntent'[l] # None
  <2>1. \A l \in Legs : outcome'[l] # "none" => createIntent[l] # None
    <3>1. CASE UNCHANGED outcome
      BY <1>1, <3>1 DEF DoubtsRemembered
    <3>2. CASE Records(p)
      BY <1>1, <3>2 DEF Records, DoubtsRemembered, LegTypeOK
    <3>3. CASE Doubts(p)
      BY <1>1, <3>3 DEF Doubts, DoubtsRemembered, LegTypeOK
    <3> QED
      BY <3>1, <3>2, <3>3, ResultsKept
  <2>2. \A l \in Legs : createIntent[l] # None => createIntent'[l] # None
    <3>1. CASE Commits(p)
      BY <1>1, <3>1 DEF Commits, LegTypeOK
    <3>2. CASE ~Commits(p)
      BY <3>2 DEF ProcessStep, Unwritten, Starts, Relets, Releases, Scans, Looks, Tries,
         Dispatches, Observes, Concludes, Records, Refuses, Cancels, Doubts, Dies
    <3> QED
      BY <3>1, <3>2
  <2> QED
    BY <2>1, <2>2
<1>4. ASSUME lease' = None, NEW l \in Legs PROVE ~InDoubtNow(l)'
  <2>1. CASE LeaseHad(p)
    BY <1>1, <1>4, <2>1, LeaseHadKinds
  <2>2. CASE LeaseStays
    <3>1. lease = None /\ ~InDoubtNow(l)
      BY <1>1, <1>4, <2>2 DEF LeaseStays, DoubtsRemembered
    <3>2. UNCHANGED outcome
      BY <3>1, ResultsKept DEF Records, Doubts, Authoritative
    <3> QED
      BY <3>1, <3>2 DEF InDoubtNow
  <2>3. CASE Releases(p) /\ ReleaseLease(GrantOf(p))
    <3>1. ~InDoubtNow(l) /\ UNCHANGED outcome
      BY <2>3, ReleasedFree DEF Releases, Unwritten
    <3> QED
      BY <3>1 DEF InDoubtNow
  <2> QED
    BY <2>1, <2>2, <2>3, LeaseChanges
<1>5. ASSUME lease' # None, ~lease'.recon, NEW q \in Procs, NEW l \in Legs,
             RunOf[q] = lease'.owner, proc'[q].step \notin Asleep, InDoubtNow(l)'
      PROVE  Remembers(q, l)'
  <2>1. CASE LeaseHad(p) /\ (Starts(p) \/ Relets(p))
    <3>1. /\ lease'.owner = RunOf[p]
          /\ (lease # None /\ lease' = lease) \/ lease = None
      BY <1>1, <1>5, <2>1, LeaseHadKinds
    <3>2. q = p
      BY <1>5, <3>1 DEF OwnRuns
    <3>3. UNCHANGED outcome
      BY <2>1 DEF Starts, Relets, Unwritten
    <3>4. lease # None /\ ~lease.recon /\ lease.owner = RunOf[p]
      BY <1>1, <1>5, <3>1, <3>3 DEF DoubtsRemembered, InDoubtNow
    <3>5. CASE Starts(p)
      BY <3>2, <3>5 DEF Starts, Remembers, At
    <3>6. CASE Relets(p)
      <4>1. proc[p].step \notin Asleep
        BY <3>6 DEF Relets, At, Asleep
      <4> QED
        BY <1>5, <3>2, <3>4, <4>1, HolderRemembers
    <3> QED
      BY <2>1, <3>5, <3>6
  <2>2. CASE LeaseStays /\ ~Starts(p)
    <3>1. lease' = lease /\ proc[p].step \notin Asleep
      BY <2>2, SleepersStart DEF LeaseStays
    <3>2. q = p
      BY <1>1, <1>5, <3>1 DEF HolderAlone, OwnRuns
    <3> QED
      BY <1>5, <3>1, <3>2, HolderRemembers
  <2>3. CASE ReleaseLease(GrantOf(p))
    BY <1>5, <2>3 DEF ReleaseLease
  <2>4. Starts(p) => LeaseHad(p)
    BY DEF Starts
  <2> QED
    BY <2>1, <2>2, <2>3, <2>4, LeaseChanges
<1> QED
    BY <1>3, <1>4, <1>5 DEF DoubtsRemembered

\* Every step keeps what makes a doubt keep the lease.
LEMMA DoubtStep == OwnRuns /\ WholeGrids /\ DoubtInv /\ [Next]_vars => DoubtInv'
<1> SUFFICES ASSUME OwnRuns, WholeGrids, DoubtInv, [Next]_vars PROVE DoubtInv'
    OBVIOUS
<1>1. HolderInv /\ GridInv /\ VerdictsKnown /\ TypeOK
    BY HolderParts DEF DoubtInv, HolderInv
<1>2. HolderInv'
    BY <1>1, HolderStep
<1>3. CASE \E p \in Procs : ProcessStep(p)
    BY <1>1, <1>2, <1>3, AloneStep, DoubtsStep, OpsStep DEF DoubtInv
<1>4. CASE Trades \/ Ages
  <2>1. /\ UNCHANGED <<proc, createIntent, outcome>>
        /\ \/ UNCHANGED lease
           \/ lease # None /\ lease' = [lease EXCEPT !.expired = TRUE]
    BY <1>4 DEF Trades, Ages, journalVars
  <2>2. /\ lease' = None <=> lease = None
        /\ lease # None => lease'.owner = lease.owner /\ lease'.recon = lease.recon
    <3>1. ASSUME lease # None, lease' = [lease EXCEPT !.expired = TRUE]
          PROVE  lease' # None /\ lease'.owner = lease.owner /\ lease'.recon = lease.recon
      <4>1. lease \in Lease
        BY <1>1, <3>1 DEF TypeOK
      <4>2. lease' \in Lease
        BY <3>1, <4>1 DEF Lease
      <4> QED
        BY <3>1, <4>1, <4>2, LeaseAssumption DEF Lease
    <3> QED
      BY <2>1, <3>1
  <2>3. HolderAlone'
    BY <2>1, <2>2 DEF DoubtInv, HolderAlone
  <2>4. DoubtsRemembered'
    BY <2>1, <2>2 DEF DoubtInv, DoubtsRemembered, InDoubtNow, Remembers, At, Leg
  <2>5. OpsOffered'
    BY <2>1 DEF DoubtInv, OpsOffered
  <2> QED
    BY <1>2, <2>3, <2>4, <2>5 DEF DoubtInv
<1> QED
    BY <1>1, <1>3, <1>4, GridStepKinds

\* A leg in doubt keeps the account leased, so that only a takeover, which raises
\* HALT, can bring in another run: no grid that ends early, and no sweep that
\* resolves its last leg, forgets the doubtful one before it.
THEOREM DoubtIsNotReleased ==
    ASSUME OwnRuns, WholeGrids PROVE Spec => []DoubtKeepsLease
<1>1. Init => DoubtInv
  <2>1. ASSUME Init PROVE \A p \in Procs : proc[p].step \in Asleep
    BY <2>1, RestingType DEF Init, Step, Asleep
  <2>2. Init => lease = None /\ \A l \in Legs : outcome[l] = "none"
    BY DEF Init, JournalInit, LegInit
  <2> QED
    BY <2>1, <2>2, HolderInit
    DEF DoubtInv, HolderAlone, DoubtsRemembered, InDoubtNow, Doubtful, OpsOffered
<1>2. DoubtInv /\ [Next]_vars => DoubtInv'
    BY DoubtStep
<1>3. DoubtInv => DoubtKeepsLease
    BY DEF DoubtInv, DoubtsRemembered, InDoubtNow, DoubtKeepsLease
<1> QED
    BY <1>1, <1>2, <1>3, PTL DEF Spec
=============================================================================
